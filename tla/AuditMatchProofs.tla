--------------------------- MODULE AuditMatchProofs ---------------------------
(***************************************************************************)
(* An honest audit matches: the replay of one device, rank by rank, over   *)
(* spilled tensors and a streaming fold, stands at every step where the    *)
(* audited segment stood, and hashes what the cluster hashed.  The fold of *)
(* the replicates' sums is taken to give the cluster's tree, which is a    *)
(* fact about ReduceTree alone.                                            *)
(***************************************************************************)
EXTENDS AuditReplayProofs

FoldIsTheClusters ==
    \A rounds \in Seq(Nat) : AuditFold(ReplicateSums(rounds)) = ClusterSum(rounds)

-----------------------------------------------------------------------------
(* The shape of an audit's memory *)

Phases == {"idle", "ended"} \cup Active

\* The counters agree with each other while the ranks run; nothing of the fold
\* is left in any other phase.
FoldShape ==
    /\ phase = "ranks" => rank = slot * DpShard + Len(inner)
    /\ phase \in Active \ {"ranks"} => stack = << >> /\ Len(inner) = 0
    /\ phase = "ranks" =>
          /\ \A i \in 1 .. Len(stack) : \E k \in 0 .. slot - 1 : stack[i].file = Fold(k)
          /\ \A i, j \in 1 .. Len(stack) : stack[i].file = stack[j].file => i = j
ShapeInv ==
    /\ phase \in Phases
    /\ verdict \in {NotYet, "init", "unchecked", "match", "mismatch", "raised"}
    /\ rank \in 0 .. World /\ slot \in 0 .. DpReplicate
    /\ Len(inner) \in 0 .. DpShard - 1
    /\ inner = [i \in 1 .. Len(inner) |-> inner[i]]
    /\ Len(stack) \in Nat /\ stack = [i \in 1 .. Len(stack) |-> stack[i]]
    /\ \A i \in 1 .. Len(stack) : stack[i].file \in DOMAIN store
    /\ \A f \in DOMAIN store : f \in {Moments, Master} \cup {Fold(k) : k \in Nat}
    /\ phase \in Active => args.until <= Current.tip + BeyondTheEnd
    /\ DOMAIN handoffs \subseteq 1 .. Current.tip + 1
    /\ FoldShape

-----------------------------------------------------------------------------
(* The fold *)

\* The stack after k replicates.
FoldedTo(rounds, k) ==
    FoldLeft(Push, << >>, [i \in 1 .. k |-> ReplicateSum(rounds, i)])

HereRounds == StepBatches(Here.pos, Here.consumed)
Stacked == FoldedTo(HereRounds, slot)
FoldInv ==
    phase = "ranks" /\ live.step <= Tip =>
    /\ inner = [sh \in 1 .. Len(inner) |-> RankShare(HereRounds, slot * DpShard + sh - 1)]
    /\ Len(stack) = Len(Stacked)
    /\ \A i \in 1 .. Len(stack) :
          /\ stack[i].level = Stacked[i].level
          /\ store[stack[i].file].sidecar = {Stacked[i].sum}

-----------------------------------------------------------------------------
(* The state *)

\* A segment starts as the resume block left a checkpoint of the one before.
ForkInv ==
    \A g \in 1 .. Len(segments) : g > 1 =>
        /\ segments[g].kind \in ForkKinds
        /\ segments[g].first \in Steps(g - 1)
        /\ segments[g].trail[segments[g].first] =
              Forked(segments[g].kind, segments[g - 1].trail[segments[g].first])

\* An honest start that does not load the boundary of a reset again: one with
\* the descriptor of its own segment.
Faithful == Honest /\ (args.desc # 0 \/ segments[args.segment].kind # "reset")

Own(s) == segments[Audited].trail[s]
MasterIs(w) ==
    IF phase = "ranks" /\ Spills("master")
    THEN Master \in DOMAIN store /\ store[Master].sidecar = {w}
    ELSE live.weights = w
MomentsAre(m) ==
    IF Spills("moments") THEN store[Moments].sidecar = {m} ELSE live.moments = m

TrackInv ==
    phase \in {"top", "done", "judged"} \cup Replaying /\ Faithful =>
    /\ Audited \in 1 .. Len(segments) /\ segments[Audited].first <= args.step
    /\ phase \in {"top", "ranks", "gate"} =>
          /\ MasterIs(Own(live.step).weights) /\ MomentsAre(Own(live.step).moments)
    /\ phase \in {"top", "ranks", "gate", "hash"} => live.chain = Own(live.step).chain
    /\ phase \in {"ranks", "gate", "hash", "counters"} =>
          live.lr = Own(live.step + 1).lr
    /\ phase \in {"gate", "hash", "counters"} => grads = HereRounds
    /\ phase \in {"hash", "counters"} =>
          /\ live.weights = Own(live.step + 1).weights
          /\ MomentsAre(Own(live.step + 1).moments)
    /\ phase = "counters" =>
          /\ live.chain = Own(live.step + 1).chain
          /\ live.step + 1 = args.until => target = Canonical(Audited, args.until)
    /\ phase \in {"done", "judged"} => target = Canonical(Audited, args.until)
    /\ phase = "judged" /\ args.expect = target => verdict = "match"

MatchInv == ShapeInv /\ FoldInv /\ ForkInv /\ TrackInv

-----------------------------------------------------------------------------
(* Ranks, replicates and shards *)

\* Quotient and remainder are determined.
LEMMA UniqueDivision ==
    ASSUME NEW S \in Nat \ {0}, NEW q \in Nat, NEW p \in Nat, NEW l \in 0 .. S - 1,
           NEW m \in 0 .. S - 1, q * S + l = p * S + m
    PROVE  q = p /\ l = m
<1>1. \A a, b \in Nat : a < b => (a + 1) * S <= b * S
    <2> SUFFICES ASSUME NEW a \in Nat, NEW b \in Nat, a < b PROVE (a + 1) * S <= b * S
        OBVIOUS
    <2>1. PICK d \in Nat : b = (a + 1) + d
        <3>1. b - (a + 1) \in Nat /\ b = (a + 1) + (b - (a + 1))
            OBVIOUS
        <3> QED BY <3>1
    <2>2. b * S = (a + 1) * S + d * S /\ d * S \in Nat
        BY <2>1
    <2> QED BY <2>2
<1>2. \A a \in Nat : (a + 1) * S = a * S + S /\ a * S \in Nat
    OBVIOUS
<1>3. ~(q < p)
    <2> SUFFICES ASSUME q < p PROVE FALSE
        OBVIOUS
    <2>1. q * S + S <= p * S
        BY <1>1, <1>2
    <2> DEFINE x == q * S
               y == p * S
    <2>2. x \in Nat /\ y \in Nat /\ x + S <= y /\ x + l = y + m
        BY <1>2, <2>1
    <2> HIDE DEF x, y
    <2> QED BY <2>2
<1>4. ~(p < q)
    <2> SUFFICES ASSUME p < q PROVE FALSE
        OBVIOUS
    <2>1. p * S + S <= q * S
        BY <1>1, <1>2
    <2> DEFINE x == q * S
               y == p * S
    <2>2. x \in Nat /\ y \in Nat /\ y + S <= x /\ x + l = y + m
        BY <1>2, <2>1
    <2> HIDE DEF x, y
    <2> QED BY <2>2
<1>5. q = p
    BY <1>3, <1>4
<1> QED BY <1>2, <1>5

LEMMA RemainderOf ==
    ASSUME NEW S \in Nat \ {0}, NEW q \in Nat, NEW l \in 0 .. S - 1
    PROVE  (q * S + l) % S = l
<1>0. q * S \in Nat
    OBVIOUS
<1> DEFINE n == q * S + l
<1>1. n \in Nat
    BY <1>0
<1>2. n \div S \in Nat /\ n % S \in 0 .. S - 1 /\ n = S * (n \div S) + (n % S)
    <2> HIDE DEF n
    <2> QED BY <1>1
<1>3. S * (n \div S) = (n \div S) * S
    <2> HIDE DEF n
    <2> QED BY <1>2
<1> DEFINE p == n \div S
           m == n % S
<1>4. p \in Nat /\ m \in 0 .. S - 1 /\ q * S + l = p * S + m
    <2> HIDE DEF p, m
    <2> QED BY <1>2, <1>3 DEF p, m
<1> HIDE DEF p, m
<1>5. l = m
    BY <1>4, UniqueDivision
<1> QED BY <1>5 DEF m

LEMMA Sizes ==
    /\ DpShard \in Nat \ {0} /\ DpReplicate \in Nat \ {0}
    /\ World = DpReplicate * DpShard
<1>1. DpShard \in Nat \ {0} /\ World \in Nat \ {0} /\ World % DpShard = 0
    BY AuditReplayAssumption, TrainAssumption
<1>2. \A w, s \in Nat \ {0} : w % s = 0 => w \div s \in Nat \ {0} /\ w = (w \div s) * s
    <2> SUFFICES ASSUME NEW w \in Nat \ {0}, NEW s \in Nat \ {0}, w % s = 0
                 PROVE  w \div s \in Nat \ {0} /\ w = (w \div s) * s
        OBVIOUS
    <2>1. w \div s \in Nat /\ w = s * (w \div s) + (w % s)
        OBVIOUS
    <2> DEFINE q == w \div s
    <2>2. q \in Nat /\ w = s * q
        BY <2>1
    <2> HIDE DEF q
    <2>3. s * q = q * s /\ (q = 0 => s * q = 0)
        BY <2>2
    <2> QED BY <2>2, <2>3 DEF q
<1> QED BY <1>1, <1>2 DEF DpReplicate

\* Where a rank stands among the shards of its replicate.
LEMMA RankSlot ==
    ASSUME NEW k \in 0 .. DpReplicate, NEW l \in 0 .. DpShard - 1,
           NEW n, n = k * DpShard + l
    PROVE  /\ n \in Nat /\ n % DpShard = l
           /\ n < World => k < DpReplicate
           /\ n = World => k = DpReplicate /\ l = 0
           /\ (n + 1) % DpShard = 0 <=> l + 1 = DpShard
           /\ l + 1 = DpShard => n + 1 = (k + 1) * DpShard
<1>1. /\ DpShard \in Nat \ {0} /\ DpReplicate \in Nat \ {0} /\ k \in Nat
      /\ World = DpReplicate * DpShard
    BY Sizes
<1>2. k * DpShard \in Nat /\ (k + 1) * DpShard = k * DpShard + DpShard
    BY <1>1
<1>3. n \in Nat /\ n % DpShard = l
    BY <1>1, <1>2, RemainderOf
<1>4. ASSUME l + 1 = DpShard PROVE n + 1 = (k + 1) * DpShard /\ (n + 1) % DpShard = 0
    <2>1. n + 1 = (k + 1) * DpShard
        BY <1>1, <1>2, <1>4
    <2>2. k + 1 \in Nat /\ 0 \in 0 .. DpShard - 1
        BY <1>1
    <2>3. ((k + 1) * DpShard + 0) % DpShard = 0
        BY <1>1, <2>2, RemainderOf
    <2>4. (k + 1) * DpShard \in Nat
        BY <1>1
    <2> QED BY <2>1, <2>3, <2>4
<1>5. ASSUME l + 1 # DpShard PROVE (n + 1) % DpShard # 0
    <2>1. l + 1 \in 0 .. DpShard - 1 /\ n + 1 = k * DpShard + (l + 1)
        BY <1>1, <1>2, <1>5
    <2>2. (k * DpShard + (l + 1)) % DpShard = l + 1
        BY <1>1, <2>1, RemainderOf
    <2> QED BY <1>1, <2>1, <2>2
<1>6. n < World => k < DpReplicate
    <2> SUFFICES ASSUME k = DpReplicate PROVE ~(n < World)
        BY <1>1
    <2> QED BY <1>1, <1>2
<1>7. n = World => k = DpReplicate /\ l = 0
    <2> SUFFICES ASSUME n = World PROVE k = DpReplicate /\ l = 0
        OBVIOUS
    <2>1. k * DpShard + l = DpReplicate * DpShard + 0 /\ 0 \in 0 .. DpShard - 1
        BY <1>1
    <2> QED BY <1>1, <2>1, UniqueDivision
<1> QED BY <1>3, <1>4, <1>5, <1>6, <1>7

-----------------------------------------------------------------------------
(* Folding a sequence into the stack, one push at a time *)

\* The function by which FoldLeft folds the first members of q.
IsIter(q, n, f) ==
    f = [s \in SUBSET (1 .. n) |->
            IF s = {} THEN << >> ELSE Push(f[s \ {Max(s)}], q[Max(s)])]

LEMMA LargestIs ==
    ASSUME NEW n \in Nat, NEW s \in SUBSET (1 .. n + 1), n + 1 \in s
    PROVE  Max(s) = n + 1
<1>1. \A y \in s : n + 1 >= y
    OBVIOUS
<1>2. \A x \in s : (\A y \in s : x >= y) => x = n + 1
    OBVIOUS
<1> QED BY <1>1, <1>2 DEF Max

LEMMA IterGrows ==
    ASSUME NEW q, NEW n \in Nat, NEW f, IsIter(q, n, f)
    PROVE  \E g : IsIter(q, n + 1, g)
<1> DEFINE g == [s \in SUBSET (1 .. n + 1) |->
                    IF n + 1 \in s THEN Push(f[s \ {n + 1}], q[n + 1]) ELSE f[s]]
<1>1. ASSUME NEW s \in SUBSET (1 .. n + 1)
      PROVE  g[s] = IF s = {} THEN << >> ELSE Push(g[s \ {Max(s)}], q[Max(s)])
    <2>1. CASE n + 1 \in s
        <3>1. Max(s) = n + 1
            BY <2>1, LargestIs
        <3>2. s \ {n + 1} \in SUBSET (1 .. n + 1) /\ n + 1 \notin s \ {n + 1}
            OBVIOUS
        <3>3. g[s \ {n + 1}] = f[s \ {n + 1}]
            BY <3>2
        <3>4. g[s] = Push(f[s \ {n + 1}], q[n + 1])
            BY <2>1
        <3> QED BY <2>1, <3>1, <3>3, <3>4
    <2>2. CASE n + 1 \notin s
        <3> DEFINE r == s \ {Max(s)}
        <3>1. s \in SUBSET (1 .. n)
            BY <2>2
        <3>2. r \in SUBSET (1 .. n + 1) /\ n + 1 \notin r
            BY <2>2
        <3>3. g[s] = f[s] /\ g[r] = f[r]
            BY <2>2, <3>2
        <3>4. f[s] = IF s = {} THEN << >> ELSE Push(f[r], q[Max(s)])
            BY <3>1 DEF IsIter
        <3> QED BY <3>3, <3>4
    <2> QED BY <2>1, <2>2
<1>2. g = [s \in SUBSET (1 .. n + 1) |-> g[s]]
    OBVIOUS
<1> HIDE DEF g
<1>3. IsIter(q, n + 1, g)
    BY <1>1, <1>2 DEF IsIter
<1> QED BY <1>3

LEMMA IterExists ==
    ASSUME NEW q, NEW n \in Nat
    PROVE  \E f : IsIter(q, n, f)
<1> DEFINE Without == {k \in Nat : ~\E f : IsIter(q, k, f)}
<1> SUFFICES ASSUME Without # {} PROVE FALSE
    OBVIOUS
<1>1. PICK m \in Without : \A k \in Without : m <= k
    <2>1. Without \in SUBSET Nat
        OBVIOUS
    <2> HIDE DEF Without
    <2> QED BY <2>1, LeastNat
<1>2. m # 0
    <2> SUFFICES \E f : IsIter(q, 0, f)
        OBVIOUS
    <2> DEFINE f == [s \in SUBSET (1 .. 0) |-> << >>]
    <2>1. \A s \in SUBSET (1 .. 0) : s = {}
        OBVIOUS
    <2>2. f = [s \in SUBSET (1 .. 0) |->
                  IF s = {} THEN << >> ELSE Push(f[s \ {Max(s)}], q[Max(s)])]
        BY <2>1
    <2> QED BY <2>2 DEF IsIter
<1>3. m - 1 \in Nat /\ m = (m - 1) + 1 /\ m - 1 \notin Without
    BY <1>1, <1>2
<1>4. \E f : IsIter(q, m - 1, f)
    BY <1>3
<1>5. \E g : IsIter(q, (m - 1) + 1, g)
    BY <1>3, <1>4, IterGrows
<1> QED BY <1>3, <1>5

\* Its value on the first k members is pushed the next one.
LEMMA IterStep ==
    ASSUME NEW q, NEW n \in Nat, NEW f, IsIter(q, n, f), NEW k \in Nat, k < n
    PROVE  f[1 .. k + 1] = Push(f[1 .. k], q[k + 1]) /\ f[{}] = << >>
<1>1. (1 .. k + 1) \in SUBSET (1 .. n) /\ {} \in SUBSET (1 .. n)
      /\ (1 .. k + 1) \in SUBSET (1 .. k + 1) /\ k + 1 \in 1 .. k + 1
    OBVIOUS
<1>2. Max(1 .. k + 1) = k + 1
    BY <1>1, LargestIs
<1>3. (1 .. k + 1) \ {k + 1} = 1 .. k
    OBVIOUS
<1>4. f[1 .. k + 1] = IF 1 .. k + 1 = {} THEN << >>
                      ELSE Push(f[(1 .. k + 1) \ {Max(1 .. k + 1)}], q[Max(1 .. k + 1)])
    BY <1>1 DEF IsIter
<1>5. f[{}] = << >>
    BY <1>1 DEF IsIter
<1>6. 1 .. k + 1 # {}
    BY <1>1
<1> QED BY <1>2, <1>3, <1>4, <1>5, <1>6

LEMMA ItersAgree ==
    ASSUME NEW q, NEW r, NEW n \in Nat, NEW m \in Nat, NEW f, NEW g,
           IsIter(q, n, f), IsIter(r, m, g), NEW k \in Nat, k <= n, k <= m,
           \A i \in 1 .. k : q[i] = r[i]
    PROVE  f[1 .. k] = g[1 .. k]
<1> DEFINE Bad == {j \in 0 .. k : f[1 .. j] # g[1 .. j]}
<1> SUFFICES ASSUME Bad # {} PROVE FALSE
    OBVIOUS
<1>1. PICK j \in Bad : \A i \in Bad : j <= i
    <2>1. Bad \in SUBSET Nat
        OBVIOUS
    <2> HIDE DEF Bad
    <2> QED BY <2>1, LeastNat
<1>2. j # 0
    <2>1. 1 .. 0 = {} /\ {} \in SUBSET (1 .. n) /\ {} \in SUBSET (1 .. m)
        OBVIOUS
    <2>2. f[{}] = << >> /\ g[{}] = << >>
        BY <2>1 DEF IsIter
    <2> QED BY <1>1, <2>1, <2>2
<1>3. j - 1 \in Nat /\ j = (j - 1) + 1 /\ j - 1 \notin Bad /\ j - 1 < n /\ j - 1 < m
      /\ j \in 1 .. k /\ j - 1 \in 0 .. k
    BY <1>1, <1>2
<1>4. f[1 .. j - 1] = g[1 .. j - 1]
    BY <1>3
<1>5. f[1 .. (j - 1) + 1] = Push(f[1 .. j - 1], q[(j - 1) + 1])
      /\ g[1 .. (j - 1) + 1] = Push(g[1 .. j - 1], r[(j - 1) + 1])
    BY <1>3, IterStep
<1> QED BY <1>1, <1>3, <1>4, <1>5

\* What FoldLeft makes of k members.
LEMMA FoldIsIter ==
    ASSUME NEW q, NEW k \in Nat, DOMAIN q = 1 .. k
    PROVE  \E f : IsIter(q, k, f) /\ FoldLeft(Push, << >>, q) = f[1 .. k]
<1> DEFINE F == CHOOSE f : f = [s \in SUBSET DOMAIN q |->
                    IF s = {} THEN << >> ELSE Push(f[s \ {Max(s)}], q[Max(s)])]
<1>1. FoldLeft(Push, << >>, q) = F[DOMAIN q]
    BY DEF FoldLeft, MapThenFoldSet
<1>2. \E f : f = [s \in SUBSET DOMAIN q |->
                    IF s = {} THEN << >> ELSE Push(f[s \ {Max(s)}], q[Max(s)])]
    <2>1. PICK f : IsIter(q, k, f)
        BY IterExists
    <2>2. f = [s \in SUBSET DOMAIN q |->
                  IF s = {} THEN << >> ELSE Push(f[s \ {Max(s)}], q[Max(s)])]
        BY <2>1 DEF IsIter
    <2> QED BY <2>2
<1>3. IsIter(q, k, F)
    BY <1>2 DEF IsIter
<1> QED BY <1>1, <1>3

LEMMA FoldStep ==
    ASSUME NEW p, NEW k \in Nat
    PROVE  /\ FoldLeft(Push, << >>, [i \in 1 .. k + 1 |-> p[i]])
                 = Push(FoldLeft(Push, << >>, [i \in 1 .. k |-> p[i]]), p[k + 1])
           /\ FoldLeft(Push, << >>, [i \in 1 .. 0 |-> p[i]]) = << >>
<1> DEFINE q == [i \in 1 .. k |-> p[i]]
           r == [i \in 1 .. k + 1 |-> p[i]]
           e == [i \in 1 .. 0 |-> p[i]]
<1>1. DOMAIN q = 1 .. k /\ DOMAIN r = 1 .. k + 1 /\ DOMAIN e = 1 .. 0 /\ k + 1 \in Nat
    OBVIOUS
<1>2. (\A i \in 1 .. k : q[i] = r[i]) /\ r[k + 1] = p[k + 1]
    OBVIOUS
<1> HIDE DEF q, r, e
<1>3. PICK f : IsIter(q, k, f) /\ FoldLeft(Push, << >>, q) = f[1 .. k]
    BY <1>1, FoldIsIter
<1>4. PICK g : IsIter(r, k + 1, g) /\ FoldLeft(Push, << >>, r) = g[1 .. k + 1]
    BY <1>1, FoldIsIter
<1>5. g[1 .. k + 1] = Push(g[1 .. k], r[k + 1])
    BY <1>1, <1>4, IterStep
<1>6. f[1 .. k] = g[1 .. k]
    BY <1>1, <1>2, <1>3, <1>4, ItersAgree
<1>7. PICK h : IsIter(e, 0, h) /\ FoldLeft(Push, << >>, e) = h[1 .. 0]
    BY <1>1, FoldIsIter
<1>8. 1 .. 0 = {} /\ {} \in SUBSET (1 .. 0)
    OBVIOUS
<1>9. h[{}] = << >>
    BY <1>7, <1>8 DEF IsIter
<1> QED BY <1>2, <1>3, <1>4, <1>5, <1>6, <1>7, <1>8, <1>9 DEF q, r, e

-----------------------------------------------------------------------------
(* One push *)

IsSeq(s) == Len(s) \in Nat /\ s = [i \in 1 .. Len(s) |-> s[i]]

\* The sum a push of x makes with the c entries it merges.
SumOf(s, c, x) ==
    FoldLeft(LAMBDA acc, lower : Plus(lower.sum, acc), x,
             Reverse(SubSeq(s, Len(s) - c + 1, Len(s))))

LEMMA SuffixFacts ==
    ASSUME NEW s, IsSeq(s), NEW c \in 0 .. Len(s)
    PROVE  SubSeq(s, Len(s) - c + 1, Len(s)) = [i \in 1 .. c |-> s[Len(s) - c + i]]
<1> DEFINE n == Len(s)
           S == {s[i] : i \in 1 .. Len(s)}
<1>1. n \in Nat /\ s \in [1 .. n -> S] /\ c \in 0 .. n
    BY DEF IsSeq
<1>2. s \in Seq(S) /\ Len(s) = n
    BY <1>1
<1>3. n - c + 1 \in 1 .. n + 1
    BY <1>1
<1> HIDE DEF S, n
<1>4. SubSeq(s, n - c + 1, n) =
         [i \in 1 .. (n - (n - c + 1) + 1) |-> s[i + (n - c + 1) - 1]]
    BY <1>1, <1>2, <1>3
<1>5. n - (n - c + 1) + 1 = c /\ \A i \in 1 .. c : i + (n - c + 1) - 1 = n - c + i
    BY <1>1
<1>6. SubSeq(s, n - c + 1, n) = [i \in 1 .. c |-> s[n - c + i]]
    BY <1>4, <1>5
<1> QED BY <1>6 DEF n

LEMMA PushIs ==
    ASSUME NEW s, IsSeq(s), NEW x, NEW c, c = CarryLength(Levels(s))
    PROVE  /\ c \in 0 .. Len(s)
           /\ IsSeq(Push(s, x)) /\ Len(Push(s, x)) = Len(s) - c + 1
           /\ \A i \in 1 .. Len(s) - c : Push(s, x)[i] = s[i]
           /\ Push(s, x)[Len(s) - c + 1] = [level |-> c, sum |-> SumOf(s, c, x)]
<1> DEFINE entry == [level |-> c, sum |-> SumOf(s, c, x)]
           below == SubSeq(s, 1, Len(s) - c)
<1>1. Push(s, x) = Append(below, entry)
    BY DEF Push, SumOf
<1>2. c \in 0 .. Len(s) /\ Len(s) - c \in 0 .. Len(s) /\ Len(s) \in Nat
    BY LevelsFacts, CarryLengthType DEF IsSeq
<1>3. Len(below) = Len(s) - c /\ below = [i \in 1 .. Len(s) - c |-> s[i]]
    BY <1>2, PrefixFacts DEF IsSeq
<1> HIDE DEF below, entry
<1>4. below = [i \in 1 .. Len(below) |-> below[i]] /\ Len(below) \in Nat
    BY <1>2, <1>3
<1>5. /\ Len(Append(below, entry)) = Len(below) + 1
      /\ Append(below, entry) =
            [i \in 1 .. Len(below) + 1 |-> IF i = Len(below) + 1 THEN entry ELSE below[i]]
      /\ \A i \in 1 .. Len(below) : Append(below, entry)[i] = below[i]
      /\ Append(below, entry)[Len(below) + 1] = entry
    BY <1>4, AppendFacts
<1>6. IsSeq(Push(s, x))
    BY <1>1, <1>4, <1>5 DEF IsSeq
<1> QED BY <1>1, <1>2, <1>3, <1>5, <1>6 DEF entry

\* Two stacks of the same levels that agree on what a push merges.
SameLevels(s, t) == Len(s) = Len(t) /\ \A i \in 1 .. Len(t) : s[i].level = t[i].level
SameTop(s, t, c) == \A i \in 1 .. Len(t) : i > Len(t) - c => s[i] = t[i]
LEMMA PushAgrees ==
    ASSUME NEW s, IsSeq(s), NEW t, IsSeq(t), NEW x, SameLevels(s, t),
           NEW c, c = CarryLength(Levels(t)), SameTop(s, t, c)
    PROVE  /\ Levels(s) = Levels(t)
           /\ Len(Push(s, x)) = Len(Push(t, x))
           /\ Push(s, x)[Len(Push(s, x))] = [level |-> c, sum |-> SumOf(t, c, x)]
<1>1. Levels(s) = [i \in 1 .. Len(s) |-> s[i].level]
      /\ Levels(t) = [i \in 1 .. Len(t) |-> t[i].level]
    BY LevelsFacts DEF IsSeq
<1>2. Levels(s) = Levels(t) /\ Len(s) = Len(t)
    BY <1>1 DEF SameLevels
<1>3. c = CarryLength(Levels(s))
    BY <1>2
<1>4. c \in 0 .. Len(t) /\ Len(Push(t, x)) = Len(t) - c + 1
    BY PushIs
<1>5. /\ Len(Push(s, x)) = Len(s) - c + 1
       /\ Push(s, x)[Len(s) - c + 1] = [level |-> c, sum |-> SumOf(s, c, x)]
    BY <1>3, PushIs
<1>6. SubSeq(t, Len(t) - c + 1, Len(t)) = [i \in 1 .. c |-> t[Len(t) - c + i]]
    BY <1>4, SuffixFacts
<1>7. SubSeq(s, Len(s) - c + 1, Len(s)) = [i \in 1 .. c |-> s[Len(s) - c + i]]
    <2>1. c \in 0 .. Len(s)
        BY <1>2, <1>4
    <2> QED BY <2>1, SuffixFacts
<1>8. \A i \in 1 .. c : Len(t) - c + i \in 1 .. Len(t) /\ Len(t) - c + i > Len(t) - c
    BY <1>4 DEF IsSeq
<1>9. \A i \in 1 .. c : s[Len(s) - c + i] = t[Len(t) - c + i]
    BY <1>2, <1>8 DEF SameTop
<1>10. SubSeq(s, Len(s) - c + 1, Len(s)) = SubSeq(t, Len(t) - c + 1, Len(t))
    BY <1>6, <1>7, <1>9
<1>11. SumOf(s, c, x) = SumOf(t, c, x)
    BY <1>10 DEF SumOf
<1> QED BY <1>2, <1>4, <1>5, <1>11

LEMMA FoldedStep ==
    ASSUME NEW rounds, NEW k \in Nat
    PROVE  /\ FoldedTo(rounds, k + 1) =
                 Push(FoldedTo(rounds, k), ReplicateSum(rounds, k + 1))
           /\ FoldedTo(rounds, 0) = << >>
<1> DEFINE p == [i \in Nat |-> ReplicateSum(rounds, i)]
<1>1. /\ [i \in 1 .. k + 1 |-> p[i]] = [i \in 1 .. k + 1 |-> ReplicateSum(rounds, i)]
      /\ [i \in 1 .. k |-> p[i]] = [i \in 1 .. k |-> ReplicateSum(rounds, i)]
      /\ [i \in 1 .. 0 |-> p[i]] = [i \in 1 .. 0 |-> ReplicateSum(rounds, i)]
      /\ p[k + 1] = ReplicateSum(rounds, k + 1)
    OBVIOUS
<1> HIDE DEF p
<1>2. /\ FoldLeft(Push, << >>, [i \in 1 .. k + 1 |-> p[i]])
            = Push(FoldLeft(Push, << >>, [i \in 1 .. k |-> p[i]]), p[k + 1])
      /\ FoldLeft(Push, << >>, [i \in 1 .. 0 |-> p[i]]) = << >>
    BY FoldStep
<1> QED BY <1>1, <1>2 DEF FoldedTo

Entries(s) == \A i \in 1 .. Len(s) : s[i] = [level |-> s[i].level, sum |-> s[i].sum]
LEMMA FoldedShape ==
    ASSUME NEW rounds, NEW k \in Nat
    PROVE  IsSeq(FoldedTo(rounds, k)) /\ Entries(FoldedTo(rounds, k))
<1> DEFINE Bad == {j \in Nat : ~(IsSeq(FoldedTo(rounds, j)) /\ Entries(FoldedTo(rounds, j)))}
<1> SUFFICES ASSUME Bad # {} PROVE FALSE
    OBVIOUS
<1>1. PICK j \in Bad : \A i \in Bad : j <= i
    <2>1. Bad \in SUBSET Nat
        OBVIOUS
    <2> HIDE DEF Bad
    <2> QED BY <2>1, LeastNat
<1>2. j # 0
    <2>1. FoldedTo(rounds, 0) = << >>
        BY FoldedStep
    <2>2. IsSeq(<< >>) /\ Entries(<< >>)
        BY DEF IsSeq, Entries
    <2> QED BY <1>1, <2>1, <2>2
<1>3. j - 1 \in Nat /\ j = (j - 1) + 1 /\ j - 1 \notin Bad
    BY <1>1, <1>2
<1> DEFINE s == FoldedTo(rounds, j - 1)
           x == ReplicateSum(rounds, j)
           c == CarryLength(Levels(s))
           p == Push(s, x)
<1>4. IsSeq(s) /\ Entries(s)
    BY <1>3
<1>5. FoldedTo(rounds, j) = p
    BY <1>3, FoldedStep
<1>6. /\ c \in 0 .. Len(s) /\ IsSeq(p) /\ Len(p) = Len(s) - c + 1
      /\ \A i \in 1 .. Len(s) - c : p[i] = s[i]
      /\ p[Len(s) - c + 1] = [level |-> c, sum |-> SumOf(s, c, x)]
    BY <1>4, PushIs
<1> HIDE DEF s, x, c, p
<1>7. Entries(p)
    <2> SUFFICES ASSUME NEW i \in 1 .. Len(p)
                 PROVE  p[i] = [level |-> p[i].level, sum |-> p[i].sum]
        BY DEF Entries
    <2>1. CASE i = Len(p)
        BY <1>6, <2>1
    <2>2. CASE i # Len(p)
        <3>1. i \in 1 .. Len(s) - c /\ i \in 1 .. Len(s)
            BY <1>4, <1>6, <2>2 DEF IsSeq
        <3> QED BY <1>4, <1>6, <3>1 DEF Entries
    <2> QED BY <2>1, <2>2
<1> QED BY <1>1, <1>5, <1>6, <1>7

-----------------------------------------------------------------------------
(* Segments keep the boundary they were forked at *)

LEMMA ForkInvStep ==
    ASSUME ClusterInv, ForkInv, [Next]_vars
    PROVE  ForkInv'
<1> DEFINE n == Len(segments)
<1>1. n \in Nat \ {0} /\ segments = [g \in 1 .. n |-> segments[g]]
    BY DEF ClusterInv, GoodRun
<1>2. CASE Advance
    <2> DEFINE new == Grown(segments[n])
    <2>1. segments' = [segments EXCEPT ![n] = new]
        BY <1>2 DEF Advance
    <2>2. \A g \in 1 .. n : /\ segments[g].first \in Nat /\ segments[g].tip \in Nat
                            /\ segments[g].first <= segments[g].tip
        BY RunFacts DEF ClusterInv
    <2>3. GoodSegment(segments[n], segments[1].trail, segments[1].tip)
        BY <1>1, RunFacts DEF ClusterInv
    <2>4. /\ new.kind = segments[n].kind /\ new.first = segments[n].first
          /\ new.trail[segments[n].first] = segments[n].trail[segments[n].first]
        <3>1. /\ new.kind = segments[n].kind /\ new.first = segments[n].first
              /\ new.trail = [s \in segments[n].first .. segments[n].tip + 1 |->
                             IF s <= segments[n].tip THEN segments[n].trail[s]
                             ELSE After(segments[n].trail[segments[n].tip],
                                        GradClass(segments[n].trail[segments[n].tip]))]
            <4> DEFINE seg == segments[n]
            <4>1. GoodSegment(seg, segments[1].trail, segments[1].tip) /\ new = Grown(seg)
                BY <2>3
            <4> HIDE DEF seg, new
            <4>2. Grown(seg) =
                     [kind |-> seg.kind, first |-> seg.first, tip |-> seg.tip + 1,
                      trail |-> [s \in seg.first .. seg.tip + 1 |->
                                    IF s <= seg.tip THEN seg.trail[s]
                                    ELSE After(seg.trail[seg.tip],
                                               GradClass(seg.trail[seg.tip]))]]
                BY <4>1, GrownFields
            <4> QED BY <4>1, <4>2 DEF seg
        <3>2. n \in 1 .. n
            BY <1>1
        <3> HIDE DEF new, n
        <3>3. segments[n].first \in segments[n].first .. segments[n].tip + 1
            BY <2>2, <3>2
        <3>4. segments[n].first <= segments[n].tip
            BY <2>2, <3>2
        <3> QED BY <3>1, <3>3, <3>4
    <2> HIDE DEF new
    <2>5. Len(segments') = n
        <3>1. segments' = [g \in 1 .. n |-> IF g = n THEN new ELSE segments[g]]
            BY <1>1, <2>1
        <3> QED BY <1>1, <3>1
    <2>6. /\ \A g \in 1 .. n : g # n => segments'[g] = segments[g]
          /\ segments'[n] = new
        BY <1>1, <2>1
    <2> SUFFICES ASSUME NEW g \in 1 .. n, g > 1
                 PROVE  /\ segments'[g].kind \in ForkKinds
                        /\ segments'[g].first \in
                              (segments'[g - 1].first + 1) .. segments'[g - 1].tip
                        /\ segments'[g].trail[segments'[g].first] =
                              Forked(segments'[g].kind,
                                     segments'[g - 1].trail[segments'[g].first])
        BY <2>5 DEF ForkInv, Steps
    <2>7. g - 1 \in 1 .. n /\ g - 1 # n
        BY <1>1
    <2>8. segments'[g - 1] = segments[g - 1]
        BY <2>6, <2>7
    <2>9. /\ segments'[g].kind = segments[g].kind /\ segments'[g].first = segments[g].first
          /\ segments'[g].trail[segments[g].first] = segments[g].trail[segments[g].first]
        BY <2>4, <2>6
    <2>10. /\ segments[g].kind \in ForkKinds
           /\ segments[g].first \in (segments[g - 1].first + 1) .. segments[g - 1].tip
           /\ segments[g].trail[segments[g].first] =
                 Forked(segments[g].kind, segments[g - 1].trail[segments[g].first])
        BY DEF ForkInv, Steps
    <2> QED BY <2>8, <2>9, <2>10
<1>3. CASE ForkRun
    <2>1. PICK kind \in ForkKinds, s \in (segments[n].first + 1) .. segments[n].tip :
             segments' = Append(segments, Segment(kind, Forked(kind, segments[n].trail[s])))
        BY <1>3 DEF ForkRun, Current
    <2> DEFINE boot == Forked(kind, segments[n].trail[s])
               new == Segment(kind, boot)
    <2>2. GoodBoundary(segments[n].trail[s], s)
        <3>1. n \in 1 .. n /\ segments[n].first \in Nat /\ segments[n].tip \in Nat
            BY <1>1, RunFacts DEF ClusterInv
        <3>2. s \in segments[n].first .. segments[n].tip
            BY <3>1
        <3> QED BY <3>1, <3>2, RunFacts DEF ClusterInv
    <2>3. boot.step = s
        <3> DEFINE st == segments[n].trail[s]
        <3>1. PICK m, a : boot = [st EXCEPT !.moments = m, !.anchor = a]
            BY DEF Forked
        <3>2. st = [step |-> st.step, consumed |-> st.consumed, weights |-> st.weights,
                    moments |-> st.moments, lr |-> st.lr, rng |-> st.rng, pos |-> st.pos,
                    data |-> st.data, chain |-> st.chain, spike |-> st.spike,
                    anchor |-> st.anchor] /\ st.step = s
            BY <2>2 DEF GoodBoundary, IsState
        <3> HIDE DEF st, boot
        <3> QED BY <3>1, <3>2
    <2> HIDE DEF boot
    <2>4. new.kind = kind /\ new.first = s /\ new.trail[s] = boot
        BY <2>3 DEF Segment
    <2> HIDE DEF new
    <2>5. segments' = Append(segments, new)
        BY <2>1 DEF new, boot
    <2>6. /\ Len(segments') = n + 1 /\ segments'[n + 1] = new
          /\ \A g \in 1 .. n : segments'[g] = segments[g]
        BY <1>1, <2>5, AppendFacts
    <2> SUFFICES ASSUME NEW g \in 1 .. n + 1, g > 1
                 PROVE  /\ segments'[g].kind \in ForkKinds
                        /\ segments'[g].first \in
                              (segments'[g - 1].first + 1) .. segments'[g - 1].tip
                        /\ segments'[g].trail[segments'[g].first] =
                              Forked(segments'[g].kind,
                                     segments'[g - 1].trail[segments'[g].first])
        BY <2>6 DEF ForkInv, Steps
    <2>7. CASE g = n + 1
        <3>1. g - 1 = n /\ n \in 1 .. n
            BY <1>1, <2>7
        <3>2. segments'[g] = new /\ segments'[g - 1] = segments[n]
            BY <2>6, <2>7, <3>1
        <3> QED BY <2>4, <3>2 DEF boot
    <2>8. CASE g # n + 1
        <3>1. g \in 1 .. n /\ g - 1 \in 1 .. n
            BY <1>1, <2>8
        <3>2. segments'[g] = segments[g] /\ segments'[g - 1] = segments[g - 1]
            BY <2>6, <3>1
        <3>3. /\ segments[g].kind \in ForkKinds
              /\ segments[g].first \in (segments[g - 1].first + 1) .. segments[g - 1].tip
              /\ segments[g].trail[segments[g].first] =
                    Forked(segments[g].kind, segments[g - 1].trail[segments[g].first])
            BY <3>1 DEF ForkInv, Steps
        <3> QED BY <3>2, <3>3
    <2> QED BY <2>7, <2>8
<1>4. CASE UNCHANGED cluster
    BY <1>4 DEF cluster, ForkInv, Steps
<1>5. Advance \/ ForkRun \/ UNCHANGED cluster
    BY DEF Next, Train, Start, VerifyInit, Replay, HandOff, Leave, Kill, BytesLost,
           BeginStep, RefuseUneven, RunRank, FoldGradients, UpdateWeights, HashStep,
           EndStep, RaiseCorruption, Judge, EndUnsaved, RefuseSave, StageSidecar,
           StageCheckpoint, Publish, vars
<1> QED BY <1>2, <1>3, <1>4, <1>5

-----------------------------------------------------------------------------
(* The memory keeps its shape *)

\* What the push of a replicate's sum does to the stack and the spill files.
LEMMA PushMoves ==
    ASSUME SpillVerify, TypeInv, StoreInv, RunRank, PushesNext,
           NEW part, part = Leaf(Summed(rank, RankBatches(rank))), NEW c, c = Carries
    PROVE  /\ c \in 0 .. Len(stack)
           /\ IsSeq(stack') /\ Len(stack') = Len(stack) - c + 1
           /\ \A i \in 1 .. Len(stack) - c : stack'[i] = stack[i]
           /\ stack'[Len(stack) - c + 1] =
                 [level |-> AfterPush(part).level, file |-> Fold(slot)]
           /\ DOMAIN store' = (DOMAIN store \ Carried) \cup {Fold(slot)}
           /\ store'[Fold(slot)].sidecar = {AfterPush(part).sum}
           /\ \A f \in DOMAIN store \ Carried : f # Fold(slot) => store'[f] = store[f]
           /\ slot' = slot + 1 /\ inner' = << >>
<1>1. Len(stack) \in Nat /\ stack = [i \in 1 .. Len(stack) |-> stack[i]]
    BY DEF RunRank, StoreInv, Active
<1>2. c \in 0 .. Len(stack)
    BY <1>1, CarriesType
<1> DEFINE top == AfterPush(part)
           below == SubSeq(stack, 1, Len(stack) - c)
           entry == [level |-> top.level, file |-> Fold(slot)]
           kept == Unlinked(store, Carried)
<1>3. /\ store' = Saved(kept, Fold(slot), top.sum)
      /\ stack' = Append(below, entry)
      /\ slot' = slot + 1 /\ inner' = << >>
    BY Zenon DEF RunRank
<1> HIDE DEF top
<1>4. Len(stack) - c \in 0 .. Len(stack)
    BY <1>1, <1>2
<1>5. Len(below) = Len(stack) - c /\ below = [i \in 1 .. Len(stack) - c |-> stack[i]]
    BY <1>1, <1>4, PrefixFacts
<1> HIDE DEF below, entry
<1>6. below = [i \in 1 .. Len(below) |-> below[i]] /\ Len(below) \in Nat
    BY <1>4, <1>5
<1>7. /\ Len(Append(below, entry)) = Len(below) + 1
      /\ Append(below, entry) =
            [i \in 1 .. Len(below) + 1 |-> IF i = Len(below) + 1 THEN entry ELSE below[i]]
      /\ \A i \in 1 .. Len(below) : Append(below, entry)[i] = below[i]
      /\ Append(below, entry)[Len(below) + 1] = entry
    BY <1>6, AppendFacts
<1>8. IsSeq(stack')
    BY <1>3, <1>6, <1>7 DEF IsSeq
<1>9. /\ DOMAIN kept = DOMAIN store \ Carried
      /\ \A f \in DOMAIN store \ Carried : kept[f] = store[f]
    BY UnlinkedFacts
<1> HIDE DEF kept
<1>10. /\ DOMAIN store' = DOMAIN kept \cup {Fold(slot)}
       /\ store'[Fold(slot)] = [payload |-> top.sum, sidecar |-> {top.sum}]
       /\ \A f \in DOMAIN kept : f # Fold(slot) => store'[f] = kept[f]
    <2> DEFINE name == Fold(slot)
               value == top.sum
    <2>1. store' = Saved(kept, name, value)
        BY <1>3
    <2> HIDE DEF name, value
    <2>2. store' = [f \in DOMAIN kept \cup {name} |->
                       IF f = name THEN [payload |-> value, sidecar |-> {value}]
                       ELSE kept[f]]
        BY <2>1 DEF Saved
    <2>3. /\ DOMAIN store' = (DOMAIN kept) \cup {name}
          /\ store'[name] = [payload |-> value, sidecar |-> {value}]
          /\ \A f \in DOMAIN kept : f # name => store'[f] = kept[f]
        BY <2>2
    <2> QED BY <2>3 DEF name, value
<1>11. store'[Fold(slot)].sidecar = {top.sum}
    BY <1>10
<1> QED BY <1>2, <1>3, <1>5, <1>7, <1>8, <1>9, <1>10, <1>11 DEF top, entry

\* A rank runs where its replicate and shard say.
LEMMA RunRankSlot ==
    ASSUME ShapeInv, RunRank
    PROVE  /\ rank = slot * DpShard + Len(inner) /\ rank < World
           /\ slot < DpReplicate /\ slot + 1 \in 0 .. DpReplicate
           /\ Len(inner) \in 0 .. DpShard - 1 /\ rank % DpShard = Len(inner)
           /\ PushesNext <=> Len(inner) + 1 = DpShard
           /\ PushesNext => rank + 1 = (slot + 1) * DpShard
<1>1. phase = "ranks" /\ rank < World
    BY DEF RunRank
<1>2. slot \in 0 .. DpReplicate /\ Len(inner) \in 0 .. DpShard - 1
      /\ rank = slot * DpShard + Len(inner)
    BY <1>1 DEF ShapeInv, FoldShape
<1>3. /\ rank \in Nat /\ rank % DpShard = Len(inner)
      /\ rank < World => slot < DpReplicate
      /\ (rank + 1) % DpShard = 0 <=> Len(inner) + 1 = DpShard
      /\ Len(inner) + 1 = DpShard => rank + 1 = (slot + 1) * DpShard
    BY <1>2, RankSlot
<1> QED BY <1>1, <1>2, <1>3, Sizes DEF PushesNext

\* The shards of a replicate are gathered one by one.
LEMMA SummedGrows ==
    ASSUME ShapeInv, RunRank, NEW b
    PROVE  /\ Len(Summed(rank, b)) = Len(inner) + 1
           /\ Summed(rank, b) = [i \in 1 .. Len(inner) + 1 |->
                                    IF i = Len(inner) + 1 THEN b ELSE inner[i]]
<1>1. Len(inner) \in 0 .. DpShard - 1 /\ rank % DpShard = Len(inner)
    BY RunRankSlot
<1>2. inner = [i \in 1 .. Len(inner) |-> inner[i]]
    BY DEF ShapeInv
<1>3. CASE Len(inner) = 0
    <2>1. Summed(rank, b) = <<b>>
        BY <1>1, <1>3 DEF Summed
    <2>2. <<b>> = [i \in 1 .. 0 + 1 |-> IF i = 0 + 1 THEN b ELSE inner[i]] /\ Len(<<b>>) = 1
        OBVIOUS
    <2> QED BY <1>3, <2>1, <2>2
<1>4. CASE Len(inner) # 0
    <2>1. Summed(rank, b) = Append(inner, b)
        BY <1>1, <1>4 DEF Summed
    <2>2. Len(inner) \in Nat
        BY <1>1
    <2>3. /\ Len(Append(inner, b)) = Len(inner) + 1
          /\ Append(inner, b) = [i \in 1 .. Len(inner) + 1 |->
                                    IF i = Len(inner) + 1 THEN b ELSE inner[i]]
        BY <1>2, <2>2, AppendFacts
    <2> QED BY <2>1, <2>3
<1> QED BY <1>3, <1>4

FoldFilesAt(k) ==
    /\ \A i \in 1 .. Len(stack) : \E j \in 0 .. k - 1 : stack[i].file = Fold(j)
    /\ \A i, j \in 1 .. Len(stack) : stack[i].file = stack[j].file => i = j

LEMMA RunRankShape ==
    ASSUME SpillVerify, TypeInv, StoreInv, ShapeInv, RunRank
    PROVE  ShapeInv'
<1>1. phase = "ranks" /\ phase' = phase /\ rank' = rank + 1
      /\ UNCHANGED <<cluster, args, verdict, handoffs>>
    BY DEF RunRank
<1>2. /\ rank = slot * DpShard + Len(inner) /\ rank < World
      /\ slot < DpReplicate /\ slot + 1 \in 0 .. DpReplicate
      /\ Len(inner) \in 0 .. DpShard - 1 /\ rank % DpShard = Len(inner)
      /\ PushesNext <=> Len(inner) + 1 = DpShard
      /\ PushesNext => rank + 1 = (slot + 1) * DpShard
    BY RunRankSlot
<1>3. segments' = segments
    BY <1>1 DEF cluster
<1>4. /\ phase' \in Phases
      /\ verdict' \in {NotYet, "init", "unchecked", "match", "mismatch", "raised"}
      /\ phase' \in Active => args'.until <= Current'.tip + BeyondTheEnd
      /\ DOMAIN handoffs' \subseteq 1 .. Current'.tip + 1
      /\ rank' \in 0 .. World /\ World \in Nat
    <2>1. rank \in 0 .. World /\ World \in Nat
        BY TrainAssumption DEF ShapeInv
    <2> QED BY <1>1, <1>2, <1>3, <2>1 DEF ShapeInv, Current, Phases, Active
<1>5. /\ IsSeq(stack) /\ \A i \in 1 .. Len(stack) : stack[i].file \in DOMAIN store
      /\ \A f \in DOMAIN store : f \in {Moments, Master} \cup {Fold(k) : k \in Nat}
      /\ FoldFilesAt(slot) /\ slot \in Nat
    BY <1>1 DEF ShapeInv, FoldShape, FoldFilesAt, IsSeq
<1>6. \A k \in Nat, j \in Nat : Fold(k) = Fold(j) => k = j
    BY DEF Fold
<1>7. CASE ~PushesNext
    <2>1. UNCHANGED <<store, stack, slot>>
        BY <1>7 DEF RunRank
    <2>2. /\ Len(inner') = Len(inner) + 1 /\ Len(inner') \in 0 .. DpShard - 1
          /\ inner' = [i \in 1 .. Len(inner) + 1 |->
                          IF i = Len(inner) + 1 THEN RankBatches(rank) ELSE inner[i]]
        <3> DEFINE b == RankBatches(rank)
        <3>1. inner' = Summed(rank, b)
            BY <1>7 DEF RunRank
        <3> HIDE DEF b
        <3>2. /\ Len(Summed(rank, b)) = Len(inner) + 1
              /\ Summed(rank, b) = [i \in 1 .. Len(inner) + 1 |->
                                       IF i = Len(inner) + 1 THEN b ELSE inner[i]]
            BY SummedGrows
        <3>3. Len(inner) + 1 \in 0 .. DpShard - 1
            BY <1>2, <1>7, Sizes
        <3> QED BY <3>1, <3>2, <3>3 DEF b
    <2>3. inner' = [i \in 1 .. Len(inner') |-> inner'[i]]
        <3> DEFINE n == Len(inner)
                   b == RankBatches(rank)
        <3>1. inner' = [i \in 1 .. n + 1 |-> IF i = n + 1 THEN b ELSE inner[i]]
              /\ Len(inner') = n + 1
            BY <2>2
        <3> HIDE DEF n, b
        <3> QED BY <3>1
    <2>4. rank' = slot' * DpShard + Len(inner')
        <3>1. slot * DpShard \in Nat
            BY <1>5, Sizes
        <3> QED BY <1>1, <1>2, <2>1, <2>2, <3>1
    <2>5. FoldFilesAt(slot)' /\ slot' \in 0 .. DpReplicate
        BY <1>5, <2>1 DEF FoldFilesAt, ShapeInv
    <2>6. FoldShape'
        BY <1>1, <2>4, <2>5 DEF FoldShape, FoldFilesAt, Active
    <2>7. /\ \A i \in 1 .. Len(stack') : stack'[i].file \in DOMAIN store'
          /\ \A f \in DOMAIN store' : f \in {Moments, Master} \cup {Fold(k) : k \in Nat}
          /\ Len(stack') \in Nat /\ stack' = [i \in 1 .. Len(stack') |-> stack'[i]]
        BY <1>5, <2>1 DEF IsSeq, Moments, Master, Fold
    <2> QED BY <1>4, <2>2, <2>3, <2>5, <2>6, <2>7 DEF ShapeInv, Moments, Master, Fold
<1>8. CASE PushesNext
    <2> DEFINE part == Leaf(Summed(rank, RankBatches(rank)))
               c == Carries
               top == AfterPush(part)
    <2>1. /\ c \in 0 .. Len(stack)
          /\ IsSeq(stack') /\ Len(stack') = Len(stack) - c + 1
          /\ \A i \in 1 .. Len(stack) - c : stack'[i] = stack[i]
          /\ stack'[Len(stack) - c + 1] = [level |-> top.level, file |-> Fold(slot)]
          /\ DOMAIN store' = (DOMAIN store \ Carried) \cup {Fold(slot)}
          /\ slot' = slot + 1 /\ inner' = << >>
        BY <1>8, PushMoves
    <2>2. Carried = {stack[i].file : i \in (Len(stack) - c + 1) .. Len(stack)}
        BY DEF Carried
    <2> HIDE DEF part, c, top
    <2>3. \A i \in 1 .. Len(stack') :
             \/ i = Len(stack') /\ stack'[i].file = Fold(slot)
             \/ i \in 1 .. Len(stack) - c /\ i \in 1 .. Len(stack) /\ stack'[i] = stack[i]
        <3> SUFFICES ASSUME NEW i \in 1 .. Len(stack')
                     PROVE  \/ i = Len(stack') /\ stack'[i].file = Fold(slot)
                            \/ /\ i \in 1 .. Len(stack) - c /\ i \in 1 .. Len(stack)
                               /\ stack'[i] = stack[i]
            OBVIOUS
        <3>1. CASE i = Len(stack')
            BY <2>1, <3>1
        <3>2. CASE i # Len(stack')
            <4>1. Len(stack) \in Nat
                BY <1>5 DEF IsSeq
            <4>2. \A a \in Nat : \A b \in 0 .. a : \A k \in 1 .. a - b + 1 :
                     k # a - b + 1 => k \in 1 .. a - b /\ k \in 1 .. a
                OBVIOUS
            <4>3. i \in 1 .. Len(stack) - c + 1 /\ i # Len(stack) - c + 1
                BY <2>1, <3>2
            <4>4. i \in 1 .. Len(stack) - c /\ i \in 1 .. Len(stack)
                BY <2>1, <4>1, <4>2, <4>3
            <4> QED BY <2>1, <4>4
        <3> QED BY <3>1, <3>2
    <2>4. \A i \in 1 .. Len(stack) - c : i \in 1 .. Len(stack) /\ stack[i].file \notin Carried
        <3> SUFFICES ASSUME NEW i \in 1 .. Len(stack) - c
                     PROVE  i \in 1 .. Len(stack) /\ stack[i].file \notin Carried
            OBVIOUS
        <3>1. Len(stack) \in Nat
            BY <1>5 DEF IsSeq
        <3>2. i \in 1 .. Len(stack)
            BY <2>1, <3>1
        <3>3. ASSUME NEW j \in (Len(stack) - c + 1) .. Len(stack)
              PROVE  stack[j].file # stack[i].file
            <4>1. j \in 1 .. Len(stack) /\ j # i
                BY <2>1, <3>1
            <4> QED BY <1>5, <3>2, <4>1 DEF FoldFilesAt
        <3> QED BY <2>2, <3>2, <3>3
    <2>5. \A i \in 1 .. Len(stack') : stack'[i].file \in DOMAIN store'
        BY <1>5, <2>1, <2>3, <2>4
    <2>6. \A f \in DOMAIN store' : f \in {Moments, Master} \cup {Fold(k) : k \in Nat}
        BY <1>5, <2>1
    <2>7. \A i \in 1 .. Len(stack) : stack[i].file # Fold(slot)
        <3> SUFFICES ASSUME NEW i \in 1 .. Len(stack) PROVE stack[i].file # Fold(slot)
            OBVIOUS
        <3>1. PICK j \in 0 .. slot - 1 : stack[i].file = Fold(j)
            BY <1>5 DEF FoldFilesAt
        <3> QED BY <1>5, <1>6, <3>1
    <2>8. FoldFilesAt(slot)'
        <3>1. ASSUME NEW i \in 1 .. Len(stack')
              PROVE  \E j \in 0 .. slot' - 1 : stack'[i].file = Fold(j)
            <4>1. CASE stack'[i].file = Fold(slot)
                <5>1. slot \in 0 .. slot' - 1
                    BY <1>5, <2>1
                <5> QED BY <4>1, <5>1
            <4>2. CASE i \in 1 .. Len(stack) /\ stack'[i] = stack[i]
                <5>1. PICK j \in 0 .. slot - 1 : stack[i].file = Fold(j)
                    BY <1>5, <4>2 DEF FoldFilesAt
                <5>2. j \in 0 .. slot' - 1
                    BY <1>5, <2>1
                <5> QED BY <4>2, <5>1, <5>2
            <4> QED BY <2>3, <4>1, <4>2
        <3>2. ASSUME NEW i \in 1 .. Len(stack'), NEW j \in 1 .. Len(stack'),
                     stack'[i].file = stack'[j].file
              PROVE  i = j
            BY <1>5, <2>3, <2>7, <3>2 DEF FoldFilesAt
        <3>3. \A j : Fold(j)' = Fold(j)
            BY DEF Fold
        <3> QED BY <3>1, <3>2, <3>3 DEF FoldFilesAt, Fold
    <2>9. Len(inner') = 0 /\ inner' = [i \in 1 .. Len(inner') |-> inner'[i]]
        BY <2>1
    <2>10. slot' * DpShard \in Nat /\ rank' = slot' * DpShard
        BY <1>1, <1>2, <1>8, <1>5, <2>1, Sizes
    <2>11. rank' = slot' * DpShard + Len(inner')
        BY <2>9, <2>10
    <2>12. FoldShape'
        BY <1>1, <2>8, <2>11 DEF FoldShape, FoldFilesAt, Active
    <2>13. slot' \in 0 .. DpReplicate /\ Len(inner') \in 0 .. DpShard - 1
        BY <1>2, <2>1, <2>9, Sizes
    <2> QED BY <1>4, <2>1, <2>5, <2>6, <2>9, <2>12, <2>13
           DEF ShapeInv, IsSeq, Moments, Master, Fold
<1> QED BY <1>7, <1>8

\* An audit goes on with the fold as it was.
LEMMA ShapeFrame ==
    ASSUME ShapeInv, UNCHANGED <<segments, handoffs, rank, inner, slot>>,
           phase \in Active, phase' \in Active, args'.until = args.until,
           verdict' \in {NotYet, "init", "unchecked", "match", "mismatch", "raised"},
           phase' # "ranks",
           Len(stack') = 0 /\ stack' = << >>, Len(inner) = 0,
           \A f \in DOMAIN store' : f \in {Moments, Master} \cup {Fold(k) : k \in Nat}
    PROVE  ShapeInv'
<1>1. stack' = [i \in 1 .. Len(stack') |-> stack'[i]]
      /\ (\A i \in 1 .. Len(stack') : stack'[i].file \in DOMAIN store')
      /\ Len(stack') \in Nat
    OBVIOUS
<1>2. \A f \in DOMAIN store' : f \in {Moments', Master'} \cup {Fold(k)' : k \in Nat}
    BY DEF Moments, Master, Fold
<1>3. phase' \in Phases /\ FoldShape'
    BY DEF Phases, FoldShape, Active
<1>4. args'.until <= Current'.tip + BeyondTheEnd /\ DOMAIN handoffs' \subseteq 1 .. Current'.tip + 1
    BY DEF ShapeInv, Current
<1> QED BY <1>1, <1>2, <1>3, <1>4 DEF ShapeInv

\* The files a step of the audit leaves on disk.
LEMMA FilesStay ==
    ASSUME ShapeInv, SpillVerify,
           \/ store' = store \/ store' = EmptyStore
           \/ \E v : store' = Saved(store, Moments, v) \/ store' = Saved(store, Master, v)
           \/ \E v : store' = Saved(EmptyStore, Moments, v)
           \/ \E names : store' = Unlinked(store, names)
    PROVE  \A f \in DOMAIN store' : f \in {Moments, Master} \cup {Fold(k) : k \in Nat}
<1>1. \A f \in DOMAIN store : f \in {Moments, Master} \cup {Fold(k) : k \in Nat}
    BY DEF ShapeInv
<1>2. DOMAIN EmptyStore = {}
    BY DEF EmptyStore
<1>3. CASE \E v : store' = Saved(store, Moments, v) \/ store' = Saved(store, Master, v)
    <2>1. PICK v : store' = Saved(store, Moments, v) \/ store' = Saved(store, Master, v)
        BY <1>3
    <2>2. DOMAIN store' = (DOMAIN store) \cup {Moments}
          \/ DOMAIN store' = (DOMAIN store) \cup {Master}
        BY <2>1 DEF Saved
    <2> QED BY <1>1, <2>2
<1>4. CASE \E v : store' = Saved(EmptyStore, Moments, v)
    <2>1. DOMAIN store' = (DOMAIN EmptyStore) \cup {Moments}
        BY <1>4 DEF Saved
    <2> QED BY <1>2, <2>1
<1>5. CASE \E names : store' = Unlinked(store, names)
    <2>1. PICK names : store' = Unlinked(store, names)
        BY <1>5
    <2>2. DOMAIN store' = (DOMAIN store) \ names
        BY <2>1 DEF Unlinked
    <2> QED BY <1>1, <2>2
<1> QED BY <1>1, <1>2, <1>3, <1>4, <1>5

LEMMA ReplayShape ==
    ASSUME SpillVerify, TypeInv, StoreInv, ShapeInv,
           FoldGradients \/ UpdateWeights \/ HashStep \/ EndStep
    PROVE  ShapeInv'
<1>1. /\ phase \in Active /\ phase' \in Active /\ phase' # "ranks"
      /\ UNCHANGED <<segments, handoffs, rank, inner, slot, args, verdict>>
    BY DEF FoldGradients, UpdateWeights, HashStep, EndStep, Active, cluster
<1>2. stack' = << >> /\ Len(inner) = 0
    <2>1. CASE phase = "ranks"
        <3>1. FoldGradients /\ stack' = << >> /\ rank = World
            BY <2>1 DEF FoldGradients, UpdateWeights, HashStep, EndStep
        <3>2. slot \in 0 .. DpReplicate /\ Len(inner) \in 0 .. DpShard - 1
              /\ rank = slot * DpShard + Len(inner)
            BY <2>1 DEF ShapeInv, FoldShape
        <3>3. rank = World => slot = DpReplicate /\ Len(inner) = 0
            BY <3>2, RankSlot
        <3> QED BY <3>1, <3>3
    <2>2. CASE phase # "ranks"
        <3>1. stack = << >> /\ Len(inner) = 0
            BY <1>1, <2>2 DEF ShapeInv, FoldShape
        <3>2. stack' = stack
            BY <2>2 DEF FoldGradients, UpdateWeights, HashStep, EndStep
        <3> QED BY <3>1, <3>2
    <2> QED BY <2>1, <2>2
<1>3. \/ store' = store
      \/ \E v : store' = Saved(store, Moments, v)
      \/ \E names : store' = Unlinked(store, names)
    BY DEF FoldGradients, UpdateWeights, HashStep, EndStep
<1>4. \A f \in DOMAIN store' : f \in {Moments, Master} \cup {Fold(k) : k \in Nat}
    BY <1>3, FilesStay
<1>5. verdict' \in {NotYet, "init", "unchecked", "match", "mismatch", "raised"}
    BY <1>1 DEF ShapeInv
<1> QED BY <1>1, <1>2, <1>4, <1>5, ShapeFrame

LEMMA BeginStepShape ==
    ASSUME SpillVerify, ShapeInv, BeginStep
    PROVE  ShapeInv'
<1>1. /\ phase = "top" /\ phase' = "ranks" /\ stack' = << >> /\ slot' = 0 /\ rank' = 0
      /\ UNCHANGED <<segments, handoffs, inner, args, verdict>>
    BY DEF BeginStep, cluster
<1>2. Len(inner) = 0
    BY <1>1 DEF ShapeInv, FoldShape, Active
<1>3. \A f \in DOMAIN store' : f \in {Moments, Master} \cup {Fold(k) : k \in Nat}
    BY FilesStay DEF BeginStep
<1>4. FoldShape'
    BY <1>1, <1>2, Sizes DEF FoldShape
<1>5. \A f \in DOMAIN store' : f \in {Moments', Master'} \cup {Fold(k)' : k \in Nat}
    BY <1>3 DEF Moments, Master, Fold
<1>6. Len(stack') \in Nat /\ stack' = [i \in 1 .. Len(stack') |-> stack'[i]]
      /\ \A i \in 1 .. Len(stack') : stack'[i].file \in DOMAIN store'
    BY <1>1
<1>7. phase' \in Phases /\ phase \in Active /\ rank' \in 0 .. World /\ slot' \in 0 .. DpReplicate
    BY <1>1, Sizes, TrainAssumption DEF Phases, Active
<1>8. args'.until <= Current'.tip + BeyondTheEnd /\ DOMAIN handoffs' \subseteq 1 .. Current'.tip + 1
    BY <1>1, <1>7 DEF ShapeInv, Current
<1> QED BY <1>1, <1>4, <1>5, <1>6, <1>7, <1>8 DEF ShapeInv

LEMMA HandOffShape ==
    ASSUME SpillVerify, ShapeInv, Judge \/ StageSidecar \/ StageCheckpoint
    PROVE  ShapeInv'
<1>1. /\ phase \in Active /\ phase' \in Active /\ phase' # "ranks" /\ phase # "ranks"
      /\ UNCHANGED <<segments, handoffs, rank, inner, slot, stack>>
      /\ verdict' = verdict \/ verdict' \in {"unchecked", "match", "mismatch"}
    BY DEF Judge, StageSidecar, StageCheckpoint, Active, cluster
<1>2. stack' = << >> /\ Len(inner) = 0
    BY <1>1 DEF ShapeInv, FoldShape
<1>3. args'.until = args.until
    <2>1. CASE Judge
        <3>1. PICK e : args' = [args EXCEPT !.expect = e]
            BY <2>1 DEF Judge
        <3> QED BY <3>1
    <2>2. CASE ~Judge
        BY <2>2 DEF StageSidecar, StageCheckpoint
    <2> QED BY <2>1, <2>2
<1>4. \A f \in DOMAIN store' : f \in {Moments, Master} \cup {Fold(k) : k \in Nat}
    <2>1. store' = store \/ store' = EmptyStore
        BY DEF Judge, StageSidecar, StageCheckpoint
    <2> QED BY <2>1, FilesStay
<1>5. verdict' \in {NotYet, "init", "unchecked", "match", "mismatch", "raised"}
    BY <1>1 DEF ShapeInv
<1> QED BY <1>1, <1>2, <1>3, <1>4, <1>5, ShapeFrame

\* An audit that is over keeps its memory until it leaves.
LEMMA EndingShape ==
    ASSUME ShapeInv,
           UNCHANGED <<segments, rank, inner, slot, stack, store>>,
           phase' = "ended",
           verdict' \in {NotYet, "init", "unchecked", "match", "mismatch", "raised"},
           DOMAIN handoffs' \subseteq 1 .. Current.tip + 1
    PROVE  ShapeInv'
<1>1. \A f \in DOMAIN store' : f \in {Moments', Master'} \cup {Fold(k)' : k \in Nat}
    BY DEF ShapeInv, Moments, Master, Fold
<1>2. /\ Len(stack') \in Nat /\ stack' = [i \in 1 .. Len(stack') |-> stack'[i]]
      /\ \A i \in 1 .. Len(stack') : stack'[i].file \in DOMAIN store'
    BY DEF ShapeInv
<1>3. /\ rank' \in 0 .. World /\ slot' \in 0 .. DpReplicate /\ Len(inner') \in 0 .. DpShard - 1
      /\ inner' = [i \in 1 .. Len(inner') |-> inner'[i]]
    BY DEF ShapeInv
<1>4. FoldShape' /\ phase' \in Phases /\ phase' \notin Active
    BY DEF FoldShape, Phases, Active
<1>5. DOMAIN handoffs' \subseteq 1 .. Current'.tip + 1
    BY DEF Current
<1>6. Active' = Active
    BY DEF Active
<1> QED BY <1>1, <1>2, <1>3, <1>4, <1>5, <1>6 DEF ShapeInv

LEMMA EndingsShape ==
    ASSUME ShapeInv,
           VerifyInit \/ RefuseUneven \/ RaiseCorruption \/ EndUnsaved \/ RefuseSave
    PROVE  ShapeInv'
<1>1. /\ UNCHANGED <<segments, rank, inner, slot, stack, store, handoffs>>
      /\ phase' = "ended" /\ verdict' \in {"init", "mismatch", "raised"} \cup {verdict}
    BY DEF VerifyInit, RefuseUneven, RaiseCorruption, EndUnsaved, RefuseSave, cluster, memory
<1>2. /\ verdict' \in {NotYet, "init", "unchecked", "match", "mismatch", "raised"}
      /\ DOMAIN handoffs' \subseteq 1 .. Current.tip + 1
    BY <1>1 DEF ShapeInv
<1> QED BY <1>1, <1>2, EndingShape

\* The step a hand-off is published for is one an audit may aim at.
LEMMA PublishShape ==
    ASSUME Inv, ShapeInv, Publish
    PROVE  ShapeInv'
<1>1. /\ phase = "staged" /\ phase \in Active
      /\ UNCHANGED <<segments, rank, inner, slot, stack, store, verdict>>
      /\ phase' = "ended" /\ DOMAIN handoffs' = (DOMAIN handoffs) \cup {live.step}
    BY DEF Publish, Active, cluster
<1>2. target # NoDigest /\ live.step = args.until
    BY <1>1 DEF Inv, AuditInv, TargetInv, AtStep
<1>3. /\ args.step \in Nat /\ args.until \in Nat /\ args.step < args.until
      /\ args.until <= Current.tip + 1
    BY <1>1 DEF Inv, AuditInv, ArgsInv, ShapeInv, BeyondTheEnd
<1>4. Current.tip \in Nat
    <2>1. Len(segments) \in 1 .. Len(segments)
        BY DEF Inv, ClusterInv, GoodRun
    <2> QED BY <2>1, RunFacts DEF Inv, ClusterInv, Current
<1>5. live.step \in 1 .. Current.tip + 1
    BY <1>2, <1>3, <1>4
<1>6. /\ DOMAIN handoffs' \subseteq 1 .. Current.tip + 1
      /\ verdict' \in {NotYet, "init", "unchecked", "match", "mismatch", "raised"}
    BY <1>1, <1>5 DEF ShapeInv
<1> QED BY <1>1, <1>6, EndingShape

LEMMA IdleShape ==
    ASSUME ShapeInv, Leave \/ Kill
    PROVE  ShapeInv'
<1>0. Idle /\ DOMAIN handoffs' \subseteq 1 .. Current'.tip + 1
    BY DEF Leave, Kill, ShapeInv, Current, cluster
<1>1. /\ phase' = "idle" /\ verdict' = NotYet /\ rank' = 0 /\ inner' = << >>
      /\ stack' = << >> /\ slot' = 0 /\ store' = << >>
    BY <1>0 DEF Idle, EmptyStore
<1>2. FoldShape' /\ phase' \in Phases /\ phase' \notin Active /\ Active' = Active
    BY <1>1 DEF FoldShape, Phases, Active
<1>3. rank' \in 0 .. World /\ slot' \in 0 .. DpReplicate /\ Len(inner') \in 0 .. DpShard - 1
    BY <1>1, Sizes, TrainAssumption
<1> QED BY <1>0, <1>1, <1>2, <1>3 DEF ShapeInv

LEMMA StartShape ==
    ASSUME SpillVerify, ShapeInv, Start
    PROVE  ShapeInv'
<1>1. PICK o \in Origins, spills \in SpillChoices :
         \E d \in Descriptors(o), until \in {0} \cup (1 .. Current.tip + BeyondTheEnd) :
            StartWith(o, d, spills, until)
    BY DEF Start
<1>2. PICK d \in Descriptors(o), until \in {0} \cup (1 .. Current.tip + BeyondTheEnd) :
         StartWith(o, d, spills, until)
    BY <1>1
<1> DEFINE ckpt == Overlaid(LoadedFrom(o), d)
           st == [StartState(ckpt) EXCEPT !.chain = StartChain(ckpt)]
           m == st.moments
           aim == Target(until, st.step)
<1>3. /\ aim <= Current.tip + BeyondTheEnd
      /\ \E seg, s, dd, r : args' = [origin |-> o.origin, segment |-> seg, step |-> s,
                desc |-> dd, until |-> aim, spills |-> spills,
                reset |-> r, expect |-> NoDigest]
      /\ store' = IF "moments" \in spills
                THEN Saved(EmptyStore, Moments, m) ELSE EmptyStore
      /\ Fresh(st, spills)
    BY <1>2 DEF StartWith
<1> HIDE DEF ckpt, st, m, aim
<1>4. args'.until = aim
    BY <1>3
<1>5. UNCHANGED <<segments, handoffs>> /\ phase' \in {"top", "done"}
    BY DEF Start, cluster
<1>6. /\ rank' = 0 /\ inner' = << >> /\ stack' = << >> /\ slot' = 0 /\ verdict' = NotYet
    BY <1>3 DEF Fresh
<1>7. \A f \in DOMAIN store' : f \in {Moments, Master} \cup {Fold(k) : k \in Nat}
    BY <1>3, FilesStay
<1>8. \A f \in DOMAIN store' : f \in {Moments', Master'} \cup {Fold(k)' : k \in Nat}
    BY <1>7 DEF Moments, Master, Fold
<1>9. FoldShape' /\ phase' \in Phases
    BY <1>5, <1>6 DEF FoldShape, Phases, Active
<1>10. rank' \in 0 .. World /\ slot' \in 0 .. DpReplicate /\ Len(inner') \in 0 .. DpShard - 1
    BY <1>6, Sizes, TrainAssumption
<1>11. args'.until <= Current'.tip + BeyondTheEnd /\ DOMAIN handoffs' \subseteq 1 .. Current'.tip + 1
    BY <1>3, <1>4, <1>5 DEF ShapeInv, Current
<1> QED BY <1>6, <1>8, <1>9, <1>10, <1>11 DEF ShapeInv

LEMMA BytesLostShape ==
    ASSUME Inv, ShapeInv, BytesLost
    PROVE  ShapeInv'
<1>1. /\ UNCHANGED <<segments, handoffs, phase, args, rank, inner, stack, slot, verdict>>
      /\ DOMAIN store' = DOMAIN store
    BY DEF BytesLost, cluster, memory, Rotted
<1>2. UNCHANGED Current /\ FoldShape'
    BY <1>1 DEF Current, ShapeInv, FoldShape, Fold, Active
<1> QED BY <1>1, <1>2 DEF ShapeInv, Moments, Master, Fold, Phases, Active

LEMMA TrainShape ==
    ASSUME Inv, Inv', ShapeInv, Train
    PROVE  ShapeInv'
<1>1. /\ phase = "idle" /\ left.audits = MaxAudits
      /\ UNCHANGED <<handoffs, phase, rank, inner, stack, slot, store, verdict>>
    BY DEF Train, audit, memory
<1>2. DOMAIN handoffs' = {}
    BY <1>1 DEF Inv, LeftInv
<1>3. phase' \notin Active /\ Active' = Active /\ FoldShape'
    BY <1>1 DEF Active, FoldShape
<1> QED BY <1>1, <1>2, <1>3 DEF ShapeInv, Moments, Master, Fold, Phases

LEMMA ShapeInit == Init => ShapeInv
<1> SUFFICES ASSUME Init PROVE ShapeInv
    OBVIOUS
<1>1. /\ phase = "idle" /\ verdict = NotYet /\ rank = 0 /\ inner = << >>
      /\ stack = << >> /\ slot = 0 /\ store = << >> /\ handoffs = << >>
    BY DEF Init, EmptyStore
<1>2. FoldShape /\ phase \in Phases /\ phase \notin Active
    BY <1>1 DEF FoldShape, Phases, Active
<1>3. rank \in 0 .. World /\ slot \in 0 .. DpReplicate /\ Len(inner) \in 0 .. DpShard - 1
    BY <1>1, Sizes, TrainAssumption
<1> QED BY <1>1, <1>2, <1>3 DEF ShapeInv

LEMMA ShapeStep ==
    ASSUME SpillVerify, Inv, Inv', ShapeInv, [Next]_vars
    PROVE  ShapeInv'
<1>0. TypeInv /\ StoreInv
    BY DEF Inv, AuditInv
<1>1. CASE UNCHANGED vars
    <2>1. UNCHANGED <<segments, handoffs, phase, args, rank, inner, stack, slot, store,
                      verdict>>
        BY <1>1 DEF vars, audit, memory, cluster
    <2>2. UNCHANGED Current /\ FoldShape'
        BY <2>1 DEF Current, ShapeInv, FoldShape, Fold, Active
    <2> QED BY <2>1, <2>2 DEF ShapeInv, Moments, Master, Fold, Phases, Active
<1>2. CASE Train
    BY <1>2, TrainShape
<1>3. CASE Start
    BY <1>3, StartShape
<1>4. CASE VerifyInit \/ RefuseUneven \/ RaiseCorruption \/ EndUnsaved \/ RefuseSave
    BY <1>4, EndingsShape
<1>5. CASE BeginStep
    BY <1>5, BeginStepShape
<1>6. CASE RunRank
    BY <1>0, <1>6, RunRankShape
<1>7. CASE FoldGradients \/ UpdateWeights \/ HashStep \/ EndStep
    BY <1>0, <1>7, ReplayShape
<1>8. CASE Judge \/ StageSidecar \/ StageCheckpoint
    BY <1>8, HandOffShape
<1>9. CASE Publish
    BY <1>9, PublishShape
<1>10. CASE Leave \/ Kill
    BY <1>10, IdleShape
<1>11. CASE BytesLost
    BY <1>11, BytesLostShape
<1> QED BY <1>1, <1>2, <1>3, <1>4, <1>5, <1>6, <1>7, <1>8, <1>9, <1>10, <1>11
        DEF Next, Replay, HandOff

LEMMA ShapeIsTyped == Inv /\ ShapeInv => AuditTypeOK
<1> SUFFICES ASSUME Inv, ShapeInv PROVE AuditTypeOK
    OBVIOUS
<1>1. \A f \in DOMAIN store : f[1] \in {"fold", "moments", "master"}
    BY DEF ShapeInv, Fold, Moments, Master
<1>2. \A i \in DOMAIN stack : stack[i].file \in DOMAIN store
    <2>1. DOMAIN stack = 1 .. Len(stack)
        BY DEF ShapeInv
    <2> QED BY <2>1 DEF ShapeInv
<1>3. Len(inner) < DpShard
    BY Sizes DEF ShapeInv
<1> QED BY <1>1, <1>2, <1>3
        DEF AuditTypeOK, ShapeInv, Phases, Active, Inv, LeftInv

\* An audit's files, counters and hand-offs stay within what its arguments and
\* the run allow: no push finds the fold's stack without the files it names, no
\* replicate gathers more shards than it has, and hand-offs are published for
\* steps of the run or the one after.
THEOREM AuditTypeHolds == ASSUME SpillVerify PROVE Spec => []AuditTypeOK
<1>1. Init => Inv /\ ShapeInv
    BY InitIsInv, ShapeInit
<1>2. Inv /\ ShapeInv /\ [Next]_vars => (Inv /\ ShapeInv)'
    <2> SUFFICES ASSUME Inv, ShapeInv, [Next]_vars PROVE (Inv /\ ShapeInv)'
        OBVIOUS
    <2>1. Inv'
        BY NextKeepsInv
    <2> QED BY <2>1, ShapeStep
<1>3. Inv /\ ShapeInv => AuditTypeOK
    BY ShapeIsTyped
<1> QED BY <1>1, <1>2, <1>3, PTL DEF Spec

-----------------------------------------------------------------------------
(* The fold is the run's, replicate by replicate *)

\* The micro-batches of the rank whose turn it is are its share of the step.
LEMMA ShareOfRank ==
    ASSUME Inv, RunRank, live.step <= Tip
    PROVE  RankBatches(rank) = RankShare(HereRounds, rank)
<1>1. phase = "ranks" /\ phase \in Active /\ TypeInv
    BY DEF RunRank, Active, Inv, AuditInv
<1>2. rank \in Ranks /\ rank \in Nat
    BY <1>1, RunRankMoves, RanksFacts
<1>3. Waiting(rank)
    BY <1>1, <1>2 DEF Inv, AuditInv, CourseInv, Stands
<1>4. RankBatches(rank) = RankShare(StepBatches(views[rank].pos, views[rank].clock), rank)
    BY <1>1, <1>2, RankBatchesFacts
<1> QED BY <1>3, <1>4 DEF Waiting, HereRounds

\* The spilled stack of a fold under way, seen as the one it stands for.
FoldOf(t) ==
    /\ Len(stack) = Len(t)
    /\ \A i \in 1 .. Len(stack) :
          stack[i].level = t[i].level /\ store[stack[i].file].sidecar = {t[i].sum}

LEMMA PartialsAre ==
    ASSUME SpillVerify, StoreInv, ShapeInv, phase = "ranks",
           NEW t, IsSeq(t), Entries(t), FoldOf(t), NEW c \in 0 .. Len(stack),
           \A i \in (Len(stack) - c + 1) .. Len(stack) : Intact(store, stack[i].file)
    PROVE  /\ IsSeq(Partials) /\ SameLevels(Partials, t) /\ SameTop(Partials, t, c)
           /\ SameLevels(stack, t)
<1>1. /\ GoodStore(store) /\ Len(stack) \in Nat
      /\ stack = [i \in 1 .. Len(stack) |-> stack[i]]
      /\ \A i \in 1 .. Len(stack) : stack[i].file \in DOMAIN store
    BY DEF StoreInv, Active, ShapeInv
<1>2. DOMAIN stack = 1 .. Len(stack)
    BY <1>1
<1>3. Partials = [i \in 1 .. Len(stack) |->
                     [level |-> stack[i].level, sum |-> Loaded(store, stack[i].file)]]
    BY <1>2 DEF Partials
<1>4. Len(Partials) = Len(stack) /\ IsSeq(Partials)
    BY <1>1, <1>3 DEF IsSeq
<1>5. \A i \in 1 .. Len(stack) : Partials[i].level = stack[i].level
    BY <1>3
<1>6. SameLevels(Partials, t) /\ SameLevels(stack, t)
    BY <1>4, <1>5 DEF SameLevels, FoldOf
<1>7. ASSUME NEW i \in 1 .. Len(t), i > Len(t) - c PROVE Partials[i] = t[i]
    <2>1. i \in 1 .. Len(stack) /\ i \in (Len(stack) - c + 1) .. Len(stack)
        BY <1>1, <1>7 DEF FoldOf
    <2> DEFINE f == stack[i].file
    <2>2. f \in DOMAIN store /\ Intact(store, f)
        BY <1>1, <2>1
    <2>3. store[f].sidecar = {Loaded(store, f)}
        BY <1>1, <2>2, IntactLoad
    <2>4. store[f].sidecar = {t[i].sum} /\ stack[i].level = t[i].level
        BY <2>1 DEF FoldOf
    <2>5. Loaded(store, f) = t[i].sum
        BY <2>3, <2>4
    <2>6. Partials[i] = [level |-> stack[i].level, sum |-> Loaded(store, f)]
        BY <1>3, <2>1
    <2> QED BY <2>4, <2>5, <2>6 DEF Entries
<1>8. SameTop(Partials, t, c)
    BY <1>7 DEF SameTop
<1> QED BY <1>4, <1>6, <1>8

LEMMA PushFold ==
    ASSUME SpillVerify, Inv, ShapeInv, FoldInv, RunRank, PushesNext, live.step <= Tip
    PROVE  FoldInv'
<1>1. /\ phase = "ranks" /\ phase' = "ranks" /\ UNCHANGED <<live, segments>>
      /\ TypeInv /\ StoreInv /\ slot \in Nat
    BY DEF RunRank, cluster, Inv, AuditInv, ShapeInv
<1>2. HereRounds' = HereRounds
    BY <1>1 DEF HereRounds, Here, Course
<1> DEFINE rounds == HereRounds
           b == RankBatches(rank)
           part == Leaf(Summed(rank, b))
           c == Carries
           t == FoldedTo(rounds, slot)
           n == FoldedTo(rounds, slot + 1)
<1>3. /\ c \in 0 .. Len(stack)
      /\ IsSeq(stack') /\ Len(stack') = Len(stack) - c + 1
      /\ \A i \in 1 .. Len(stack) - c : stack'[i] = stack[i]
      /\ stack'[Len(stack) - c + 1] =
            [level |-> AfterPush(part).level, file |-> Fold(slot)]
      /\ DOMAIN store' = (DOMAIN store \ Carried) \cup {Fold(slot)}
      /\ store'[Fold(slot)].sidecar = {AfterPush(part).sum}
      /\ \A f \in DOMAIN store \ Carried : f # Fold(slot) => store'[f] = store[f]
      /\ slot' = slot + 1 /\ inner' = << >>
    BY <1>1, PushMoves
<1>4. part = ReplicateSum(rounds, slot + 1)
    <2>1. b = RankShare(rounds, rank)
        BY ShareOfRank
    <2>2. /\ Len(inner) + 1 = DpShard /\ rank = slot * DpShard + Len(inner)
          /\ slot * DpShard \in Nat /\ Len(inner) \in Nat
        BY <1>1, RunRankSlot, Sizes
    <2>3. inner = [sh \in 1 .. Len(inner) |-> RankShare(rounds, slot * DpShard + sh - 1)]
        BY <1>1 DEF FoldInv
    <2> HIDE DEF b, rounds
    <2>4. Summed(rank, b) = [i \in 1 .. Len(inner) + 1 |->
                                IF i = Len(inner) + 1 THEN b ELSE inner[i]]
        BY SummedGrows
    <2>5. Summed(rank, b) = [sh \in 1 .. DpShard |->
                                RankShare(rounds, slot * DpShard + sh - 1)]
        <3>1. \A i \in 1 .. DpShard : i # Len(inner) + 1 => i \in 1 .. Len(inner)
            BY <2>2, Sizes
        <3>2. rank = slot * DpShard + (Len(inner) + 1) - 1
            BY <2>2
        <3> QED BY <2>1, <2>2, <2>3, <2>4, <3>1, <3>2
    <2>6. (slot + 1) - 1 = slot
        BY <1>1
    <2> DEFINE all == [sh \in 1 .. DpShard |->
                          RankShare(rounds, ((slot + 1) - 1) * DpShard + sh - 1)]
    <2>7. Summed(rank, b) = all
        BY <2>5, <2>6
    <2>8. ReplicateSum(rounds, slot + 1) = Leaf(all)
        BY DEF ReplicateSum
    <2> HIDE DEF all
    <2> QED BY <2>7, <2>8
<1>5. IsSeq(t) /\ Entries(t) /\ FoldOf(t)
    <2>1. FoldOf(t)
        BY <1>1 DEF FoldInv, FoldOf, Stacked
    <2> QED BY <1>1, <2>1, FoldedShape
<1>6. n = Push(t, part)
    BY <1>1, <1>4, FoldedStep
<1>7. \A i \in (Len(stack) - c + 1) .. Len(stack) : Intact(store, stack[i].file)
    <2>1. rank \in Nat /\ World \in Nat /\ rank < World
        BY RanksFacts DEF RunRank, ShapeInv
    <2>2. NextReads = Carried
        BY <1>1, <2>1 DEF NextReads
    <2> QED BY <2>2 DEF RunRank, ReadsIntact, Carried
<1>8. Carried = {stack[i].file : i \in (Len(stack) - c + 1) .. Len(stack)}
    BY DEF Carried
<1>9. c = CarryLength(Levels(stack))
    BY DEF Carries
<1>10. AfterPush(part) = Push(Partials, part)[Len(Push(Partials, part))]
    BY DEF AfterPush
<1>11. FoldInv' <=> /\ inner' = [sh \in 1 .. Len(inner') |->
                                    RankShare(rounds, slot' * DpShard + sh - 1)]
                    /\ Len(stack') = Len(n)
                    /\ \A i \in 1 .. Len(stack') :
                          /\ stack'[i].level = n[i].level
                          /\ store'[stack'[i].file].sidecar = {n[i].sum}
    <2>1. Stacked' = n
        BY <1>2, <1>3 DEF Stacked, FoldedTo
    <2>2. Tip' = Tip
        BY <1>1 DEF Tip
    <2> HIDE DEF n, rounds
    <2> QED BY <1>1, <1>2, <2>1, <2>2 DEF FoldInv, rounds
<1> HIDE DEF rounds, b, part, c, t, n
<1>12. /\ IsSeq(Partials) /\ SameLevels(Partials, t) /\ SameTop(Partials, t, c)
       /\ SameLevels(stack, t)
    BY <1>1, <1>3, <1>5, <1>7, PartialsAre
<1>13. c = CarryLength(Levels(t))
    <2>1. Levels(stack) = [i \in 1 .. Len(stack) |-> stack[i].level]
        BY LevelsFacts DEF ShapeInv
    <2>2. Levels(t) = [i \in 1 .. Len(t) |-> t[i].level]
        BY <1>5, LevelsFacts DEF IsSeq
    <2>3. Levels(stack) = Levels(t)
        BY <1>12, <2>1, <2>2 DEF SameLevels
    <2> QED BY <1>9, <2>3
<1>14. AfterPush(part) = [level |-> c, sum |-> SumOf(t, c, part)]
    BY <1>5, <1>10, <1>12, <1>13, PushAgrees
<1>15. /\ Len(n) = Len(t) - c + 1
       /\ \A i \in 1 .. Len(t) - c : n[i] = t[i]
       /\ n[Len(t) - c + 1] = [level |-> c, sum |-> SumOf(t, c, part)]
    BY <1>5, <1>6, <1>13, PushIs
<1>16. Len(stack) = Len(t) /\ Len(t) \in Nat
    BY <1>5 DEF FoldOf, IsSeq
<1>17. ASSUME NEW i \in 1 .. Len(stack')
       PROVE  /\ stack'[i].level = n[i].level
              /\ store'[stack'[i].file].sidecar = {n[i].sum}
    <2>1. CASE i = Len(stack) - c + 1
        <3>1. stack'[i].level = c /\ stack'[i].file = Fold(slot)
            BY <1>3, <1>14, <2>1
        <3>2. n[i].level = c /\ n[i].sum = SumOf(t, c, part)
            BY <1>15, <1>16, <2>1
        <3>3. store'[Fold(slot)].sidecar = {SumOf(t, c, part)}
            BY <1>3, <1>14
        <3> QED BY <3>1, <3>2, <3>3
    <2>2. CASE i # Len(stack) - c + 1
        <3>1. \A a \in Nat : \A d \in 0 .. a : \A k \in 1 .. a - d + 1 :
                 k # a - d + 1 => k \in 1 .. a - d /\ k \in 1 .. a
            OBVIOUS
        <3>2. i \in 1 .. Len(stack) - c /\ i \in 1 .. Len(stack)
            BY <1>3, <1>16, <2>2, <3>1
        <3>3. stack'[i] = stack[i] /\ n[i] = t[i]
            BY <1>3, <1>15, <1>16, <3>2
        <3>4. stack[i].file \in DOMAIN store
            BY <3>2 DEF ShapeInv
        <3>5. stack[i].file \notin Carried
            <4>1. ASSUME NEW j \in (Len(stack) - c + 1) .. Len(stack)
                  PROVE  stack[j].file # stack[i].file
                <5>1. j \in 1 .. Len(stack) /\ j # i
                    BY <1>3, <1>16, <3>2
                <5> QED BY <1>1, <3>2, <5>1 DEF ShapeInv, FoldShape
            <4> QED BY <1>8, <4>1
        <3>6. stack[i].file # Fold(slot)
            <4>1. PICK k \in 0 .. slot - 1 : stack[i].file = Fold(k)
                BY <1>1, <3>2 DEF ShapeInv, FoldShape
            <4>2. k # slot
                BY <1>1
            <4> QED BY <4>1, <4>2 DEF Fold
        <3>7. store'[stack[i].file] = store[stack[i].file]
            BY <1>3, <3>4, <3>5, <3>6
        <3>8. stack[i].level = t[i].level /\ store[stack[i].file].sidecar = {t[i].sum}
            BY <1>5, <3>2 DEF FoldOf
        <3> QED BY <3>3, <3>7, <3>8
    <2> QED BY <2>1, <2>2
<1>18. inner' = [sh \in 1 .. Len(inner') |-> RankShare(rounds, slot' * DpShard + sh - 1)]
    <2>1. Len(inner') = 0
        BY <1>3
    <2> QED BY <1>3, <2>1
<1> QED BY <1>3, <1>11, <1>15, <1>16, <1>17, <1>18

LEMMA GatherFold ==
    ASSUME Inv, ShapeInv, FoldInv, RunRank, ~PushesNext, live.step <= Tip
    PROVE  FoldInv'
<1>1. /\ phase = "ranks" /\ phase' = "ranks" /\ UNCHANGED <<live, segments>>
      /\ slot \in Nat /\ UNCHANGED <<store, stack, slot>>
    BY DEF RunRank, cluster, ShapeInv
<1>2. HereRounds' = HereRounds /\ Tip' = Tip
    BY <1>1 DEF HereRounds, Here, Course, Tip
<1> DEFINE rounds == HereRounds
           b == RankBatches(rank)
<1>3. b = RankShare(rounds, rank) /\ inner' = Summed(rank, b)
    BY ShareOfRank DEF RunRank
<1>4. /\ rank = slot * DpShard + Len(inner) /\ slot * DpShard \in Nat /\ Len(inner) \in Nat
    BY <1>1, RunRankSlot, Sizes
<1>5. /\ inner = [sh \in 1 .. Len(inner) |-> RankShare(rounds, slot * DpShard + sh - 1)]
      /\ Len(stack) = Len(Stacked)
      /\ \A i \in 1 .. Len(stack) :
            /\ stack[i].level = Stacked[i].level
            /\ store[stack[i].file].sidecar = {Stacked[i].sum}
    BY <1>1 DEF FoldInv
<1>6. Stacked' = Stacked
    BY <1>1, <1>2 DEF Stacked, FoldedTo
<1>7. FoldInv' <=> /\ inner' = [sh \in 1 .. Len(inner') |->
                                   RankShare(rounds, slot * DpShard + sh - 1)]
                   /\ Len(stack) = Len(Stacked)
                   /\ \A i \in 1 .. Len(stack) :
                         /\ stack[i].level = Stacked[i].level
                         /\ store[stack[i].file].sidecar = {Stacked[i].sum}
    <2> HIDE DEF rounds
    <2> QED BY <1>1, <1>2, <1>6 DEF FoldInv, rounds
<1> HIDE DEF b, rounds
<1>8. /\ Len(Summed(rank, b)) = Len(inner) + 1
      /\ Summed(rank, b) = [i \in 1 .. Len(inner) + 1 |->
                               IF i = Len(inner) + 1 THEN b ELSE inner[i]]
    BY SummedGrows
<1>9. \A i \in 1 .. Len(inner) + 1 : i # Len(inner) + 1 => i \in 1 .. Len(inner)
    BY <1>4
<1>10. rank = slot * DpShard + (Len(inner) + 1) - 1
    BY <1>4
<1>11. inner' = [sh \in 1 .. Len(inner') |-> RankShare(rounds, slot * DpShard + sh - 1)]
    BY <1>3, <1>5, <1>8, <1>9, <1>10
<1> QED BY <1>5, <1>7, <1>11

LEMMA BeginFold ==
    ASSUME ShapeInv, BeginStep
    PROVE  FoldInv'
<1>1. /\ phase = "top" /\ stack' = << >> /\ slot' = 0 /\ inner' = inner
    BY DEF BeginStep
<1>2. Len(inner) = 0 /\ inner = [i \in 1 .. Len(inner) |-> inner[i]]
    BY <1>1 DEF ShapeInv, FoldShape, Active
<1>3. Stacked' = << >>
    <2>1. \A r : FoldedTo(r, 0) = << >>
        BY FoldedStep
    <2>2. Stacked' = FoldedTo(HereRounds', 0)
        BY <1>1 DEF Stacked, FoldedTo
    <2> QED BY <2>1, <2>2
<1>4. inner' = [sh \in 1 .. Len(inner') |->
                   RankShare(HereRounds', slot' * DpShard + sh - 1)]
    <2>1. Len(inner') = 0 /\ inner' = [i \in 1 .. 0 |-> inner[i]]
        BY <1>1, <1>2
    <2> QED BY <2>1
<1> QED BY <1>1, <1>3, <1>4 DEF FoldInv

LEMMA FoldStays ==
    ASSUME Inv, ShapeInv, FoldInv, BytesLost
    PROVE  FoldInv'
<1>1. UNCHANGED <<phase, live, segments, inner, stack, slot>>
    BY DEF BytesLost, cluster, memory
<1>2. Stacked' = Stacked /\ Tip' = Tip /\ HereRounds' = HereRounds
    BY <1>1 DEF Stacked, FoldedTo, HereRounds, Here, Course, Tip
<1>3. ASSUME phase = "ranks"
      PROVE  \A f \in DOMAIN store : store'[f].sidecar = store[f].sidecar
    <2>1. GoodStore(store)
        BY <1>3 DEF Inv, AuditInv, StoreInv, Active
    <2>2. PICK g \in DOMAIN store : store' = Rotted(store, g, Rot(g))
        BY DEF BytesLost, OnDisk
    <2> DEFINE v == Rot(g)
    <2>3. store' = Rotted(store, g, v)
        BY <2>2
    <2> HIDE DEF v
    <2> QED BY <2>1, <2>3, RottedFacts
<1>4. \A i \in 1 .. Len(stack) : stack[i].file \in DOMAIN store
    BY DEF ShapeInv
<1> QED BY <1>1, <1>2, <1>3, <1>4 DEF FoldInv

LEMMA FoldInvStep ==
    ASSUME SpillVerify, Inv, ShapeInv, FoldInv, [Next]_vars
    PROVE  FoldInv'
<1>1. CASE BeginStep
    BY <1>1, BeginFold
<1>2. CASE RunRank
    <2>1. CASE live.step <= Tip
        BY <1>2, <2>1, PushFold, GatherFold
    <2>2. CASE ~(live.step <= Tip)
        <3>1. live' = live /\ Tip' = Tip
            BY <1>2 DEF RunRank, cluster, Tip
        <3> QED BY <2>2, <3>1 DEF FoldInv
    <2> QED BY <2>1, <2>2
<1>3. CASE BytesLost
    BY <1>3, FoldStays
<1>4. CASE UNCHANGED vars
    <2>1. UNCHANGED <<phase, live, segments, inner, stack, slot, store>>
        BY <1>4 DEF vars, audit, memory, cluster
    <2>2. Stacked' = Stacked /\ Tip' = Tip /\ HereRounds' = HereRounds
        BY <2>1 DEF Stacked, FoldedTo, HereRounds, Here, Course, Tip
    <2> QED BY <2>1, <2>2 DEF FoldInv
<1>5. \/ BeginStep \/ RunRank \/ BytesLost \/ UNCHANGED vars
      \/ phase' # "ranks"
    <2>1. CASE Train
        BY <2>1 DEF Train, audit
    <2>2. CASE ~Train
        BY <2>2 DEF Next, Start, VerifyInit, Replay, HandOff, Leave, Kill, RefuseUneven,
             FoldGradients, UpdateWeights, HashStep, EndStep, RaiseCorruption, Judge,
             EndUnsaved, RefuseSave, StageSidecar, StageCheckpoint, Publish, Idle
    <2> QED BY <2>1, <2>2
<1>6. CASE phase' # "ranks"
    BY <1>6 DEF FoldInv
<1> QED BY <1>1, <1>2, <1>3, <1>4, <1>5, <1>6

\* The streaming fold of all replicates is the cluster's two-level reduction.
LEMMA FoldOnCourse ==
    ASSUME SpillVerify, FoldIsTheClusters, Inv, ShapeInv, FoldInv, FoldGradients,
           live.step <= Tip
    PROVE  grads' = HereRounds
<1>1. phase = "ranks" /\ rank = World /\ phase \in Active /\ StoreInv
    BY DEF FoldGradients, Active, Inv, AuditInv
<1> DEFINE rounds == HereRounds
           t == FoldedTo(rounds, slot)
<1>2. StepRounds = rounds /\ rounds \in Seq(Nat)
    BY <1>1, RoundsOnCourse DEF HereRounds
<1>3. slot = DpReplicate
    <2>1. slot \in 0 .. DpReplicate /\ Len(inner) \in 0 .. DpShard - 1
          /\ rank = slot * DpShard + Len(inner)
        BY <1>1 DEF ShapeInv, FoldShape
    <2>2. rank = World => slot = DpReplicate
        BY <2>1, RankSlot
    <2> QED BY <1>1, <2>2
<1>4. IsSeq(t) /\ Entries(t) /\ FoldOf(t)
    <2>1. FoldOf(t)
        BY <1>1 DEF FoldInv, FoldOf, Stacked
    <2>2. slot \in Nat
        BY DEF ShapeInv
    <2> QED BY <2>1, <2>2, FoldedShape
<1>5. Len(stack) \in Nat /\ stack = [i \in 1 .. Len(stack) |-> stack[i]]
    BY DEF ShapeInv
<1>6. \A i \in 1 .. Len(stack) : Intact(store, stack[i].file)
    <2>1. rank \in Nat /\ World \in Nat /\ rank = World
        BY <1>1, RanksFacts DEF ShapeInv
    <2>2. FoldFiles \subseteq NextReads
        BY <1>1, <2>1 DEF NextReads, PushesNext
    <2>3. \A i \in 1 .. Len(stack) : stack[i].file \in FoldFiles
        <3>1. DOMAIN stack = 1 .. Len(stack)
            BY <1>5
        <3> QED BY <3>1 DEF FoldFiles
    <2> QED BY <2>2, <2>3 DEF FoldGradients, ReadsIntact
<1>7. grads' = GradOf(FoldResult(Partials), StepRounds)
    BY DEF FoldGradients
<1>8. FoldResult(t) = AuditFold(ReplicateSums(rounds))
    BY <1>3 DEF AuditFold, FoldedTo, ReplicateSums
<1>9. AuditFold(ReplicateSums(rounds)) = ClusterSum(rounds)
    BY <1>2 DEF FoldIsTheClusters
<1> HIDE DEF t, rounds
<1>10. /\ IsSeq(Partials) /\ SameLevels(Partials, t) /\ SameTop(Partials, t, Len(stack))
    <2> DEFINE c == Len(stack)
    <2>1. c \in 0 .. Len(stack) /\ (Len(stack) - c + 1) .. Len(stack) = 1 .. Len(stack)
        BY <1>5
    <2>2. \A i \in (Len(stack) - c + 1) .. Len(stack) : Intact(store, stack[i].file)
        BY <1>6, <2>1
    <2> HIDE DEF c
    <2>3. IsSeq(Partials) /\ SameLevels(Partials, t) /\ SameTop(Partials, t, c)
        BY <1>1, <1>4, <2>1, <2>2, PartialsAre
    <2> QED BY <2>3 DEF c
<1>11. Partials = t
    <2>1. Len(Partials) = Len(t) /\ Len(t) = Len(stack) /\ Len(t) \in Nat
        BY <1>4, <1>10 DEF SameLevels, FoldOf, IsSeq
    <2>2. \A i \in 1 .. Len(t) : Partials[i] = t[i]
        BY <1>10, <2>1 DEF SameTop
    <2> QED BY <1>4, <1>10, <2>1, <2>2 DEF IsSeq
<1>12. FoldResult(Partials) = ClusterSum(rounds)
    BY <1>8, <1>9, <1>11
<1> QED BY <1>2, <1>7, <1>12 DEF GradOf, rounds

-----------------------------------------------------------------------------
(* One step of the audited segment *)

UpdateOf(grads0, lr, rng, moments) ==
    [grads |-> grads0, lr |-> lr, rng |-> rng, moments |-> Len(moments)]

LEMMA SteppedFields ==
    ASSUME NEW st, IsState(st), NEW grads0, NEW class
    PROVE  /\ IsState(Stepped(st, grads0, class))
           /\ Stepped(st, grads0, class).weights =
                 IF ShouldSkip(st.spike, class, st.step) THEN st.weights
                 ELSE Append(st.weights, UpdateOf(grads0, st.lr, st.rng, st.moments))
           /\ Stepped(st, grads0, class).moments =
                 IF ShouldSkip(st.spike, class, st.step) THEN st.moments
                 ELSE Append(st.moments, grads0)
           /\ Stepped(st, grads0, class).lr = st.lr
           /\ Stepped(st, grads0, class).chain = st.chain
           /\ Stepped(st, grads0, class).rng = st.rng + 1
<1> DEFINE skip == ShouldSkip(st.spike, class, st.step)
           w == IF skip THEN st.weights
                ELSE Append(st.weights, UpdateOf(grads0, st.lr, st.rng, st.moments))
           m == IF skip THEN st.moments ELSE Append(st.moments, grads0)
           sp == AfterGate(st.spike, class, st.step)
           c == st.consumed + Rounds(st.consumed) * World * MicroTokens
<1>1. Stepped(st, grads0, class) =
         [st EXCEPT !.weights = w, !.moments = m, !.rng = st.rng + 1, !.spike = sp,
                    !.consumed = c, !.step = st.step + 1]
    BY DEF Stepped, UpdateOf
<1> HIDE DEF w, m, sp, c
<1>2. Stepped(st, grads0, class) =
         [step |-> st.step + 1, consumed |-> c, weights |-> w, moments |-> m,
          lr |-> st.lr, rng |-> st.rng + 1, pos |-> st.pos, data |-> st.data,
          chain |-> st.chain, spike |-> sp, anchor |-> st.anchor]
    BY <1>1 DEF IsState
<1>3. /\ IsState(Stepped(st, grads0, class)) /\ Stepped(st, grads0, class).weights = w
      /\ Stepped(st, grads0, class).moments = m /\ Stepped(st, grads0, class).lr = st.lr
      /\ Stepped(st, grads0, class).chain = st.chain
      /\ Stepped(st, grads0, class).rng = st.rng + 1
    BY <1>2 DEF IsState
<1> QED BY <1>3 DEF w, m

\* What a step of the run leaves in weights, moments and learning rate.
LEMMA AfterTensors ==
    ASSUME NEW st, NEW s \in Nat, GoodBoundary(st, s), NEW class,
           NEW rounds, rounds = StepBatches(st.pos, st.consumed),
           NEW lr, lr = LR(st.consumed, st.anchor)
    PROVE  /\ After(st, class).lr = lr
           /\ After(st, class).weights =
                 IF ShouldSkip(st.spike, class, s) THEN st.weights
                 ELSE Append(st.weights, UpdateOf(rounds, lr, st.rng, st.moments))
           /\ After(st, class).moments =
                 IF ShouldSkip(st.spike, class, s) THEN st.moments
                 ELSE Append(st.moments, rounds)
<1> DEFINE begun == Begun(st, st.consumed)
<1>1. begun = [st EXCEPT !.lr = lr, !.pos = st.pos + Span(st.consumed),
                         !.data = st.data \o rounds]
    BY AuditReplayAssumption DEF Begun, Span
<1>2. st.step = s /\ IsState(st)
    BY DEF GoodBoundary
<1> HIDE DEF begun
<1>3. begun = [step |-> s, consumed |-> st.consumed, weights |-> st.weights,
               moments |-> st.moments, lr |-> lr,
               rng |-> st.rng, pos |-> st.pos + Span(st.consumed),
               data |-> st.data \o rounds, chain |-> st.chain, spike |-> st.spike,
               anchor |-> st.anchor]
    BY <1>1, <1>2 DEF IsState
<1>4. IsState(begun) /\ begun.step = s /\ begun.weights = st.weights
      /\ begun.moments = st.moments /\ begun.lr = lr /\ begun.rng = st.rng
      /\ begun.spike = st.spike
    BY <1>3 DEF IsState
<1>5. BeforeHash(st, class) = Stepped(begun, rounds, class)
    BY DEF BeforeHash, begun
<1>6. /\ Stepped(begun, rounds, class).weights =
            IF ShouldSkip(begun.spike, class, begun.step) THEN begun.weights
            ELSE Append(begun.weights, UpdateOf(rounds, begun.lr, begun.rng, begun.moments))
      /\ Stepped(begun, rounds, class).moments =
            IF ShouldSkip(begun.spike, class, begun.step) THEN begun.moments
            ELSE Append(begun.moments, rounds)
      /\ Stepped(begun, rounds, class).lr = begun.lr
    BY <1>4, SteppedFields
<1>7. /\ After(st, class).lr = BeforeHash(st, class).lr
      /\ After(st, class).weights = BeforeHash(st, class).weights
      /\ After(st, class).moments = BeforeHash(st, class).moments
    BY AfterFields, HashesOn
<1> QED BY <1>4, <1>5, <1>6, <1>7

\* A faithful audit that has not reached its target stands at a boundary of the
\* segment under audit, and that segment took the step it is about to replay.
LEMMA OwnFacts ==
    ASSUME Inv, phase \in Active, Faithful, live.step < args.until,
           Audited \in 1 .. Len(segments), segments[Audited].first <= args.step
    PROVE  /\ live.step <= Tip /\ live.step + 1 <= Tip /\ live.step \in Nat
           /\ live.step + 1 \in Steps(Audited) /\ (live.step + 1) - 1 = live.step
           /\ args.until \in Steps(Audited)
           /\ GoodBoundary(Own(live.step), live.step)
           /\ Own(live.step).spike = Here.spike /\ Own(live.step).rng = Here.rng
           /\ GradClass(Own(live.step)) = GradClass(Here)
           /\ StepGrads(Audited, live.step + 1) = HereRounds
           /\ Own(live.step + 1).lr = LR(live.consumed, live.anchor)
           /\ Own(live.step + 1).weights =
                 IF ShouldSkip(Here.spike, GradClass(Here), live.step)
                 THEN Own(live.step).weights
                 ELSE Append(Own(live.step).weights,
                             UpdateOf(HereRounds, Own(live.step + 1).lr, Here.rng,
                                      Own(live.step).moments))
           /\ Own(live.step + 1).moments =
                 IF ShouldSkip(Here.spike, GradClass(Here), live.step)
                 THEN Own(live.step).moments
                 ELSE Append(Own(live.step).moments, HereRounds)
           /\ Own(live.step + 1).data = Here.data \o HereRounds
<1> DEFINE seg == segments[Audited]
           s == live.step
           st == Own(s)
           nx == Own(s + 1)
<1>1. GoodRun(segments)
    BY DEF Inv, ClusterInv
<1>2. /\ seg.first \in Nat /\ seg.tip \in Nat /\ seg.tip <= Tip /\ Tip \in Nat
      /\ GoodSegment(seg, Course, Tip)
      /\ \A k \in seg.first .. seg.tip :
            GoodBoundary(seg.trail[k], k) /\ SameCourse(seg.trail[k], Course[k])
    BY <1>1, RunFacts DEF Tip, Course
<1>3. /\ args.until \in Steps(Audited) /\ s \in Nat /\ args.step <= s /\ args.step \in Nat
      /\ args.until \in Nat
      /\ live.anchor = seg.trail[seg.first].anchor
    BY DEF Faithful, Honest, Inv, AuditInv, TypeInv, ArgsInv, DescribedBy
<1>4. /\ s \in seg.first .. seg.tip /\ s + 1 \in (seg.first + 1) .. seg.tip
      /\ s + 1 - 1 = s /\ s <= Tip /\ s + 1 <= Tip
    <2> DEFINE lo == seg.first
               hi == seg.tip
               u == args.until
               tip == Tip
    <2>1. /\ lo \in Nat /\ hi \in Nat /\ hi <= tip /\ tip \in Nat
          /\ u \in (lo + 1) .. hi /\ s < u /\ lo <= args.step
        BY <1>2, <1>3 DEF Steps
    <2> HIDE DEF lo, hi, u, s, tip
    <2>2. lo <= s
        BY <1>3, <2>1
    <2>3. s \in lo .. hi /\ s + 1 \in (lo + 1) .. hi /\ s + 1 - 1 = s /\ s <= tip /\ s + 1 <= tip
        BY <1>3, <2>1, <2>2
    <2> QED BY <2>3 DEF lo, hi, tip
<1>5. /\ GoodBoundary(st, s) /\ SameCourse(st, Here) /\ nx = After(st, GradClass(st))
      /\ st.anchor = live.anchor
    <2>1. GoodBoundary(seg.trail[s], s) /\ SameCourse(seg.trail[s], Course[s])
        BY <1>2, <1>4
    <2>2. seg.trail[s].anchor = seg.trail[seg.first].anchor
        <3> HIDE DEF seg, s
        <3> QED BY <1>2, <1>4 DEF GoodSegment
    <2>3. seg.trail[s + 1] = After(seg.trail[s + 1 - 1], GradClass(seg.trail[s + 1 - 1]))
        <3> HIDE DEF seg, s
        <3>1. \A k \in (seg.first + 1) .. seg.tip :
                 seg.trail[k] = After(seg.trail[k - 1], GradClass(seg.trail[k - 1]))
            BY <1>2 DEF GoodSegment
        <3> QED BY <1>4, <3>1
    <2>4. seg.trail[s + 1] = After(seg.trail[s], GradClass(seg.trail[s]))
        BY <1>4, <2>3
    <2> QED BY <1>3, <2>1, <2>2, <2>4 DEF Own, Here
<1>6. /\ st.pos = Here.pos /\ st.consumed = Here.consumed /\ st.spike = Here.spike
      /\ st.rng = Here.rng /\ live.consumed = Here.consumed /\ st.data = Here.data
    BY <1>4, <1>5 DEF SameCourse, Inv, AuditInv, CourseInv
<1>7. GradClass(st) = GradClass(Here)
    BY <1>6 DEF GradClass
<1>8. StepGrads(Audited, s + 1) = HereRounds
    BY <1>4, <1>6 DEF StepGrads, HereRounds, Own
<1>9. HereRounds = StepBatches(st.pos, st.consumed)
      /\ LR(live.consumed, live.anchor) = LR(st.consumed, st.anchor)
    BY <1>5, <1>6 DEF HereRounds
<1>10. /\ After(st, GradClass(st)).lr = LR(live.consumed, live.anchor)
       /\ After(st, GradClass(st)).weights =
             IF ShouldSkip(st.spike, GradClass(st), s) THEN st.weights
             ELSE Append(st.weights, UpdateOf(HereRounds, LR(live.consumed, live.anchor),
                                              st.rng, st.moments))
       /\ After(st, GradClass(st)).moments =
             IF ShouldSkip(st.spike, GradClass(st), s) THEN st.moments
             ELSE Append(st.moments, HereRounds)
    <2> DEFINE class == GradClass(st)
               rounds == HereRounds
               lr == LR(live.consumed, live.anchor)
    <2>1. s \in Nat /\ GoodBoundary(st, s) /\ rounds = StepBatches(st.pos, st.consumed)
          /\ lr = LR(st.consumed, st.anchor)
        BY <1>3, <1>5, <1>9
    <2> HIDE DEF s, st, class, rounds, lr
    <2>2. /\ After(st, class).lr = lr
          /\ After(st, class).weights =
                IF ShouldSkip(st.spike, class, s) THEN st.weights
                ELSE Append(st.weights, UpdateOf(rounds, lr, st.rng, st.moments))
          /\ After(st, class).moments =
                IF ShouldSkip(st.spike, class, s) THEN st.moments
                ELSE Append(st.moments, rounds)
        BY <2>1, AfterTensors
    <2> QED BY <2>2 DEF class, rounds, lr, s
<1>13. nx.data = st.data \o HereRounds
    <2> DEFINE class == GradClass(st)
    <2>1. s \in Nat /\ GoodBoundary(st, s) /\ nx = After(st, class)
        BY <1>3, <1>5
    <2> HIDE DEF s, st, nx, class
    <2>2. After(st, class).data = st.data \o StepBatches(st.pos, st.consumed)
        BY <2>1, AfterCourse, HashesOn
    <2> QED BY <1>9, <2>1, <2>2
<1> HIDE DEF st, nx, seg
<1>11. /\ nx.lr = LR(live.consumed, live.anchor)
       /\ nx.weights = IF ShouldSkip(Here.spike, GradClass(Here), s) THEN st.weights
                       ELSE Append(st.weights, UpdateOf(HereRounds, nx.lr, Here.rng,
                                                        st.moments))
       /\ nx.moments = IF ShouldSkip(Here.spike, GradClass(Here), s) THEN st.moments
                       ELSE Append(st.moments, HereRounds)
    BY <1>5, <1>6, <1>7, <1>10
<1>12. s + 1 \in Steps(Audited)
    BY <1>4 DEF Steps, seg
<1> QED BY <1>3, <1>4, <1>5, <1>6, <1>7, <1>8, <1>11, <1>12, <1>13 DEF st, nx

-----------------------------------------------------------------------------
(* The replay keeps to the segment *)

\* What an audit is of does not change while the cluster and its arguments do not.
LEMMA SameAudit ==
    ASSUME UNCHANGED <<cluster, handoffs, args>>
    PROVE  /\ segments' = segments /\ surface' = surface
           /\ Faithful' = Faithful /\ Audited' = Audited
           /\ \A x : Spills(x)' = Spills(x)
<1>1. segments' = segments /\ surface' = surface /\ handoffs' = handoffs /\ args' = args
    BY DEF cluster
<1>2. Audited' = Audited
    BY <1>1 DEF Audited
<1>3. HonestStart' = HonestStart
    BY <1>1 DEF HonestStart, Matched, Steps, Canonical, GradClass
<1>4. Faithful' = Faithful
    BY <1>1, <1>2, <1>3 DEF Faithful, Honest, Steps
<1> QED BY <1>1, <1>2, <1>4 DEF Spills

LEMMA BeginStepTrack ==
    ASSUME SpillVerify, Inv, TrackInv, BeginStep
    PROVE  TrackInv'
<1>1. /\ phase = "top" /\ phase' = "ranks" /\ phase \in Active /\ ~Reached(live.step)
      /\ UNCHANGED <<cluster, handoffs, args>>
    BY DEF BeginStep, Active
<1>2. /\ segments' = segments /\ surface' = surface /\ Faithful' = Faithful
      /\ Audited' = Audited /\ \A x : Spills(x)' = Spills(x)
    BY <1>1, SameAudit
<1> SUFFICES ASSUME Faithful PROVE TrackInv'
    BY <1>2 DEF TrackInv
<1>3. /\ Audited \in 1 .. Len(segments) /\ segments[Audited].first <= args.step
      /\ live.weights = Own(live.step).weights /\ MomentsAre(Own(live.step).moments)
      /\ live.chain = Own(live.step).chain
    BY <1>1 DEF TrackInv, MasterIs, Replaying
<1>4. IsState(live) /\ live.step < args.until
    BY <1>1 DEF Inv, AuditInv, TypeInv, ArgsInv, Reached
<1>5. Own(live.step + 1).lr = LR(live.consumed, live.anchor)
    BY <1>1, <1>3, <1>4, OwnFacts
<1> DEFINE w == IF Spills("master") THEN << >> ELSE live.weights
           lr == LR(live.consumed, live.anchor)
<1>6. /\ live'.step = live.step /\ live'.weights = w /\ live'.moments = live.moments
      /\ live'.lr = lr /\ live'.chain = live.chain
    <2>1. live' = [live EXCEPT !.lr = lr, !.weights = w]
        BY DEF BeginStep
    <2> HIDE DEF w, lr
    <2> QED BY <1>4, <2>1 DEF IsState
<1> DEFINE own == Own(live.step)
           nx == Own(live.step + 1)
<1>7. Own(live.step)' = own /\ Own(live.step + 1)' = nx
    BY <1>2, <1>6 DEF Own
<1>8. MasterIs(Own(live.step).weights)'
    <2>1. CASE Spills("master")
        <3>1. store' = Saved(store, Master, live.weights)
            BY <2>1 DEF BeginStep
        <3> DEFINE v == live.weights
        <3>2. store' = [f \in (DOMAIN store) \cup {Master} |->
                           IF f = Master THEN [payload |-> v, sidecar |-> {v}]
                           ELSE store[f]]
            BY <3>1 DEF Saved
        <3> HIDE DEF v
        <3>3. Master \in DOMAIN store' /\ store'[Master].sidecar = {v}
            BY <3>2
        <3>4. Master' = Master
            BY DEF Master
        <3> QED BY <1>1, <1>2, <1>3, <1>7, <2>1, <3>3, <3>4 DEF MasterIs, v
    <2>2. CASE ~Spills("master")
        BY <1>2, <1>3, <1>6, <1>7, <2>2 DEF MasterIs
    <2> QED BY <2>1, <2>2
<1>9. MomentsAre(Own(live.step).moments)'
    <2>1. CASE Spills("moments")
        <3>1. Moments \in DOMAIN store
            BY <1>1, <2>1 DEF Inv, AuditInv, StoreInv
        <3>2. store' = Saved(store, Master, live.weights) \/ store' = store
            BY DEF BeginStep
        <3>3. store'[Moments] = store[Moments]
            BY <3>1, <3>2 DEF Saved, Moments, Master
        <3>4. Moments' = Moments
            BY DEF Moments
        <3> QED BY <1>2, <1>3, <1>7, <2>1, <3>3, <3>4 DEF MomentsAre
    <2>2. CASE ~Spills("moments")
        BY <1>2, <1>3, <1>6, <1>7, <2>2 DEF MomentsAre
    <2> QED BY <2>1, <2>2
<1>10. (live.chain = Own(live.step).chain)' /\ (live.lr = Own(live.step + 1).lr)'
    BY <1>3, <1>5, <1>6, <1>7
<1>11. /\ Audited' \in 1 .. Len(segments') /\ segments'[Audited'].first <= args'.step
    BY <1>1, <1>2, <1>3
<1> HIDE DEF w, lr, own, nx
<1> QED BY <1>1, <1>8, <1>9, <1>10, <1>11 DEF TrackInv

\* The fold's files are never the moments' or the master's.
LEMMA FoldFilesAreFolds ==
    ASSUME ShapeInv, phase = "ranks"
    PROVE  /\ \A f \in {Moments, Master} : f \notin FoldFiles /\ f \notin Carried
           /\ \A f \in {Moments, Master} : \A k : f # Fold(k)
<1>1. Len(stack) \in Nat /\ stack = [i \in 1 .. Len(stack) |-> stack[i]]
    BY DEF ShapeInv
<1>2. \A f \in {Moments, Master} : \A k : f # Fold(k)
    BY DEF Moments, Master, Fold
<1>3. \A i \in 1 .. Len(stack) : \E k : stack[i].file = Fold(k)
    BY DEF ShapeInv, FoldShape
<1>4. DOMAIN stack = 1 .. Len(stack)
    BY <1>1
<1>5. Carries \in 0 .. Len(stack)
    BY <1>1, CarriesType
<1>6. \A i \in (Len(stack) - Carries + 1) .. Len(stack) : i \in 1 .. Len(stack)
    BY <1>1, <1>5
<1>7. \A f \in FoldFiles \cup Carried : \E k : f = Fold(k)
    BY <1>3, <1>4, <1>6 DEF FoldFiles, Carried
<1> QED BY <1>2, <1>7

LEMMA PushKeepsTensors ==
    ASSUME SpillVerify, TypeInv, StoreInv, ShapeInv, RunRank,
           NEW f \in {Moments, Master}, f \in DOMAIN store
    PROVE  f \in DOMAIN store' /\ store'[f] = store[f]
<1>1. CASE PushesNext
    <2> DEFINE part == Leaf(Summed(rank, RankBatches(rank)))
               c == Carries
    <2>1. phase = "ranks"
        BY DEF RunRank
    <2>2. f \notin Carried /\ f # Fold(slot)
        BY <2>1, FoldFilesAreFolds
    <2> HIDE DEF part, c
    <2>3. part = Leaf(Summed(rank, RankBatches(rank))) /\ c = Carries
        BY DEF part, c
    <2>4. /\ DOMAIN store' = (DOMAIN store \ Carried) \cup {Fold(slot)}
          /\ \A x \in DOMAIN store \ Carried : x # Fold(slot) => store'[x] = store[x]
        BY <1>1, <2>3, PushMoves
    <2> QED BY <2>2, <2>4
<1>2. CASE ~PushesNext
    BY <1>2 DEF RunRank
<1> QED BY <1>1, <1>2

LEMMA RunRankTrack ==
    ASSUME SpillVerify, Inv, ShapeInv, TrackInv, RunRank
    PROVE  TrackInv'
<1>1. /\ phase = "ranks" /\ phase' = "ranks" /\ phase \in Active
      /\ live' = live /\ UNCHANGED <<cluster, handoffs, args>>
    BY DEF RunRank, Active
<1>2. /\ segments' = segments /\ Faithful' = Faithful
      /\ Audited' = Audited /\ \A x : Spills(x)' = Spills(x)
    BY <1>1, SameAudit
<1> SUFFICES ASSUME Faithful PROVE TrackInv'
    BY <1>2 DEF TrackInv
<1>3. TypeInv /\ StoreInv
    BY DEF Inv, AuditInv
<1>4. /\ Audited \in 1 .. Len(segments) /\ segments[Audited].first <= args.step
      /\ MasterIs(Own(live.step).weights) /\ MomentsAre(Own(live.step).moments)
      /\ live.chain = Own(live.step).chain /\ live.lr = Own(live.step + 1).lr
    BY <1>1 DEF TrackInv, Replaying
<1>5. Own(live.step)' = Own(live.step) /\ Own(live.step + 1)' = Own(live.step + 1)
      /\ Master' = Master /\ Moments' = Moments
    BY <1>1, <1>2 DEF Own, Master, Moments
<1>6. MasterIs(Own(live.step).weights)'
    <2>1. CASE Spills("master")
        <3>1. Master \in DOMAIN store /\ store[Master].sidecar = {Own(live.step).weights}
            BY <1>1, <1>4, <2>1 DEF MasterIs
        <3>2. Master \in DOMAIN store' /\ store'[Master] = store[Master]
            BY <1>3, <3>1, PushKeepsTensors
        <3> QED BY <1>1, <1>2, <1>5, <2>1, <3>1, <3>2 DEF MasterIs
    <2>2. CASE ~Spills("master")
        BY <1>1, <1>2, <1>4, <1>5, <2>2 DEF MasterIs
    <2> QED BY <2>1, <2>2
<1>7. MomentsAre(Own(live.step).moments)'
    <2>1. CASE Spills("moments")
        <3>1. Moments \in DOMAIN store
            BY <1>1, <1>3, <2>1 DEF StoreInv
        <3>2. store'[Moments] = store[Moments]
            BY <1>3, <3>1, PushKeepsTensors
        <3> QED BY <1>2, <1>4, <1>5, <2>1, <3>2 DEF MomentsAre
    <2>2. CASE ~Spills("moments")
        BY <1>1, <1>2, <1>4, <1>5, <2>2 DEF MomentsAre
    <2> QED BY <2>1, <2>2
<1>8. (live.chain = Own(live.step).chain)' /\ (live.lr = Own(live.step + 1).lr)'
    BY <1>1, <1>4, <1>5
<1>9. /\ Audited' \in 1 .. Len(segments') /\ segments'[Audited'].first <= args'.step
    BY <1>1, <1>2, <1>4
<1> QED BY <1>1, <1>6, <1>7, <1>8, <1>9 DEF TrackInv

LEMMA FoldTrack ==
    ASSUME SpillVerify, FoldIsTheClusters, Inv, ShapeInv, FoldInv, TrackInv, FoldGradients
    PROVE  TrackInv'
<1>1. /\ phase = "ranks" /\ phase' = "gate" /\ phase \in Active /\ rank = World
      /\ UNCHANGED <<cluster, handoffs, args>> /\ store' = Unlinked(store, FoldFiles)
    BY DEF FoldGradients, Active
<1>2. /\ segments' = segments /\ Faithful' = Faithful
      /\ Audited' = Audited /\ \A x : Spills(x)' = Spills(x)
    BY <1>1, SameAudit
<1> SUFFICES ASSUME Faithful PROVE TrackInv'
    BY <1>2 DEF TrackInv
<1>3. TypeInv /\ StoreInv /\ IsState(live) /\ live.step < args.until
    BY <1>1 DEF Inv, AuditInv, TypeInv, StepInv, Replaying
<1>4. /\ Audited \in 1 .. Len(segments) /\ segments[Audited].first <= args.step
      /\ MasterIs(Own(live.step).weights) /\ MomentsAre(Own(live.step).moments)
      /\ live.chain = Own(live.step).chain /\ live.lr = Own(live.step + 1).lr
    BY <1>1 DEF TrackInv, Replaying
<1>5. grads' = HereRounds
    <2>1. live.step <= Tip
        BY <1>1, <1>3, <1>4, OwnFacts
    <2> QED BY <2>1, FoldOnCourse
<1> DEFINE w == Own(live.step).weights
<1>6. live' = [live EXCEPT !.weights = w]
    <2> HIDE DEF w
    <2>1. CASE Spills("master")
        <3>1. Master \in DOMAIN store /\ store[Master].sidecar = {w}
            BY <1>1, <1>4, <2>1 DEF MasterIs, w
        <3>2. rank \in Nat /\ World \in Nat
            BY <1>3, RanksFacts DEF ShapeInv
        <3>3. Master \in NextReads
            BY <1>1, <2>1, <3>2 DEF NextReads, PushesNext
        <3>4. Intact(store, Master) /\ GoodStore(store)
            BY <1>1, <1>3, <3>3 DEF FoldGradients, ReadsIntact, StoreInv
        <3>5. store[Master].sidecar = {Loaded(store, Master)}
            BY <3>1, <3>4, IntactLoad
        <3>6. w = Loaded(store, Master)
            BY <3>1, <3>5
        <3> QED BY <2>1, <3>6 DEF FoldGradients
    <2>2. CASE ~Spills("master")
        <3>1. live' = live /\ live.weights = w
            BY <1>4, <2>2 DEF MasterIs, FoldGradients, w
        <3>2. live = [live EXCEPT !.weights = live.weights]
            BY <1>3 DEF IsState
        <3> QED BY <3>1, <3>2
    <2> QED BY <2>1, <2>2
<1>7. /\ live'.step = live.step /\ live'.weights = w /\ live'.moments = live.moments
      /\ live'.lr = live.lr /\ live'.chain = live.chain
    <2> HIDE DEF w
    <2> QED BY <1>3, <1>6 DEF IsState
<1>8. /\ Own(live.step)' = Own(live.step) /\ Own(live.step + 1)' = Own(live.step + 1)
      /\ Master' = Master /\ Moments' = Moments /\ HereRounds' = HereRounds
    BY <1>2, <1>7 DEF Own, Master, Moments, HereRounds, Here, Course
<1>9. MasterIs(Own(live.step).weights)'
    BY <1>1, <1>7, <1>8 DEF MasterIs
<1>10. MomentsAre(Own(live.step).moments)'
    <2>1. CASE Spills("moments")
        <3>1. Moments \in DOMAIN store \ FoldFiles
            BY <1>1, <1>3, <2>1, FoldFilesAreFolds DEF StoreInv
        <3>2. store'[Moments] = store[Moments]
            BY <1>1, <3>1 DEF Unlinked
        <3> QED BY <1>2, <1>4, <1>8, <2>1, <3>2 DEF MomentsAre
    <2>2. CASE ~Spills("moments")
        BY <1>2, <1>4, <1>7, <1>8, <2>2 DEF MomentsAre
    <2> QED BY <2>1, <2>2
<1>11. /\ (live.chain = Own(live.step).chain)' /\ (live.lr = Own(live.step + 1).lr)'
       /\ (grads = HereRounds)'
    BY <1>4, <1>5, <1>7, <1>8
<1>12. /\ Audited' \in 1 .. Len(segments') /\ segments'[Audited'].first <= args'.step
    BY <1>1, <1>2, <1>4
<1> HIDE DEF w
<1> QED BY <1>1, <1>9, <1>10, <1>11, <1>12 DEF TrackInv

LEMMA UpdateTrack ==
    ASSUME SpillVerify, Inv, TrackInv, UpdateWeights
    PROVE  TrackInv'
<1>1. /\ phase = "gate" /\ phase' = "hash" /\ phase \in Active /\ grads' = grads
      /\ UNCHANGED <<cluster, handoffs, args>> /\ ReadsIntact
    BY DEF UpdateWeights, Active
<1>2. /\ segments' = segments /\ Faithful' = Faithful
      /\ Audited' = Audited /\ \A x : Spills(x)' = Spills(x)
    BY <1>1, SameAudit
<1> SUFFICES ASSUME Faithful PROVE TrackInv'
    BY <1>2 DEF TrackInv
<1>3. /\ TypeInv /\ StoreInv /\ IsState(live) /\ live.step < args.until
    BY <1>1 DEF Inv, AuditInv, TypeInv, StepInv, Replaying
<1>4. /\ Audited \in 1 .. Len(segments) /\ segments[Audited].first <= args.step
      /\ live.weights = Own(live.step).weights /\ MomentsAre(Own(live.step).moments)
      /\ live.chain = Own(live.step).chain /\ live.lr = Own(live.step + 1).lr
      /\ grads = HereRounds
    BY <1>1 DEF TrackInv, MasterIs, Replaying
<1>5. live.step <= Tip
    BY <1>1, <1>3, <1>4, OwnFacts
<1>6. StepClass = GradClass(Here) /\ live.spike = Here.spike /\ live.rng = Here.rng
    BY <1>1, <1>5, ClassOnCourse DEF Inv, AuditInv, CourseInv
<1> DEFINE streams == Spills("moments") /\ ~Skips
           m == IF streams THEN Loaded(store, Moments) ELSE live.moments
           st == [live EXCEPT !.moments = m]
           next == Stepped(st, grads, StepClass)
           skip == ShouldSkip(Here.spike, GradClass(Here), live.step)
           own == Own(live.step)
           nx == Own(live.step + 1)
<1>7. Skips <=> skip
    BY <1>6 DEF Skips
<1>8. IF streams THEN st = [live EXCEPT !.moments = Loaded(store, Moments)] ELSE st = live
    BY <1>3 DEF IsState
<1>9. live' = [next EXCEPT !.step = live.step, !.consumed = live.consumed,
                           !.moments = IF streams THEN << >> ELSE @]
      /\ store' = IF streams THEN Saved(store, Moments, next.moments) ELSE store
    <2>1. CASE streams
        BY <1>8, <2>1 DEF UpdateWeights
    <2>2. CASE ~streams
        BY <1>8, <2>2 DEF UpdateWeights
    <2> QED BY <2>1, <2>2
<1>10. ~skip => m = own.moments
    <2>1. CASE streams
        <3>1. Moments \in NextReads /\ Moments \in DOMAIN store
            BY <1>1, <1>3, <2>1 DEF NextReads, PushesNext, StoreInv
        <3>2. GoodStore(store) /\ Intact(store, Moments)
            BY <1>1, <1>3, <3>1 DEF StoreInv, ReadsIntact
        <3>3. store[Moments].sidecar = {Loaded(store, Moments)}
            BY <3>1, <3>2, IntactLoad
        <3>4. store[Moments].sidecar = {own.moments}
            BY <1>4, <2>1 DEF MomentsAre
        <3> QED BY <2>1, <3>3, <3>4
    <2>2. CASE ~streams
        BY <1>4, <1>7, <2>2 DEF MomentsAre
    <2> QED BY <2>1, <2>2
<1>11. /\ IsState(st) /\ st.step = live.step /\ st.weights = live.weights
       /\ st.moments = m /\ st.lr = live.lr /\ st.chain = live.chain
       /\ st.spike = live.spike /\ st.rng = live.rng
    <2> HIDE DEF m
    <2>1. st = [step |-> live.step, consumed |-> live.consumed, weights |-> live.weights,
                moments |-> m, lr |-> live.lr, rng |-> live.rng, pos |-> live.pos,
                data |-> live.data, chain |-> live.chain, spike |-> live.spike,
                anchor |-> live.anchor]
        BY <1>3 DEF IsState
    <2> HIDE DEF st
    <2> QED BY <2>1 DEF IsState
<1> HIDE DEF st, m
<1>12. /\ IsState(next)
       /\ next.weights = IF skip THEN own.weights
                         ELSE Append(own.weights, UpdateOf(HereRounds, nx.lr, Here.rng, m))
       /\ next.moments = IF skip THEN m ELSE Append(m, HereRounds)
       /\ next.lr = nx.lr /\ next.chain = own.chain
    <2> DEFINE g == grads
               class == StepClass
    <2>1. /\ IsState(Stepped(st, g, class))
          /\ Stepped(st, g, class).weights =
                IF ShouldSkip(st.spike, class, st.step) THEN st.weights
                ELSE Append(st.weights, UpdateOf(g, st.lr, st.rng, st.moments))
          /\ Stepped(st, g, class).moments =
                IF ShouldSkip(st.spike, class, st.step) THEN st.moments
                ELSE Append(st.moments, g)
          /\ Stepped(st, g, class).lr = st.lr
          /\ Stepped(st, g, class).chain = st.chain
        BY <1>11, SteppedFields
    <2>2. ShouldSkip(st.spike, class, st.step) = skip
        BY <1>6, <1>11
    <2> QED BY <1>4, <1>6, <1>11, <2>1, <2>2
<1> HIDE DEF next
<1> DEFINE kept == IF streams THEN << >> ELSE next.moments
<1>13. /\ live'.step = live.step /\ live'.weights = next.weights
       /\ live'.moments = kept /\ live'.lr = next.lr /\ live'.chain = next.chain
    <2>1. live' = [next EXCEPT !.step = live.step, !.consumed = live.consumed,
                               !.moments = kept]
        BY <1>9, <1>12 DEF IsState
    <2> HIDE DEF kept
    <2> QED BY <1>12, <2>1 DEF IsState
<1>14. /\ nx.weights = IF skip THEN own.weights
                       ELSE Append(own.weights,
                                   UpdateOf(HereRounds, nx.lr, Here.rng, own.moments))
       /\ nx.moments = IF skip THEN own.moments ELSE Append(own.moments, HereRounds)
    BY <1>1, <1>3, <1>4, OwnFacts
<1>15. /\ Own(live.step)' = own /\ Own(live.step + 1)' = nx
       /\ Moments' = Moments /\ HereRounds' = HereRounds
    BY <1>2, <1>13 DEF Own, Moments, HereRounds, Here, Course
<1>16. (live.weights = Own(live.step + 1).weights)'
    <2> HIDE DEF own, nx, skip
    <2> QED BY <1>10, <1>12, <1>13, <1>14, <1>15
<1>17. MomentsAre(Own(live.step + 1).moments)'
    <2>1. CASE streams
        <3> DEFINE v == next.moments
        <3>1. store' = [f \in (DOMAIN store) \cup {Moments} |->
                           IF f = Moments THEN [payload |-> v, sidecar |-> {v}]
                           ELSE store[f]]
            BY <1>9, <2>1 DEF Saved
        <3>2. v = nx.moments
            BY <1>7, <1>10, <1>12, <1>14, <2>1
        <3> HIDE DEF v
        <3>3. store'[Moments].sidecar = {v}
            BY <3>1
        <3> QED BY <1>2, <1>15, <2>1, <3>2, <3>3 DEF MomentsAre
    <2>2. CASE ~streams /\ Spills("moments")
        <3>1. skip /\ store' = store /\ nx.moments = own.moments
            BY <1>7, <1>9, <1>14, <2>2
        <3> QED BY <1>2, <1>4, <1>15, <2>2, <3>1 DEF MomentsAre
    <2>3. CASE ~Spills("moments")
        <3>1. m = own.moments
            BY <1>4, <2>3 DEF m, MomentsAre
        <3>2. live'.moments = nx.moments
            BY <1>12, <1>13, <1>14, <2>3, <3>1
        <3> QED BY <1>2, <1>15, <2>3, <3>2 DEF MomentsAre
    <2> QED BY <2>1, <2>2, <2>3
<1>18. /\ (live.chain = Own(live.step).chain)' /\ (live.lr = Own(live.step + 1).lr)'
       /\ (grads = HereRounds)'
    BY <1>1, <1>4, <1>12, <1>13, <1>15
<1>19. /\ Audited' \in 1 .. Len(segments') /\ segments'[Audited'].first <= args'.step
    BY <1>1, <1>2, <1>4
<1> HIDE DEF own, nx
<1> QED BY <1>1, <1>16, <1>17, <1>18, <1>19 DEF TrackInv

\* What a faithful audit hashes is what the cluster published.
LEMMA DigestIsCanonical ==
    ASSUME SpillVerify, Inv, TrackInv, Faithful, phase = "hash", ReadsIntact, Hashes
    PROVE  ReplayDigest = Canonical(Audited, live.step + 1)
<1>1. /\ phase \in Active /\ TypeInv /\ StoreInv /\ IsState(live)
      /\ live.step < args.until
    BY DEF Active, Inv, AuditInv, TypeInv, StepInv, Replaying
<1>2. /\ Audited \in 1 .. Len(segments) /\ segments[Audited].first <= args.step
      /\ live.weights = Own(live.step + 1).weights
      /\ MomentsAre(Own(live.step + 1).moments)
      /\ live.chain = Own(live.step).chain /\ live.lr = Own(live.step + 1).lr
      /\ grads = HereRounds
    BY DEF TrackInv, Replaying
<1>3. /\ live.step <= Tip /\ live.step + 1 \in Steps(Audited)
      /\ (live.step + 1) - 1 = live.step
      /\ StepGrads(Audited, live.step + 1) = HereRounds
      /\ Own(live.step + 1).data = Here.data \o HereRounds
    BY <1>1, <1>2, OwnFacts
<1> DEFINE s == live.step + 1
           nx == Own(s)
           m == IF Spills("moments") THEN Loaded(store, Moments) ELSE live.moments
<1>4. m = nx.moments
    <2>1. CASE Spills("moments")
        <3>1. Moments \in NextReads /\ Moments \in DOMAIN store
            BY <1>1, <2>1 DEF NextReads, PushesNext, StoreInv
        <3>2. GoodStore(store) /\ Intact(store, Moments)
            BY <1>1, <3>1 DEF StoreInv, ReadsIntact
        <3>3. store[Moments].sidecar = {Loaded(store, Moments)}
            BY <3>1, <3>2, IntactLoad
        <3> QED BY <1>2, <2>1, <3>3 DEF MomentsAre
    <2>2. CASE ~Spills("moments")
        BY <1>2, <2>2 DEF MomentsAre
    <2> QED BY <2>1, <2>2
<1>5. RoundsOf(hashers) = nx.data
    <2> DEFINE d == Here.data \o HereRounds
    <2>1. /\ Here.data \in Seq(Nat) /\ Here.pos \in Nat
        BY <1>1, <1>3, HereIsGood
    <2>2. HereRounds \in Seq(Nat)
        BY <2>1, BatchesType DEF HereRounds
    <2>3. d \in Seq(Nat)
        BY <2>1, <2>2
    <2>4. \A r \in Ranks : hashers[r] = RankShare(d, r)
        BY <1>1, <1>3 DEF Inv, AuditInv, CourseInv, Stands, Moved, HereRounds, Replaying
    <2> HIDE DEF d
    <2>5. RankShare(d, 0) = d /\ 0 \in Ranks
        BY <2>1, <2>3, ShareFacts, RanksFacts
    <2>6. hashers[0] = d
        BY <2>4, <2>5
    <2>7. RoundsOf(hashers) = d
        BY <2>4, <2>6 DEF RoundsOf
    <2> QED BY <1>3, <2>7 DEF d
<1>6. ReplayDigest =
         [link |-> "digest", prev |-> live.chain, weights |-> live.weights,
          moments |-> m, lr |-> live.lr, grads |-> grads, data |-> RoundsOf(hashers)]
    BY <1>1, ReplayDigestIs
<1>7. Canonical(Audited, s) =
         [link |-> "digest", prev |-> segments[Audited].trail[s - 1].chain,
          weights |-> segments[Audited].trail[s].weights,
          moments |-> segments[Audited].trail[s].moments,
          lr |-> segments[Audited].trail[s].lr, grads |-> StepGrads(Audited, s),
          data |-> segments[Audited].trail[s].data]
    <2>1. Audited \in DOMAIN segments /\ s \in Steps(Audited) /\ ClusterInv
        BY <1>2, <1>3, RunDomain DEF Inv
    <2> HIDE DEF s
    <2> QED BY <2>1, CanonicalIs
<1>8. live.chain = segments[Audited].trail[s - 1].chain
    BY <1>2, <1>3 DEF Own
<1> HIDE DEF m
<1> QED BY <1>2, <1>3, <1>4, <1>5, <1>6, <1>7, <1>8 DEF Own

LEMMA HashTrack ==
    ASSUME SpillVerify, Inv, TrackInv, HashStep
    PROVE  TrackInv'
<1>1. /\ phase = "hash" /\ phase' = "counters" /\ phase \in Active
      /\ UNCHANGED <<cluster, handoffs, args, store, grads>> /\ ReadsIntact
    BY DEF HashStep, Active
<1>2. /\ segments' = segments /\ Faithful' = Faithful
      /\ Audited' = Audited /\ \A x : Spills(x)' = Spills(x)
    BY <1>1, SameAudit
<1> SUFFICES ASSUME Faithful PROVE TrackInv'
    BY <1>2 DEF TrackInv
<1>3. /\ IsState(live) /\ live.step < args.until /\ live.step \in Nat /\ args.until \in Nat
    BY <1>1 DEF Inv, AuditInv, TypeInv, StepInv, ArgsInv, Replaying
<1>4. /\ Audited \in 1 .. Len(segments) /\ segments[Audited].first <= args.step
      /\ live.weights = Own(live.step + 1).weights
      /\ MomentsAre(Own(live.step + 1).moments)
      /\ live.chain = Own(live.step).chain /\ live.lr = Own(live.step + 1).lr
      /\ grads = HereRounds
    BY <1>1 DEF TrackInv, Replaying
<1> DEFINE canon == Canonical(Audited, live.step + 1)
           chain == IF HashDue(live.step + 1) THEN canon ELSE live.chain
<1>5. Hashes => ReplayDigest = canon
    BY <1>1, DigestIsCanonical
<1> HIDE DEF canon
<1>6. /\ live' = [live EXCEPT !.chain = chain]
      /\ Reached(live.step + 1) => target' = canon
    <2>1. CASE Hashes
        BY <1>3, <1>5, <2>1 DEF HashStep, IsState
    <2>2. CASE ~Hashes
        <3>1. ~HashDue(live.step + 1) /\ ~Reached(live.step + 1) /\ live' = live
            BY <2>2 DEF HashStep, Hashes
        <3> QED BY <1>3, <3>1 DEF IsState
    <2> QED BY <2>1, <2>2
<1>7. Own(live.step + 1).chain = chain
    <2> DEFINE s == live.step + 1
    <2>1. /\ s \in Steps(Audited) /\ s - 1 = live.step
          /\ Audited \in DOMAIN segments /\ ClusterInv
        BY <1>1, <1>3, <1>4, OwnFacts, RunDomain DEF Inv
    <2>2. segments[Audited].trail[s].chain =
             IF HashDue(s) THEN Canonical(Audited, s) ELSE segments[Audited].trail[s - 1].chain
        <3> HIDE DEF s
        <3> QED BY <2>1, CanonicalIs
    <2> QED BY <1>4, <2>1, <2>2 DEF Own, canon
<1> HIDE DEF chain
<1>8. /\ live'.step = live.step /\ live'.weights = live.weights
      /\ live'.moments = live.moments /\ live'.lr = live.lr /\ live'.chain = chain
    BY <1>3, <1>6 DEF IsState
<1>9. /\ Own(live.step)' = Own(live.step) /\ Own(live.step + 1)' = Own(live.step + 1)
      /\ Moments' = Moments /\ HereRounds' = HereRounds
    BY <1>2, <1>8 DEF Own, Moments, HereRounds, Here, Course
<1>10. /\ (live.weights = Own(live.step + 1).weights)'
       /\ (live.lr = Own(live.step + 1).lr)' /\ (live.chain = Own(live.step + 1).chain)'
       /\ (grads = HereRounds)'
    BY <1>1, <1>4, <1>7, <1>8, <1>9
<1>11. MomentsAre(Own(live.step + 1).moments)'
    BY <1>1, <1>2, <1>4, <1>8, <1>9 DEF MomentsAre
<1>12. (live.step + 1 = args.until => target = Canonical(Audited, args.until))'
    <2>1. Canonical(Audited, args.until)' = Canonical(Audited, args.until)
        BY <1>1, <1>2 DEF Canonical, GradClass, cluster
    <2>2. live.step + 1 = args.until => Reached(live.step + 1)
        BY <1>3 DEF Reached
    <2> QED BY <1>1, <1>6, <1>8, <2>1, <2>2 DEF canon
<1>13. /\ Audited' \in 1 .. Len(segments') /\ segments'[Audited'].first <= args'.step
    BY <1>1, <1>2, <1>4
<1> QED BY <1>1, <1>10, <1>11, <1>12, <1>13 DEF TrackInv

LEMMA EndTrack ==
    ASSUME SpillVerify, Inv, TrackInv, EndStep
    PROVE  TrackInv'
<1>1. /\ phase = "counters" /\ phase \in Active
      /\ UNCHANGED <<cluster, handoffs, args, store, target>>
      /\ phase' = IF halted \/ Reached(live.step + 1) THEN "done" ELSE "top"
    BY DEF EndStep, Active
<1>2. /\ segments' = segments /\ Faithful' = Faithful
      /\ Audited' = Audited /\ \A x : Spills(x)' = Spills(x)
    BY <1>1, SameAudit
<1> SUFFICES ASSUME Faithful PROVE TrackInv'
    BY <1>2 DEF TrackInv
<1>3. /\ IsState(live) /\ live.step < args.until /\ live.step \in Nat /\ args.until \in Nat
    BY <1>1 DEF Inv, AuditInv, TypeInv, StepInv, ArgsInv, Replaying
<1>4. /\ Audited \in 1 .. Len(segments) /\ segments[Audited].first <= args.step
      /\ live.weights = Own(live.step + 1).weights
      /\ MomentsAre(Own(live.step + 1).moments)
      /\ live.chain = Own(live.step + 1).chain
      /\ live.step + 1 = args.until => target = Canonical(Audited, args.until)
    BY <1>1 DEF TrackInv, Replaying
<1>5. ~halted
    <2>1. live.step <= Tip /\ live.step + 1 <= Tip
        BY <1>1, <1>3, <1>4, OwnFacts
    <2> QED BY <1>1, <2>1, NextOnCourse
<1> DEFINE c == IF halted THEN live.consumed
                ELSE live.consumed + Rounds(live.consumed) * World * MicroTokens
           n == live.step + 1
<1>6. /\ live'.step = n /\ live'.weights = live.weights
      /\ live'.moments = live.moments /\ live'.chain = live.chain
    <2>1. live' = [live EXCEPT !.step = n, !.consumed = c]
        BY <1>3 DEF EndStep, IsState
    <2> HIDE DEF c, n
    <2> QED BY <1>3, <2>1 DEF IsState
<1>7. Own(live.step)' = Own(n) /\ Moments' = Moments
      /\ Canonical(Audited, args.until)' = Canonical(Audited, args.until)
    BY <1>1, <1>2, <1>6 DEF Own, Moments, Canonical, GradClass, cluster
<1>8. /\ Audited' \in 1 .. Len(segments') /\ segments'[Audited'].first <= args'.step
    BY <1>1, <1>2, <1>4
<1>9. CASE phase' = "done"
    <2>1. n = args.until
        BY <1>1, <1>3, <1>5, <1>9 DEF Reached
    <2>2. (target = Canonical(Audited, args.until))'
        BY <1>1, <1>4, <1>7, <2>1
    <2> QED BY <1>8, <1>9, <2>2 DEF TrackInv, Replaying
<1>10. CASE phase' = "top"
    <2>1. MasterIs(Own(live.step).weights)'
        BY <1>4, <1>6, <1>7, <1>10 DEF MasterIs
    <2>2. MomentsAre(Own(live.step).moments)'
        BY <1>1, <1>2, <1>4, <1>6, <1>7 DEF MomentsAre
    <2>3. (live.chain = Own(live.step).chain)'
        BY <1>4, <1>6, <1>7
    <2> QED BY <1>8, <1>10, <2>1, <2>2, <2>3 DEF TrackInv, Replaying
<1> QED BY <1>1, <1>9, <1>10

LEMMA JudgeTrack ==
    ASSUME Inv, TrackInv, Judge
    PROVE  TrackInv'
<1>1. /\ phase = "done" /\ phase' = "judged" /\ phase \in Active
      /\ UNCHANGED <<cluster, handoffs, target>>
    BY DEF Judge, Active
<1>2. PICK expect : /\ args' = [args EXCEPT !.expect = expect]
                    /\ verdict' = IF expect = NoDigest THEN "unchecked"
                                  ELSE IF expect = Reported THEN "match" ELSE "mismatch"
    BY DEF Judge
<1>3. args = [origin |-> args.origin, segment |-> args.segment, step |-> args.step,
              desc |-> args.desc, until |-> args.until, spills |-> args.spills,
              reset |-> args.reset, expect |-> args.expect]
    BY <1>1 DEF Inv, AuditInv, ArgsInv
<1>4. /\ args'.origin = args.origin /\ args'.segment = args.segment
      /\ args'.step = args.step /\ args'.desc = args.desc /\ args'.until = args.until
      /\ args'.expect = expect
    <2>1. args' = [origin |-> args.origin, segment |-> args.segment, step |-> args.step,
                   desc |-> args.desc, until |-> args.until, spills |-> args.spills,
                   reset |-> args.reset, expect |-> expect]
        BY <1>2, <1>3
    <2> QED BY <2>1
<1>5. segments' = segments /\ surface' = surface /\ handoffs' = handoffs
    BY <1>1 DEF cluster
<1>6. Audited' = Audited
    BY <1>4 DEF Audited
<1>7. Faithful' = Faithful
    <2>1. HonestStart' = HonestStart
        BY <1>4, <1>5 DEF HonestStart, Matched, Steps, Canonical, GradClass
    <2> QED BY <1>4, <1>5, <1>6, <2>1 DEF Faithful, Honest, Steps
<1> SUFFICES ASSUME Faithful PROVE TrackInv'
    BY <1>7 DEF TrackInv
<1>8. /\ Audited \in 1 .. Len(segments) /\ segments[Audited].first <= args.step
      /\ target = Canonical(Audited, args.until)
    BY <1>1 DEF TrackInv, Replaying
<1>9. Canonical(Audited, args.until)' = Canonical(Audited, args.until)
    BY <1>4, <1>5, <1>6 DEF Canonical, GradClass
<1>10. target # NoDigest
    <2>1. Canonical(Audited, args.until).link = "digest"
        BY DEF Canonical, DigestAfter, StepDigest
    <2> QED BY <1>8, <2>1 DEF NoDigest
<1>11. (args.expect = target)' => verdict' = "match"
    BY <1>1, <1>2, <1>4, <1>10 DEF Reported
<1>12. /\ Audited' \in 1 .. Len(segments') /\ segments'[Audited'].first <= args'.step
       /\ (target = Canonical(Audited, args.until))'
    BY <1>1, <1>4, <1>5, <1>6, <1>8, <1>9
<1> QED BY <1>1, <1>11, <1>12 DEF TrackInv, Replaying

LEMMA BytesLostTrack ==
    ASSUME Inv, TrackInv, BytesLost
    PROVE  TrackInv'
<1>1. UNCHANGED <<cluster, phase, args, live, grads, target, verdict, handoffs>>
    BY DEF BytesLost, memory
<1>2. /\ segments' = segments /\ surface' = surface /\ Faithful' = Faithful
      /\ Audited' = Audited /\ \A x : Spills(x)' = Spills(x)
    BY <1>1, SameAudit
<1> SUFFICES ASSUME phase \in {"top", "done", "judged"} \cup Replaying, Faithful
             PROVE  TrackInv'
    BY <1>1, <1>2 DEF TrackInv, Replaying
<1>3. phase \in Active /\ StoreInv
    BY DEF Active, Replaying, Inv, AuditInv
<1>4. /\ Own(live.step)' = Own(live.step) /\ Own(live.step + 1)' = Own(live.step + 1)
      /\ Moments' = Moments /\ Master' = Master /\ HereRounds' = HereRounds
      /\ Canonical(Audited, args.until)' = Canonical(Audited, args.until)
    BY <1>1, <1>2 DEF Own, Moments, Master, HereRounds, Here, Course, Canonical, GradClass
<1>5. \A f \in DOMAIN store : f \in DOMAIN store' /\ store'[f].sidecar = store[f].sidecar
    <2>1. GoodStore(store)
        BY <1>3 DEF StoreInv
    <2>2. PICK g \in DOMAIN store : store' = Rotted(store, g, Rot(g))
        BY DEF BytesLost, OnDisk
    <2> DEFINE v == Rot(g)
    <2>3. store' = Rotted(store, g, v)
        BY <2>2
    <2> HIDE DEF v
    <2> QED BY <2>1, <2>3, RottedFacts
<1>6. ASSUME phase \notin {"done", "judged"}, MomentsAre(Own(live.step).moments)
      PROVE  MomentsAre(Own(live.step).moments)'
    <2>1. Spills("moments") => Moments \in DOMAIN store
        BY <1>3, <1>6 DEF StoreInv, Replaying
    <2> QED BY <1>1, <1>2, <1>4, <1>5, <1>6, <2>1 DEF MomentsAre
<1>7. ASSUME phase \notin {"done", "judged"}, MomentsAre(Own(live.step + 1).moments)
      PROVE  MomentsAre(Own(live.step + 1).moments)'
    <2>1. Spills("moments") => Moments \in DOMAIN store
        BY <1>3, <1>7 DEF StoreInv, Replaying
    <2> QED BY <1>1, <1>2, <1>4, <1>5, <1>7, <2>1 DEF MomentsAre
<1>8. ASSUME MasterIs(Own(live.step).weights)
      PROVE  MasterIs(Own(live.step).weights)'
    BY <1>1, <1>2, <1>4, <1>5, <1>8 DEF MasterIs
<1>9. /\ Audited' \in 1 .. Len(segments') /\ segments'[Audited'].first <= args'.step
    BY <1>1, <1>2 DEF TrackInv
<1>10. (phase \in {"top", "ranks", "gate"} =>
           MasterIs(Own(live.step).weights) /\ MomentsAre(Own(live.step).moments))'
    BY <1>1, <1>6, <1>8 DEF TrackInv
<1>11. (phase \in {"top", "ranks", "gate", "hash"} => live.chain = Own(live.step).chain)'
    BY <1>1, <1>4 DEF TrackInv
<1>12. /\ (phase \in {"ranks", "gate", "hash", "counters"} =>
              live.lr = Own(live.step + 1).lr)'
       /\ (phase \in {"gate", "hash", "counters"} => grads = HereRounds)'
    BY <1>1, <1>4 DEF TrackInv
<1>13. (phase \in {"hash", "counters"} =>
           /\ live.weights = Own(live.step + 1).weights
           /\ MomentsAre(Own(live.step + 1).moments))'
    BY <1>1, <1>4, <1>7 DEF TrackInv
<1>14. (phase = "counters" =>
           /\ live.chain = Own(live.step + 1).chain
           /\ live.step + 1 = args.until => target = Canonical(Audited, args.until))'
    BY <1>1, <1>4 DEF TrackInv
<1>15. /\ (phase \in {"done", "judged"} => target = Canonical(Audited, args.until))'
       /\ (phase = "judged" /\ args.expect = target => verdict = "match")'
    BY <1>1, <1>4 DEF TrackInv
<1> QED BY <1>9, <1>10, <1>11, <1>12, <1>13, <1>14, <1>15 DEF TrackInv

-----------------------------------------------------------------------------
(* Where a faithful audit starts *)

LEMMA LoadedTensors ==
    ASSUME Inv, NEW o \in Origins, o.origin = "handoff" => Matched(o.step),
           NEW g, g = o.segment, NEW s, s = o.step
    PROVE  /\ g \in 1 .. Len(segments) /\ s \in segments[g].first .. segments[g].tip
           /\ LoadedFrom(o).state.weights = segments[g].trail[s].weights
           /\ LoadedFrom(o).state.moments = segments[g].trail[s].moments
           /\ LoadedFrom(o).state.chain = segments[g].trail[s].chain
<1>1. ClusterInv /\ DOMAIN segments = 1 .. Len(segments) /\ 1 \in 1 .. Len(segments)
    BY RunDomain DEF Inv
<1>2. CASE o \in [origin : {"init"}, segment : {1}, step : {0}]
    <2>1. o.origin = "init" /\ g = 1 /\ s = 0
        BY <1>2
    <2>2. LoadedFrom(o).state = FreshState
        BY <2>1 DEF LoadedFrom
    <2>3. segments[1].first = 0 /\ segments[1].trail[0] = FreshState
          /\ segments[1].tip \in Nat
        BY <1>1, RunFacts DEF ClusterInv, GoodRun
    <2> QED BY <1>1, <2>1, <2>2, <2>3
<1>3. CASE o \in UNION {[origin : {"cluster"}, segment : {h}, step : Steps(h)] :
                            h \in DOMAIN segments}
    <2>1. o.origin = "cluster" /\ g \in DOMAIN segments /\ s \in Steps(g)
        BY <1>3
    <2>2. segments[g].first \in Nat /\ segments[g].tip \in Nat
        BY <1>1, <2>1, RunFacts DEF ClusterInv
    <2>3. s \in segments[g].first .. segments[g].tip /\ g \in 1 .. Len(segments)
        BY <1>1, <2>1, <2>2 DEF Steps
    <2>4. LoadedFrom(o) = Checkpoint(g, s)
        BY <2>1 DEF LoadedFrom
    <2> DEFINE c == Checkpoint(g, s)
    <2>5. /\ c.state.weights = segments[g].trail[s].weights
          /\ c.state.moments = segments[g].trail[s].moments
          /\ c.state.chain = segments[g].trail[s].chain
        BY <1>1, <2>3, CheckpointFields
    <2> HIDE DEF c
    <2> QED BY <2>3, <2>4, <2>5 DEF c
<1>4. CASE \E t \in DOMAIN handoffs :
              o = [origin |-> "handoff", segment |-> handoffs[t].segment, step |-> t]
    <2>1. /\ o.origin = "handoff" /\ s \in DOMAIN handoffs /\ g = handoffs[s].segment
          /\ Matched(s)
        BY <1>4
    <2>2. LoadedFrom(o) = handoffs[s].files
        BY <2>1 DEF LoadedFrom
    <2>3. GoodFiles(handoffs[s].files, s, g)
        BY <2>1 DEF Inv, HandoffsInv
    <2>4. g \in DOMAIN segments /\ s \in Steps(g)
          /\ handoffs[s].files.stamp = Canonical(g, s)
        BY <1>1, <2>1, <2>3 DEF Matched, GoodFiles, DescribedBy
    <2>5. g \in 1 .. Len(segments) /\ s \in segments[g].first .. segments[g].tip
        BY <1>1, <2>4, CanonicalIs
    <2>6. /\ handoffs[s].files.state.weights = segments[g].trail[s].weights
          /\ handoffs[s].files.state.moments = segments[g].trail[s].moments
          /\ handoffs[s].files.state.chain = segments[g].trail[s].chain
        BY <2>1, <2>4, MatchedParts
    <2> QED BY <2>2, <2>5, <2>6
<1> QED BY <1>2, <1>3, <1>4 DEF Origins

LEMMA FaithfulLoad ==
    ASSUME Inv, ForkInv, NEW o \in Origins, NEW d \in Descriptors(o),
           o.origin = "handoff" => Matched(o.step),
           d # 0 => d = o.segment + 1 /\ o.step = segments[d].first,
           d # 0 \/ segments[o.segment].kind # "reset",
           NEW a, a = IF d = 0 THEN o.segment ELSE d,
           NEW x, x = StartLive(LoadedAs(o, d))
    PROVE  /\ a \in 1 .. Len(segments) /\ segments[a].first <= o.step
           /\ x.weights = segments[a].trail[o.step].weights
           /\ x.moments = segments[a].trail[o.step].moments
           /\ x.chain = segments[a].trail[o.step].chain
<1> DEFINE g == o.segment
           s == o.step
           l == LoadedFrom(o)
           over == LoadedAs(o, d)
           base == segments[g].trail[s]
<1>1. /\ g \in 1 .. Len(segments) /\ s \in segments[g].first .. segments[g].tip
      /\ l.state.weights = base.weights /\ l.state.moments = base.moments
      /\ l.state.chain = base.chain
    BY LoadedTensors
<1>2. /\ GoodLoad(l, s, g) /\ GoodLoad(over, s, a)
    BY LoadedIsGood, OverlaidIsGood DEF LoadedAs
<1>3. /\ IsState(l.state) /\ IsState(over.state)
      /\ l = [state |-> l.state, reset |-> l.reset, hashers |-> l.hashers,
              stamp |-> l.stamp, grads |-> l.grads]
      /\ a \in 1 .. Len(segments) /\ over.reset = (segments[a].kind = "reset") /\ s \in Nat
    BY <1>2 DEF GoodLoad, DescribedBy
<1>4. PICK n, r : over = l \/ over = [l EXCEPT !.state.anchor = n, !.reset = r]
    BY DEF LoadedAs, Overlaid
<1> HIDE DEF l
<1>5. /\ over.state.weights = base.weights /\ over.state.moments = base.moments
      /\ over.state.chain = base.chain
    <2>1. CASE over = l
        BY <1>1, <2>1
    <2>2. CASE over = [l EXCEPT !.state.anchor = n, !.reset = r]
        <3> DEFINE f == l.state
        <3>1. over = [state |-> [f EXCEPT !.anchor = n], reset |-> r,
                      hashers |-> l.hashers, stamp |-> l.stamp, grads |-> l.grads]
            BY <1>3, <2>2
        <3>2. over.state = [f EXCEPT !.anchor = n]
            BY <3>1
        <3>3. IsState(f)
            BY <1>3
        <3> HIDE DEF f
        <3>4. /\ over.state.weights = f.weights /\ over.state.moments = f.moments
              /\ over.state.chain = f.chain
            BY <3>2, <3>3 DEF IsState
        <3> QED BY <1>1, <3>4 DEF f
    <2> QED BY <1>4, <2>1, <2>2
<1> HIDE DEF over
<1> DEFINE f == over.state
           warm == IF over.reset THEN << >> ELSE f.moments
<1>6. x.weights = f.weights /\ x.moments = warm /\ x.chain = f.chain
    <2>1. x = [[f EXCEPT !.moments = warm] EXCEPT !.chain = f.chain]
        BY DEF StartLive, StartState, StartChain, over
    <2>2. IsState(f)
        BY <1>3
    <2> HIDE DEF f, warm
    <2> QED BY <2>1, <2>2 DEF IsState
<1>7. CASE d = 0
    <2>1. a = g /\ segments[a].kind # "reset"
        BY <1>7
    <2>2. segments[g].first <= s
        BY <1>1, <1>3, RunFacts DEF Inv, ClusterInv
    <2>3. warm = f.moments
        BY <1>3, <2>1
    <2> QED BY <1>1, <1>3, <1>5, <1>6, <2>1, <2>2, <2>3
<1>8. CASE d # 0
    <2>1. a = d /\ d - 1 = g /\ s = segments[a].first /\ a > 1
        BY <1>1, <1>8
    <2>2. segments[a].trail[s] = Forked(segments[a].kind, base)
        BY <1>3, <2>1 DEF ForkInv
    <2>3. IsState(base)
        BY <1>1, RunFacts DEF Inv, ClusterInv, GoodBoundary
    <2>4. /\ segments[a].trail[s].weights = base.weights
          /\ segments[a].trail[s].chain = base.chain
          /\ segments[a].trail[s].moments = IF segments[a].kind = "reset" THEN << >>
                                           ELSE base.moments
        <3> DEFINE k == segments[a].kind
                   m == IF k = "reset" THEN << >> ELSE base.moments
        <3>1. PICK n2 : Forked(k, base) = [base EXCEPT !.moments = m, !.anchor = n2]
            BY DEF Forked
        <3> HIDE DEF k, m, base
        <3>2. /\ Forked(k, base).weights = base.weights
              /\ Forked(k, base).chain = base.chain /\ Forked(k, base).moments = m
            BY <2>3, <3>1 DEF IsState
        <3> QED BY <2>2, <3>2 DEF k, m
    <2>5. /\ x.weights = segments[a].trail[s].weights
          /\ x.chain = segments[a].trail[s].chain
        BY <1>5, <1>6, <2>4
    <2>6. x.moments = segments[a].trail[s].moments
        <3>1. CASE segments[a].kind = "reset"
            BY <1>3, <1>6, <2>4, <3>1
        <3>2. CASE segments[a].kind # "reset"
            BY <1>3, <1>5, <1>6, <2>4, <3>2
        <3> QED BY <3>1, <3>2
    <2>7. segments[a].first <= s
        BY <1>3, <2>1
    <2> QED BY <1>3, <2>5, <2>6, <2>7
<1> QED BY <1>7, <1>8

LEMMA StartTrack ==
    ASSUME SpillVerify, Inv, ForkInv, Start
    PROVE  TrackInv'
<1>1. /\ phase' = (IF args'.until > live'.step THEN "top" ELSE "done")
      /\ UNCHANGED <<cluster, surface, segments, handoffs>>
    BY DEF Start, cluster
<1>2. PICK o \in Origins, spills \in SpillChoices :
         \E d \in Descriptors(o), until \in {0} \cup (1 .. Current.tip + BeyondTheEnd) :
            StartWith(o, d, spills, until)
    BY DEF Start
<1>3. PICK d \in Descriptors(o), until \in {0} \cup (1 .. Current.tip + BeyondTheEnd) :
         StartWith(o, d, spills, until)
    BY <1>2
<1> DEFINE x == StartLive(LoadedAs(o, d))
           a == IF d = 0 THEN o.segment ELSE d
           m == x.moments
           aim == Target(until, x.step)
           reset == LoadedAs(o, d).reset
<1>4. /\ aim > x.step
      /\ args' = [origin |-> o.origin, segment |-> o.segment, step |-> o.step,
                  desc |-> d, until |-> aim, spills |-> spills, reset |-> reset,
                  expect |-> NoDigest]
      /\ live' = (IF "moments" \in spills THEN [x EXCEPT !.moments = << >>] ELSE x)
      /\ store' = (IF "moments" \in spills THEN Saved(EmptyStore, Moments, m)
                                           ELSE EmptyStore)
    BY <1>3 DEF StartWith, LoadedAs, StartLive, Advances
<1>5. IsState(x) /\ x.step = o.step
    <2>1. GoodLoad(LoadedAs(o, d), o.step, a)
        BY OverlaidIsGood DEF LoadedAs
    <2> DEFINE ckpt == LoadedAs(o, d)
    <2>2. x \in {StartLive(ckpt), [StartLive(ckpt) EXCEPT !.moments = << >>]}
        OBVIOUS
    <2> HIDE DEF x, ckpt, a
    <2>3. GoodLoad(ckpt, o.step, a)
        BY <2>1 DEF ckpt
    <2> QED BY <2>2, <2>3, StartLiveFields
<1> HIDE DEF x, a, m, aim, reset
<1>6. /\ args'.origin = o.origin /\ args'.segment = o.segment /\ args'.step = o.step
      /\ args'.desc = d /\ args'.until = aim /\ args'.spills = spills
    BY <1>4
<1>7. /\ live'.step = o.step /\ live'.weights = x.weights /\ live'.chain = x.chain
      /\ live'.moments = IF "moments" \in spills THEN << >> ELSE m
    <2>1. CASE "moments" \in spills
        BY <1>4, <1>5, <2>1 DEF IsState
    <2>2. CASE "moments" \notin spills
        BY <1>4, <1>5, <2>2 DEF m
    <2> QED BY <2>1, <2>2
<1>8. Audited' = a
    BY <1>6 DEF Audited, a
<1>9. phase' = "top"
    BY <1>1, <1>4, <1>5, <1>6, <1>7
<1> SUFFICES ASSUME Faithful' PROVE TrackInv'
    BY DEF TrackInv
<1>10. /\ o.origin = "handoff" => Matched(o.step)
       /\ d # 0 => d = o.segment + 1 /\ o.step = segments[d].first
       /\ d # 0 \/ segments[o.segment].kind # "reset"
    <2>1. HonestStart' /\ (args'.desc # 0 \/ segments'[args'.segment].kind # "reset")
        BY DEF Faithful, Honest
    <2>2. o.origin = "handoff" => Matched(o.step)
        BY <1>1, <1>6, <2>1 DEF HonestStart, Matched, Steps, Canonical, GradClass
    <2> QED BY <1>1, <1>6, <2>1, <2>2 DEF HonestStart
<1>11. /\ a \in 1 .. Len(segments) /\ segments[a].first <= o.step
       /\ x.weights = segments[a].trail[o.step].weights
       /\ x.moments = segments[a].trail[o.step].moments
       /\ x.chain = segments[a].trail[o.step].chain
    <2>1. a = IF d = 0 THEN o.segment ELSE d
        BY DEF a
    <2>2. x = StartLive(LoadedAs(o, d))
        BY DEF x
    <2> QED BY <1>10, <2>1, <2>2, FaithfulLoad
<1>12. Own(live.step)' = segments[a].trail[o.step]
    BY <1>1, <1>7, <1>8 DEF Own
<1>13. /\ MasterIs(Own(live.step).weights)' /\ (live.chain = Own(live.step).chain)'
    BY <1>7, <1>9, <1>11, <1>12 DEF MasterIs
<1>14. MomentsAre(Own(live.step).moments)'
    <2>1. CASE "moments" \in spills
        <3>1. store' = [f \in (DOMAIN EmptyStore) \cup {Moments} |->
                           IF f = Moments THEN [payload |-> m, sidecar |-> {m}]
                           ELSE EmptyStore[f]]
            BY <1>4, <2>1 DEF Saved
        <3>2. store'[Moments].sidecar = {m}
            BY <3>1
        <3>3. Moments' = Moments /\ Spills("moments")'
            BY <1>6, <2>1 DEF Moments, Spills
        <3> QED BY <1>11, <1>12, <3>2, <3>3 DEF MomentsAre, m
    <2>2. CASE "moments" \notin spills
        <3>1. ~Spills("moments")'
            BY <1>6, <2>2 DEF Spills
        <3> QED BY <1>7, <1>11, <1>12, <2>2, <3>1 DEF MomentsAre, m
    <2> QED BY <2>1, <2>2
<1>15. /\ Audited' \in 1 .. Len(segments') /\ segments'[Audited'].first <= args'.step
    BY <1>1, <1>6, <1>8, <1>11
<1> QED BY <1>9, <1>13, <1>14, <1>15 DEF TrackInv, Replaying

LEMMA TrackStep ==
    ASSUME SpillVerify, FoldIsTheClusters, Inv, ShapeInv, FoldInv, ForkInv, TrackInv,
           [Next]_vars
    PROVE  TrackInv'
<1>1. CASE BeginStep
    BY <1>1, BeginStepTrack
<1>2. CASE RunRank
    BY <1>2, RunRankTrack
<1>3. CASE FoldGradients
    BY <1>3, FoldTrack
<1>4. CASE UpdateWeights
    BY <1>4, UpdateTrack
<1>5. CASE HashStep
    BY <1>5, HashTrack
<1>6. CASE EndStep
    BY <1>6, EndTrack
<1>7. CASE Judge
    BY <1>7, JudgeTrack
<1>8. CASE BytesLost
    BY <1>8, BytesLostTrack
<1>9. CASE Start
    BY <1>9, StartTrack
<1>10. CASE UNCHANGED vars
    <2>1. UNCHANGED <<cluster, phase, args, live, grads, target, verdict, handoffs, store>>
        BY <1>10 DEF vars, audit, memory
    <2>2. segments' = segments /\ surface' = surface /\ Faithful' = Faithful
          /\ Audited' = Audited /\ \A x : Spills(x)' = Spills(x)
        BY <2>1, SameAudit
    <2> QED BY <2>1, <2>2 DEF TrackInv, Replaying, MasterIs, MomentsAre, Own, HereRounds,
                Here, Course, Canonical, GradClass, Master, Moments
<1>11. CASE phase' \in {"idle", "staged", "ended"}
    BY <1>11 DEF TrackInv, Replaying
<1>12. \/ BeginStep \/ RunRank \/ FoldGradients \/ UpdateWeights \/ HashStep \/ EndStep
       \/ Judge \/ BytesLost \/ Start \/ UNCHANGED vars
       \/ phase' \in {"idle", "staged", "ended"}
    <2>1. CASE Train
        BY <2>1 DEF Train, audit
    <2>2. CASE ~Train
        BY <2>2 DEF Next, VerifyInit, Replay, HandOff, Leave, Kill, RefuseUneven,
             RaiseCorruption, EndUnsaved, RefuseSave, StageSidecar, StageCheckpoint,
             Publish, Idle
    <2> QED BY <2>1, <2>2
<1> QED BY <1>1, <1>2, <1>3, <1>4, <1>5, <1>6, <1>7, <1>8, <1>9, <1>10, <1>11, <1>12

LEMMA MatchInit == Init => MatchInv
<1> SUFFICES ASSUME Init PROVE MatchInv
    OBVIOUS
<1>1. phase = "idle" /\ Len(segments) = 1
    BY DEF Init, ClusterInit
<1>2. FoldInv /\ TrackInv /\ ForkInv
    BY <1>1 DEF FoldInv, TrackInv, ForkInv, Replaying
<1> QED BY <1>2, ShapeInit DEF MatchInv

THEOREM AuditsAreFaithful ==
    ASSUME SpillVerify, FoldIsTheClusters PROVE Spec => [](Inv /\ MatchInv)
<1>1. Init => Inv /\ MatchInv
    BY InitIsInv, MatchInit
<1>2. Inv /\ MatchInv /\ [Next]_vars => Inv' /\ MatchInv'
    <2> SUFFICES ASSUME Inv, MatchInv, [Next]_vars PROVE Inv' /\ MatchInv'
        OBVIOUS
    <2>1. ShapeInv /\ FoldInv /\ ForkInv /\ TrackInv /\ ClusterInv
        BY DEF MatchInv, Inv
    <2>2. Inv'
        BY NextKeepsInv
    <2>3. ShapeInv'
        BY <2>1, <2>2, ShapeStep
    <2>4. FoldInv'
        BY <2>1, FoldInvStep
    <2>5. ForkInv'
        BY <2>1, ForkInvStep
    <2>6. TrackInv'
        BY <2>1, TrackStep
    <2> QED BY <2>2, <2>3, <2>4, <2>5, <2>6 DEF MatchInv
<1> QED BY <1>1, <1>2, PTL DEF Spec

-----------------------------------------------------------------------------
(* Honest audits match *)

\* The audit is given the descriptor of its segment, or audits a segment that
\* trains on from moments it kept.
KeepsItsMoments == args.desc # 0 \/ segments[args.segment].kind # "reset"

LEMMA FaithfulMatches ==
    ASSUME Inv, MatchInv, KeepsItsMoments
    PROVE  HonestIntervalMatches
<1> SUFFICES ASSUME phase = "judged", Honest,
                    args.expect = Canonical(Audited, args.until)
             PROVE  verdict = "match"
    BY DEF HonestIntervalMatches
<1>1. Faithful
    BY DEF Faithful, KeepsItsMoments
<1>2. target = Canonical(Audited, args.until) /\ (args.expect = target => verdict = "match")
    BY <1>1 DEF MatchInv, TrackInv
<1> QED BY <1>2

\* "Resuming mid-run needs nothing but the checkpoint": over any schedule, loss
\* surface, world size, spilling, kills and lost bytes, an audit with honest
\* arguments that is judged matches the digest published for its target.  The
\* later intervals of a segment that reset its optimizer, replayed without its
\* descriptor, are the recorded exception.
THEOREM FaithfulAuditsMatch ==
    ASSUME SpillVerify, FoldIsTheClusters
    PROVE  Spec => [](KeepsItsMoments => HonestIntervalMatches)
<1>1. Inv /\ MatchInv => (KeepsItsMoments => HonestIntervalMatches)
    BY FaithfulMatches
<1> QED BY <1>1, AuditsAreFaithful, PTL

\* A run that never resets its optimizer has no such exception.
THEOREM HonestAuditsMatch ==
    ASSUME SpillVerify, FoldIsTheClusters, "reset" \notin ForkKinds
    PROVE  Spec => []HonestIntervalMatches
<1>1. Inv /\ MatchInv => HonestIntervalMatches
    <2> SUFFICES ASSUME Inv, MatchInv, phase = "judged" PROVE HonestIntervalMatches
        BY DEF HonestIntervalMatches
    <2> SUFFICES ASSUME args.desc = 0 PROVE HonestIntervalMatches
        BY FaithfulMatches DEF KeepsItsMoments
    <2> DEFINE g == args.segment
    <2>1. g \in 1 .. Len(segments) /\ GoodRun(segments)
        BY DEF Inv, ClusterInv, AuditInv, ArgsInv, Active, DescribedBy, Audited
    <2>2. segments[g].kind # "reset"
        <3>1. CASE g = 1
            BY <2>1, <3>1 DEF GoodRun
        <3>2. CASE g # 1
            <4>1. g > 1
                BY <2>1, <3>2
            <4>2. segments[g].kind \in ForkKinds
                BY <2>1, <4>1 DEF MatchInv, ForkInv
            <4> QED BY <4>2
        <3> QED BY <3>1, <3>2
    <2> QED BY <2>2, FaithfulMatches DEF KeepsItsMoments
<1> QED BY <1>1, AuditsAreFaithful, PTL
=============================================================================
