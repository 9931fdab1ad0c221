------------------------- MODULE RankLockstepProofs -------------------------
(***************************************************************************)
(* Proofs about RankLockstep, for every number of ranks and shards, every  *)
(* schedule, loss surface and save cadence, and any number of signals and  *)
(* deaths: the ranks answer each other's calls step by step, hold shares   *)
(* of the one state TrainStep computes, and seal whole directories.        *)
(***************************************************************************)
EXTENDS RankLockstepMC, TrainStepProofs

-----------------------------------------------------------------------------
(* The course of a job *)

\* One iteration of the loop in full: number 0 is the start, number n takes
\* step n.  What a rank enters there, communicator by communicator.
Kinds(comm, n) ==
    CASE comm = "world"        -> IF n = 0 THEN <<"guard">> ELSE <<"loss", "exit">>
      [] comm = "fsdp"         -> IF n = 0 THEN <<"init">> ELSE <<"scatter", "norm">>
      [] comm = "dp_replicate" -> <<"replicate">>
      [] comm = "dp_gloo"      -> <<"state", "batch", "saveBatch">>
      [] comm = "ckpt"         -> <<"shards", "files">>

\* A rank's memory at the save decision of a step nobody was signalled in.
Undisturbed(st, last) == [st |-> st, lastCkpt |-> last, due |-> FALSE]

CallsOf(comm, me) ==
    CASE comm \in {"world", "fsdp"} -> 2
      [] comm = "dp_replicate"      -> 1
      [] comm = "dp_gloo"           -> IF SaveDue(me) THEN 3
                                       ELSE IF HashNeeded(me, FALSE) THEN 2 ELSE 0
      [] comm = "ckpt"              -> IF SaveDue(me) THEN 2 ELSE 0

\* The state after k steps, where its last checkpoint stands and how many calls
\* a rank has made on each communicator.
Start ==
    [st |-> FreshState, last |-> 0,
     calls |-> [c \in Comms |-> IF c \in {"world", "fsdp"} THEN 1 ELSE 0]]
Onward(surf, past) ==
    LET st == After(past.st, StepClass(surf, past.st))
        me == Undisturbed(st, past.last)
    IN  [st |-> st,
         last |-> IF SaveDue(me) THEN st.consumed ELSE past.last,
         calls |-> [c \in Comms |-> past.calls[c] + CallsOf(c, me)]]
Course[k \in Nat] == IF k = 0 THEN Start ELSE Onward(surface, Course[k - 1])

At(k) == Course[k].st
MeAt(n) == Undisturbed(At(n), Course[n - 1].last)
SavesAt(n) == SaveDue(MeAt(n))
HashesAt(n) == HashNeeded(MeAt(n), FALSE)

\* The calls of the iterations before n, and those of n.
Base(comm, n) == IF n = 0 THEN 0 ELSE Course[n - 1].calls[comm]
Count(comm, n) ==
    IF n = 0 THEN (IF comm \in {"world", "fsdp"} THEN 1 ELSE 0) ELSE CallsOf(comm, MeAt(n))

-----------------------------------------------------------------------------
(* What a rank passes in iteration n, n > 0 *)

ClassAt(n) == StepClass(surface, At(n - 1))
BatchesAt(n) == StepBatches(At(n - 1).pos, At(n - 1).consumed)
ShareAt(r, n) == RankShare(BatchesAt(n), r)
LossAt(r, n) == ClassOf({ShareAt(r, n)[k] : k \in DOMAIN ShareAt(r, n)})
PartAt(r, n) == [rounds |-> ShareAt(r, n), class |-> LossAt(r, n)]
PartsAt(n) == [p \in Ranks |-> PartAt(p, n)]
DataAt(r, n) == RankShare(At(n).data, r)
TensorsAt(n) == [weights |-> At(n).weights, moments |-> At(n).moments]

Gives(r, n, kind) ==
    CASE kind = "guard"                 -> seen[r]
      [] kind = "scatter"               -> PartAt(r, n)
      [] kind = "replicate"             -> [p \in Peers("fsdp", r) |-> PartAt(p, n)]
      [] kind = "norm"                  -> ShardClass(r, PartsAt(n))
      [] kind = "loss"                  -> LossAt(r, n)
      [] kind = "state"                 -> [weights |-> At(n).weights,
                                            moments |-> At(n).moments, grads |-> BatchesAt(n)]
      [] kind \in {"batch", "saveBatch"} -> DataAt(r, n)
      [] kind = "files"                 -> [step |-> n, rng |-> At(n).rng, data |-> DataAt(r, n)]
      [] OTHER                          -> << >>

\* The exit flag alone is not a matter of course.
IsCall(call, comm, r, n, i) ==
    /\ call.kind = Kinds(comm, n)[i]
    /\ IF call.kind = "exit" THEN call.gives \in BOOLEAN
                             ELSE call.gives = Gives(r, n, call.kind)

-----------------------------------------------------------------------------
(* Where a rank stands *)

Starting == {"start", "guard", "init"}
Taking == {"scatter", "replicate", "norm"}
Hashing == {"state", "batch"}
Saving == {"saveBatch", "shards", "files", "seal"}
Decided == Hashing \cup Saving \cup {"exited"}
Stepping == {"top"} \cup Taking \cup {"loss", "exit"} \cup Decided
Places == Starting \cup Stepping

\* The calls a rank has made in its iteration.
Made(comm, place) ==
    CASE comm = "world"        -> IF place \in {"guard", "init", "loss"} THEN 1
                                  ELSE IF place \in {"exit"} \cup Decided THEN 2 ELSE 0
      [] comm = "fsdp"         -> IF place \in {"init", "scatter", "replicate"} THEN 1
                                  ELSE IF place \in {"norm", "loss", "exit"} \cup Decided THEN 2
                                  ELSE 0
      [] comm = "dp_replicate" -> IF place \in {"replicate", "norm", "loss", "exit"} \cup Decided
                                  THEN 1 ELSE 0
      [] comm = "dp_gloo"      -> IF place = "state" THEN 1 ELSE IF place = "batch" THEN 2
                                  ELSE IF place \in Saving \cup {"exited"} THEN 3 ELSE 0
      [] comm = "ckpt"         -> IF place = "shards" THEN 1
                                  ELSE IF place \in {"files", "seal", "exited"} THEN 2 ELSE 0

\* A rank that is gone stays where it went.
Stands(at, place) ==
    CASE at = "refused"           -> place = "guard"
      [] at = "done"              -> place = "top"
      [] at = "halted"            -> place = "norm"
      [] at \in {"dead", "aborted"} -> TRUE
      [] OTHER                    -> at = place

\* Somebody passed a signal to the exit check of this step.
AllPassed(n) == \A p \in Ranks : Len(calls[p]["world"]) >= Base("world", n) + 2
Stops(n) == \E p \in Ranks : calls[p]["world"][Base("world", n) + 2].gives

LogIs(log, r, n, place) ==
    \A c \in Comms :
        /\ log[c] = [i \in 1 .. Len(log[c]) |-> log[c][i]]
        /\ Len(log[c]) = Base(c, n) + Made(c, place)
        /\ \A m \in 0 .. n - 1 : \A i \in 1 .. Count(c, m) :
              IsCall(log[c][Base(c, m) + i], c, r, m, i)
        /\ \A i \in 1 .. Made(c, place) : IsCall(log[c][Base(c, n) + i], c, r, n, i)
LogInv(r, n, place) == LogIs(calls[r], r, n, place)

\* A step begins when everybody has agreed to go on.
PaceInv(n, place) ==
    /\ n = 0 <=> place \in Starting
    /\ \A m \in 1 .. n - 1 : AllPassed(m) /\ ~Stops(m)
    /\ place \in Decided => AllPassed(n)
    /\ place \in Hashing => HashesAt(n) \/ Stops(n)
    /\ place \in Saving => SavesAt(n) \/ Stops(n)
    /\ place = "exited" => Stops(n)

BegunAt(n) == Begun(At(n - 1), At(n - 1).consumed)
HeldAt(n, place) ==
    IF place \in Starting THEN FreshState
    ELSE IF place = "top" THEN At(n - 1)
    ELSE IF place \in Taking THEN BegunAt(n)
    ELSE IF place \in {"loss", "exit"} \cup Hashing THEN BeforeHash(At(n - 1), ClassAt(n))
    ELSE At(n)

IsMe(me) ==
    me = [at |-> me.at, st |-> me.st, grads |-> me.grads, loss |-> me.loss,
          due |-> me.due, shardState |-> me.shardState, stamp |-> me.stamp,
          lastCkpt |-> me.lastCkpt, sigterm |-> me.sigterm]
MemInv(me, r, n, place) ==
    /\ IsMe(me)
    /\ me.sigterm \in BOOLEAN
    /\ me.at \notin {"dead", "aborted"} =>
          /\ Stands(me.at, place)
          /\ me.st = ShareOf(HeldAt(n, place), r)
          /\ me.at = "halted" => RaisesHalt(At(n - 1).spike, ClassAt(n), n - 1)
          /\ place \in Starting => me.lastCkpt = 0
          /\ place \in Stepping \ {"exited"} => me.lastCkpt = Course[n - 1].last
          /\ place \in Taking \cup {"loss"} => me.loss = LossAt(r, n)
          /\ place \in {"norm", "loss", "exit"} \cup Hashing => me.grads = BatchesAt(n)
          /\ place \in Hashing \cup Saving => me.due = Stops(n)
          /\ place \in Starting \cup {"top"} \cup Taking \cup {"loss", "exit"} => me.due = FALSE
          /\ place = "batch" =>
                me.shardState = [p \in Ranks |-> Gives(p, n, "state")]
          /\ place \in Saving => me.stamp = Canonical(n)

FilesAt(n) == [r \in Ranks |-> Gives(r, n, "files")]
HasPut(d, r, n) ==
    /\ r = 0 => d.stamp = Canonical(n)
    /\ Writes(r) => r \in DOMAIN d.shards

DirInv(n, d) ==
    /\ n > 0
    /\ d = [stamp |-> d.stamp, shards |-> d.shards, files |-> d.files, sealed |-> d.sealed]
    /\ d.stamp \in {<< >>, Canonical(n)}
    /\ DOMAIN d.shards \subseteq {r \in Ranks : Writes(r)}
    /\ d.shards = [r \in DOMAIN d.shards |-> TensorsAt(n)]
    /\ d.files \in {<< >>, FilesAt(n)}
    /\ d.sealed \in BOOLEAN
    /\ d.sealed => /\ \A r \in Ranks : HasPut(d, r, n)
                   /\ d.files = FilesAt(n)

PutIs(ds, r, n, place) ==
    /\ \A m \in 1 .. n - 1 : SavesAt(m) => m \in DOMAIN ds /\ HasPut(ds[m], r, m)
    /\ place \in {"shards", "files", "seal", "exited"} =>
          n \in DOMAIN ds /\ HasPut(ds[n], r, n)
    /\ place \in {"files", "seal"} /\ r = 0 => \A p \in Ranks : HasPut(ds[n], p, n)
    /\ place = "seal" /\ r = 0 => ds[n].files = FilesAt(n)
    /\ place = "seal" => r = 0
    /\ place = "files" => r = 0
PutInv(r, n, place) == PutIs(dirs, r, n, place)

RankInv(r, n, place) ==
    /\ n \in Nat /\ place \in Places
    /\ LogInv(r, n, place) /\ PaceInv(n, place) /\ MemInv(rank[r], r, n, place)
    /\ PutInv(r, n, place)

Shape ==
    /\ rank = [r \in Ranks |-> rank[r]]
    /\ calls = [r \in Ranks |-> [c \in Comms |-> calls[r][c]]]
    /\ \A n \in DOMAIN dirs : n \in Nat /\ DirInv(n, dirs[n])

LockInv ==
    /\ Shape
    /\ \A r \in Ranks : \E n \in Nat, place \in Places : RankInv(r, n, place)

-----------------------------------------------------------------------------
(* The course exists *)

\* Its first n steps.
IsCourse(surf, n, f) ==
    f = [k \in 0 .. n |-> IF k = 0 THEN Start ELSE Onward(surf, f[k - 1])]

LEMMA CoursePrefix ==
    ASSUME NEW surf, NEW n \in Nat
    PROVE  \E f : IsCourse(surf, n, f)
<1> DEFINE Without == {k \in Nat : ~\E f : IsCourse(surf, k, f)}
<1> SUFFICES ASSUME Without # {} PROVE FALSE
    OBVIOUS
<1>1. PICK m \in Without : \A k \in Without : m <= k
    <2>1. Without \in SUBSET Nat
        OBVIOUS
    <2> HIDE DEF Without
    <2> QED BY <2>1, LeastNat
<1>2. m # 0
    <2> SUFFICES \E f : IsCourse(surf, 0, f)
        OBVIOUS
    <2> DEFINE f == [k \in 0 .. 0 |-> Start]
    <2>1. f = [k \in 0 .. 0 |-> IF k = 0 THEN Start ELSE Onward(surf, f[k - 1])]
        OBVIOUS
    <2> QED BY <2>1 DEF IsCourse
<1>3. m - 1 \in Nat /\ m = (m - 1) + 1 /\ m - 1 \notin Without
    BY <1>1, <1>2
<1>4. PICK f : IsCourse(surf, m - 1, f)
    BY <1>3
<1> DEFINE g == [k \in 0 .. m |-> IF k = m THEN Onward(surf, f[m - 1]) ELSE f[k]]
<1>5. \A k \in 0 .. m - 1 : f[k] = IF k = 0 THEN Start ELSE Onward(surf, f[k - 1])
    BY <1>4 DEF IsCourse
<1>6. \A k \in 0 .. m : g[k] = IF k = 0 THEN Start ELSE Onward(surf, g[k - 1])
    <2> SUFFICES ASSUME NEW k \in 0 .. m
                 PROVE  g[k] = IF k = 0 THEN Start ELSE Onward(surf, g[k - 1])
        OBVIOUS
    <2>1. CASE k = m
        BY <1>2, <1>3, <2>1
    <2>2. CASE k # m
        <3>1. k \in 0 .. m - 1 /\ (k # 0 => k - 1 \in 0 .. m /\ k - 1 # m)
            BY <1>3, <2>2
        <3> QED BY <1>5, <2>2, <3>1
    <2> QED BY <2>1, <2>2
<1>7. g = [k \in 0 .. m |-> g[k]]
    OBVIOUS
<1> HIDE DEF g
<1>8. IsCourse(surf, m, g)
    BY <1>6, <1>7 DEF IsCourse
<1> QED BY <1>1, <1>8

LEMMA PrefixesAgree ==
    ASSUME NEW surf, NEW n \in Nat, NEW m \in Nat, NEW f, NEW g,
           IsCourse(surf, n, f), IsCourse(surf, m, g), NEW k \in Nat, k <= n, k <= m
    PROVE  f[k] = g[k]
<1> DEFINE Bad == {j \in 0 .. k : f[j] # g[j]}
<1> SUFFICES ASSUME Bad # {} PROVE FALSE
    OBVIOUS
<1>1. PICK j \in Bad : \A i \in Bad : j <= i
    <2>1. Bad \in SUBSET Nat
        OBVIOUS
    <2> HIDE DEF Bad
    <2> QED BY <2>1, LeastNat
<1>2. /\ \A i \in 0 .. k : f[i] = IF i = 0 THEN Start ELSE Onward(surf, f[i - 1])
      /\ \A i \in 0 .. k : g[i] = IF i = 0 THEN Start ELSE Onward(surf, g[i - 1])
    BY DEF IsCourse
<1>3. j # 0
    BY <1>1, <1>2
<1>4. j - 1 \in 0 .. k /\ j - 1 \notin Bad
    BY <1>1, <1>3
<1> QED BY <1>1, <1>2, <1>3, <1>4

LEMMA CourseIs ==
    \A k \in Nat : Course[k] = IF k = 0 THEN Start ELSE Onward(surface, Course[k - 1])
<1> DEFINE prefix(k) == CHOOSE f : IsCourse(surface, k, f)
           F == [k \in Nat |-> prefix(k)[k]]
<1>1. \A k \in Nat : IsCourse(surface, k, prefix(k))
    BY CoursePrefix
<1> HIDE DEF prefix
<1>2. \A k \in Nat : F[k] = IF k = 0 THEN Start ELSE Onward(surface, F[k - 1])
    <2> SUFFICES ASSUME NEW k \in Nat
                 PROVE  F[k] = IF k = 0 THEN Start ELSE Onward(surface, F[k - 1])
        OBVIOUS
    <2>1. prefix(k)[k] = IF k = 0 THEN Start ELSE Onward(surface, prefix(k)[k - 1])
        BY <1>1 DEF IsCourse
    <2>2. CASE k = 0
        BY <2>1, <2>2
    <2>3. CASE k # 0
        <3>1. k - 1 \in Nat /\ k - 1 <= k
            BY <2>3
        <3>2. prefix(k)[k - 1] = prefix(k - 1)[k - 1]
            BY <1>1, <3>1, PrefixesAgree
        <3> QED BY <2>1, <2>3, <3>1, <3>2
    <2> QED BY <2>2, <2>3
<1>3. F = [k \in Nat |-> IF k = 0 THEN Start ELSE Onward(surface, F[k - 1])]
    BY <1>2
<1> HIDE DEF F
<1>4. Course = [k \in Nat |-> IF k = 0 THEN Start ELSE Onward(surface, Course[k - 1])]
    BY <1>3 DEF Course
<1> QED BY <1>4

\* The run the properties are about is the course's.
LEMMA RunIsCourse == \A k \in Nat : LockstepRun[k] = At(k)
<1> DEFINE F == [k \in Nat |-> At(k)]
<1>1. \A k \in Nat : At(k) = IF k = 0 THEN FreshState
                             ELSE After(At(k - 1), StepClass(surface, At(k - 1)))
    <2>1. Start.st = FreshState
        BY DEF Start
    <2>2. \A past : Onward(surface, past).st = After(past.st, StepClass(surface, past.st))
        BY DEF Onward
    <2> QED BY <2>1, <2>2, CourseIs DEF At
<1>2. F = [k \in Nat |-> IF k = 0 THEN FreshState
                         ELSE LET st == F[k - 1] IN After(st, StepClass(surface, st))]
    <2>1. \A k \in Nat : k # 0 => k - 1 \in Nat
        OBVIOUS
    <2> HIDE DEF At
    <2> QED BY <1>1, <2>1
<1> HIDE DEF F
<1>3. LockstepRun = [k \in Nat |-> IF k = 0 THEN FreshState
                         ELSE LET st == LockstepRun[k - 1] IN After(st, StepClass(surface, st))]
    BY <1>2 DEF LockstepRun
<1>4. SUFFICES ASSUME {k \in Nat : LockstepRun[k] # At(k)} # {} PROVE FALSE
    OBVIOUS
<1> DEFINE Bad == {k \in Nat : LockstepRun[k] # At(k)}
<1>5. PICK j \in Bad : \A i \in Bad : j <= i
    <2>1. Bad \in SUBSET Nat /\ Bad # {}
        BY <1>4
    <2> HIDE DEF Bad
    <2> QED BY <2>1, LeastNat
<1>6. \A k \in Nat : LockstepRun[k] = IF k = 0 THEN FreshState
                         ELSE After(LockstepRun[k - 1], StepClass(surface, LockstepRun[k - 1]))
    BY <1>3
<1>7. j # 0
    BY <1>1, <1>5, <1>6
<1>8. j - 1 \in Nat /\ j - 1 \notin Bad
    BY <1>5, <1>7
<1>9. LockstepRun[j - 1] = At(j - 1)
    BY <1>8
<1> HIDE DEF Bad
<1>10. LockstepRun[j] = At(j)
    <2>1. j \in Nat
        BY <1>5 DEF Bad
    <2> QED BY <1>1, <1>6, <1>7, <1>9, <2>1
<1> QED BY <1>5, <1>10 DEF Bad

-----------------------------------------------------------------------------
(* What the course holds *)

LEMMA Sizes == /\ World \in Nat \ {0} /\ Shards \in Nat \ {0} /\ Shards <= World
               /\ 0 \in Ranks /\ HashEvery > 0 /\ \A r \in Ranks : r \in Nat
<1>1. World \in Nat \ {0} /\ Shards \in 1 .. World /\ HashEvery > 0
    BY TrainAssumption, LockstepAssumption
<1> QED BY <1>1 DEF Ranks

LEMMA CommsAre == Comms = {"fsdp", "dp_replicate", "world", "dp_gloo", "ckpt"}
BY DEF Comms

LEMMA CallsOfType ==
    ASSUME NEW c \in Comms, NEW me
    PROVE  CallsOf(c, me) \in {0, 1, 2, 3}
BY DEF CallsOf, Comms

LEMMA AfterBoundary ==
    ASSUME NEW st, NEW s \in Nat, GoodBoundary(st, s), NEW class
    PROVE  GoodBoundary(After(st, class), s + 1)
<1> DEFINE a == After(st, class)
           new == StepBatches(st.pos, st.consumed)
<1>0. HashEvery > 0
    BY Sizes
<1>1. /\ a.step = s + 1 /\ a.consumed = st.consumed + Tokens(st.consumed)
      /\ a.pos = st.pos + Span(st.consumed) /\ a.data = st.data \o new
    BY <1>0, AfterCourse
<1>2. IsState(a) /\ a.chain = IF HashDue(s + 1) THEN DigestAfter(st, class) ELSE st.chain
    BY <1>0, AfterFields
<1>3. st.consumed \in Nat /\ st.pos \in Nat /\ st.data \in Seq(Nat)
    BY DEF GoodBoundary
<1>4. a.consumed \in Nat /\ a.pos \in Nat
    BY <1>1, <1>3, TokensOfAStep
<1>5. new \in Seq(Nat)
    BY <1>3, BatchesType
<1>6. DigestAfter(st, class).link = "digest"
    BY DEF DigestAfter, StepDigest
<1>7. a.chain = NoLink \/ a.chain.link = "digest"
    BY <1>2, <1>6 DEF GoodBoundary
<1> HIDE DEF a, new
<1>8. a.data \in Seq(Nat)
    BY <1>1, <1>3, <1>5, ConcatTail
<1>9. GoodBoundary(a, s + 1)
    BY <1>1, <1>2, <1>4, <1>7, <1>8 DEF GoodBoundary
<1> QED BY <1>9 DEF a

LEMMA CourseGood ==
    \A k \in Nat : GoodBoundary(At(k), k) /\ \A c \in Comms : Course[k].calls[c] \in Nat
<1> DEFINE Good(k) == GoodBoundary(At(k), k) /\ \A c \in Comms : Course[k].calls[c] \in Nat
           Bad == {k \in Nat : ~Good(k)}
<1> SUFFICES ASSUME Bad # {} PROVE FALSE
    OBVIOUS
<1>1. PICK j \in Bad : \A i \in Bad : j <= i
    <2>1. Bad \in SUBSET Nat
        OBVIOUS
    <2> HIDE DEF Bad
    <2> QED BY <2>1, LeastNat
<1>2. j # 0
    <2>1. Course[0] = Start
        BY CourseIs
    <2>2. GoodBoundary(FreshState, 0)
        BY DEF GoodBoundary, IsState, FreshState
    <2>3. At(0) = FreshState
        BY <2>1 DEF At, Start
    <2>4. \A c \in Comms : Course[0].calls[c] \in Nat
        BY <2>1 DEF Start
    <2>5. Good(0)
        BY <2>2, <2>3, <2>4
    <2> QED BY <1>1, <2>5
<1>3. j - 1 \in Nat /\ j - 1 \notin Bad /\ j \in Nat /\ (j - 1) + 1 = j
    BY <1>1, <1>2
<1>4. Good(j - 1)
    BY <1>3
<1> DEFINE past == Course[j - 1]
           class == StepClass(surface, past.st)
<1>5. Course[j] = Onward(surface, past)
    BY <1>2, <1>3, CourseIs
<1>6. At(j) = After(past.st, class) /\ past.st = At(j - 1)
    BY <1>5 DEF Onward, At
<1>7. GoodBoundary(past.st, j - 1)
    BY <1>4, <1>6
<1> DEFINE start == past.st
<1> HIDE DEF class
<1>8. GoodBoundary(At(j), j)
    <2>1. GoodBoundary(start, j - 1)
        BY <1>7
    <2> HIDE DEF start
    <2>2. GoodBoundary(After(start, class), (j - 1) + 1)
        BY <1>3, <2>1, AfterBoundary
    <2> QED BY <1>3, <1>6, <2>2 DEF start
<1>9. \A c \in Comms : Course[j].calls[c] \in Nat
    <2> SUFFICES ASSUME NEW c \in Comms PROVE Course[j].calls[c] \in Nat
        OBVIOUS
    <2>1. PICK me : Course[j].calls[c] = past.calls[c] + CallsOf(c, me)
        BY <1>5 DEF Onward
    <2>2. past.calls[c] \in Nat
        BY <1>4
    <2> QED BY <2>1, <2>2, CallsOfType
<1> QED BY <1>1, <1>8, <1>9

LEMMA Bases ==
    ASSUME NEW c \in Comms, NEW n \in Nat
    PROVE  /\ Base(c, n) \in Nat /\ Count(c, n) \in {0, 1, 2, 3}
           /\ Base(c, n + 1) = Base(c, n) + Count(c, n)
<1>1. Base(c, n) \in Nat
    <2>1. n # 0 => n - 1 \in Nat
        OBVIOUS
    <2> QED BY <2>1, CourseGood DEF Base
<1>2. Count(c, n) \in {0, 1, 2, 3}
    BY CallsOfType DEF Count
<1>3. n + 1 # 0 /\ (n + 1) - 1 = n
    OBVIOUS
<1>4. Base(c, n + 1) = Course[n].calls[c]
    BY <1>3 DEF Base
<1>5. CASE n = 0
    <2>1. Course[0].calls[c] = IF c \in {"world", "fsdp"} THEN 1 ELSE 0
        <3>1. Course[0] = Start
            BY CourseIs
        <3> QED BY <3>1 DEF Start
    <2>2. Base(c, n) = 0 /\ Count(c, n) = IF c \in {"world", "fsdp"} THEN 1 ELSE 0
        BY <1>5 DEF Base, Count
    <2> QED BY <1>1, <1>2, <1>4, <1>5, <2>1, <2>2
<1>6. CASE n # 0
    <2>1. Course[n] = Onward(surface, Course[n - 1])
        BY <1>6, CourseIs
    <2>2. Course[n].calls[c] = Course[n - 1].calls[c] + CallsOf(c, MeAt(n))
        <3> DEFINE past == Course[n - 1]
                   st == After(past.st, StepClass(surface, past.st))
                   me == Undisturbed(st, past.last)
        <3>1. /\ Onward(surface, past).st = st
              /\ Onward(surface, past).calls = [k \in Comms |-> past.calls[k] + CallsOf(k, me)]
            <4>1. Onward(surface, past) =
                    [st |-> st,
                     last |-> IF SaveDue(me) THEN st.consumed ELSE past.last,
                     calls |-> [k \in Comms |-> past.calls[k] + CallsOf(k, me)]]
                BY DEF Onward
            <4> HIDE DEF st, me, past
            <4> QED BY <4>1
        <3>2. At(n) = st
            BY <2>1, <3>1 DEF At
        <3>3. MeAt(n) = me
            BY <3>2 DEF MeAt
        <3> HIDE DEF me, st
        <3>4. Course[n].calls = [k \in Comms |-> past.calls[k] + CallsOf(k, me)]
            BY <2>1, <3>1
        <3>5. Course[n].calls[c] = past.calls[c] + CallsOf(c, me)
            BY <3>4
        <3> QED BY <3>3, <3>5
    <2>3. Base(c, n) = Course[n - 1].calls[c] /\ Count(c, n) = CallsOf(c, MeAt(n))
        BY <1>6 DEF Base, Count
    <2> QED BY <1>1, <1>2, <1>4, <2>2, <2>3
<1> QED BY <1>1, <1>2, <1>5, <1>6

LEMMA BaseMonotone ==
    ASSUME NEW c \in Comms, NEW m \in Nat, NEW n \in Nat, m < n
    PROVE  Base(c, m) + Count(c, m) <= Base(c, n)
<1> DEFINE Bad == {k \in Nat : m < k /\ ~(Base(c, m) + Count(c, m) <= Base(c, k))}
<1> SUFFICES ASSUME Bad # {} PROVE FALSE
    OBVIOUS
<1>1. PICK j \in Bad : \A i \in Bad : j <= i
    <2>1. Bad \in SUBSET Nat
        OBVIOUS
    <2> HIDE DEF Bad
    <2> QED BY <2>1, LeastNat
<1>2. j - 1 \in Nat /\ j - 1 \notin Bad /\ (j - 1) + 1 = j /\ m <= j - 1 /\ j \in Nat
    BY <1>1
<1>3. /\ Base(c, j) = Base(c, j - 1) + Count(c, j - 1) /\ Count(c, j - 1) \in Nat
      /\ Base(c, j - 1) \in Nat
    <2>1. /\ Base(c, (j - 1) + 1) = Base(c, j - 1) + Count(c, j - 1)
          /\ Count(c, j - 1) \in {0, 1, 2, 3} /\ Base(c, j - 1) \in Nat
        BY <1>2, Bases
    <2> QED BY <1>2, <2>1
<1>4. Base(c, m) \in Nat /\ Count(c, m) \in Nat
    BY Bases
<1>5. CASE m = j - 1
    BY <1>1, <1>3, <1>5
<1>6. CASE m # j - 1
    <2>1. Base(c, m) + Count(c, m) <= Base(c, j - 1)
        BY <1>2, <1>6
    <2> QED BY <1>1, <1>3, <1>4, <2>1
<1> QED BY <1>5, <1>6

-----------------------------------------------------------------------------
(* Ranks at different places *)

LEMMA MadeType ==
    ASSUME NEW c \in Comms, NEW place \in Places
    PROVE  Made(c, place) \in {0, 1, 2, 3}
BY DEF Made, Comms

LEMMA SavesHash == ASSUME NEW n, SavesAt(n) PROVE HashesAt(n)
BY DEF SavesAt, HashesAt, SaveDue, HashNeeded, MeAt, Undisturbed

\* Unless the job leaves in this iteration a rank makes no call that does not
\* belong to it.
LEMMA Within ==
    ASSUME NEW n \in Nat, NEW place \in Places, PaceInv(n, place), n = 0 \/ ~Stops(n),
           NEW c \in Comms
    PROVE  Made(c, place) <= Count(c, n)
<1>1. CASE n = 0
    <2>1. place \in {"start", "guard", "init"}
        BY <1>1 DEF PaceInv, Starting
    <2>2. Count(c, n) = IF c \in {"world", "fsdp"} THEN 1 ELSE 0
        BY <1>1 DEF Count
    <2> QED BY <2>1, <2>2 DEF Made, Comms, Decided, Hashing, Saving
<1>2. CASE n # 0
    <2>1. /\ place \in Hashing => HashesAt(n)
          /\ place \in Saving => SavesAt(n)
          /\ place # "exited" /\ place \notin Starting
        BY <1>2 DEF PaceInv
    <2>2. Count(c, n) = CallsOf(c, MeAt(n))
        BY <1>2 DEF Count
    <2>3. CASE c \in {"world", "fsdp", "dp_replicate"}
        <3>1. CASE c = "world"
            BY <2>1, <2>2, <3>1 DEF Made, CallsOf
        <3>2. CASE c = "fsdp"
            BY <2>1, <2>2, <3>2 DEF Made, CallsOf
        <3>3. CASE c = "dp_replicate"
            BY <2>1, <2>2, <3>3 DEF Made, CallsOf
        <3> QED BY <2>3, <3>1, <3>2, <3>3
    <2>4. CASE c = "dp_gloo"
        <3>1. CallsOf(c, MeAt(n)) = IF SavesAt(n) THEN 3 ELSE IF HashesAt(n) THEN 2 ELSE 0
            BY <2>4 DEF CallsOf, SavesAt, HashesAt
        <3>2. Made(c, place) = IF place = "state" THEN 1 ELSE IF place = "batch" THEN 2
                                  ELSE IF place \in Saving \cup {"exited"} THEN 3 ELSE 0
            BY <2>4 DEF Made
        <3> QED BY <2>1, <2>2, <3>1, <3>2 DEF Hashing
    <2>5. CASE c = "ckpt"
        <3>1. CallsOf(c, MeAt(n)) = IF SavesAt(n) THEN 2 ELSE 0
            BY <2>5 DEF CallsOf, SavesAt
        <3>2. Made(c, place) = IF place = "shards" THEN 1
                                  ELSE IF place \in {"files", "seal", "exited"} THEN 2 ELSE 0
            BY <2>5 DEF Made
        <3> QED BY <2>1, <2>2, <3>1, <3>2 DEF Saving
    <2> QED BY <2>3, <2>4, <2>5 DEF Comms
<1> QED BY <1>1, <1>2

\* The i-th call of iteration n on a communicator can be the i-th call of this
\* iteration only, wherever the rank that makes it stands.
LEMMA Lookup ==
    ASSUME NEW p \in Ranks, NEW m \in Nat, NEW pl \in Places, RankInv(p, m, pl),
           NEW n \in Nat, \A j \in 1 .. n - 1 : ~Stops(j), NEW c \in Comms, NEW i \in Nat \ {0},
           n = 0 \/ ~Stops(n) => i <= Count(c, n),
           Len(calls[p][c]) >= Base(c, n) + i
    PROVE  /\ IsCall(calls[p][c][Base(c, n) + i], c, p, n, i)
           /\ m = n => i <= Made(c, pl)
           /\ m >= n
           /\ m > n => n = 0 \/ ~Stops(n)
<1>1. LogInv(p, m, pl) /\ PaceInv(m, pl)
    BY DEF RankInv
<1>2. /\ Len(calls[p][c]) = Base(c, m) + Made(c, pl)
      /\ \A k \in 0 .. m - 1 : \A j \in 1 .. Count(c, k) :
            IsCall(calls[p][c][Base(c, k) + j], c, p, k, j)
      /\ \A j \in 1 .. Made(c, pl) : IsCall(calls[p][c][Base(c, m) + j], c, p, m, j)
    BY <1>1 DEF LogInv, LogIs
<1>3. /\ Base(c, m) \in Nat /\ Base(c, n) \in Nat /\ Made(c, pl) \in {0, 1, 2, 3}
      /\ Count(c, m) \in {0, 1, 2, 3} /\ Count(c, n) \in {0, 1, 2, 3}
    BY Bases, MadeType
<1>4. m >= n
    <2> SUFFICES ASSUME m < n PROVE FALSE
        OBVIOUS
    <2>1. m = 0 \/ ~Stops(m)
        OBVIOUS
    <2>2. Made(c, pl) <= Count(c, m)
        BY <1>1, <2>1, Within
    <2>3. Base(c, m) + Count(c, m) <= Base(c, n)
        BY BaseMonotone
    <2> QED BY <1>2, <1>3, <2>2, <2>3
<1>5. CASE m = n
    <2>1. i \in 1 .. Made(c, pl)
        BY <1>2, <1>3, <1>5
    <2> QED BY <1>2, <1>5, <2>1
<1>6. CASE m > n
    <2>1. n = 0 \/ ~Stops(n)
        BY <1>1, <1>6 DEF PaceInv
    <2>2. i \in 1 .. Count(c, n) /\ n \in 0 .. m - 1
        BY <1>3, <1>6, <2>1
    <2> QED BY <1>2, <1>6, <2>1, <2>2
<1> QED BY <1>4, <1>5, <1>6

Named == {"guard", "init", "scatter", "replicate", "norm", "loss", "exit", "state",
          "batch", "saveBatch", "shards", "files"}

\* A collective is where a rank stands while it is in it.
LEMMA KindPlace ==
    ASSUME NEW kind \in Named, NEW n \in Nat, n = 0 <=> kind \in Starting
    PROVE  /\ CommOf(kind) \in Comms /\ kind \in Places
           /\ Made(CommOf(kind), kind) \in {1, 2, 3}
           /\ Kinds(CommOf(kind), n)[Made(CommOf(kind), kind)] = kind
<1>1. CASE kind \in {"guard", "init"}
    BY <1>1 DEF CommOf, Comms, Made, Kinds, Places, Starting
<1>2. CASE kind \in {"scatter", "norm"}
    BY <1>2 DEF CommOf, Comms, Made, Kinds, Places, Starting, Stepping, Taking
<1>3. CASE kind = "replicate"
    BY <1>3 DEF CommOf, Comms, Made, Kinds, Places, Starting, Stepping, Taking
<1>4. CASE kind \in {"loss", "exit"}
    BY <1>4 DEF CommOf, Comms, Made, Kinds, Places, Starting, Stepping, Taking
<1>5. CASE kind \in {"state", "batch"}
    BY <1>5 DEF CommOf, Comms, Made, Kinds, Places, Starting, Stepping, Decided, Hashing
<1>6. CASE kind = "saveBatch"
    BY <1>6 DEF CommOf, Comms, Made, Kinds, Places, Starting, Stepping, Decided, Saving
<1>7. CASE kind \in {"shards", "files"}
    BY <1>7 DEF CommOf, Comms, Made, Kinds, Places, Starting, Stepping, Decided, Saving
<1> QED BY <1>1, <1>2, <1>3, <1>4, <1>5, <1>6, <1>7 DEF Named

LEMMA PeersAre ==
    ASSUME NEW c \in Comms, NEW r \in Ranks
    PROVE  Peers(c, r) \subseteq Ranks /\ r \in Peers(c, r)
<1>1. CASE c = "fsdp"
    BY <1>1 DEF Peers
<1>2. CASE c = "dp_replicate"
    BY <1>2 DEF Peers
<1>3. CASE c \in {"world", "dp_gloo", "ckpt"}
    BY <1>3 DEF Peers
<1> QED BY <1>1, <1>2, <1>3 DEF Comms

\* A completed collective hands a rank what its peers pass in that iteration.
LEMMA GatheredIs ==
    ASSUME \A p \in Ranks : \E m \in Nat, pl \in Places : RankInv(p, m, pl),
           NEW r \in Ranks, NEW kind \in Named, NEW n \in Nat, RankInv(r, n, kind),
           Completed(r, kind), NEW c, c = CommOf(kind), NEW i, i = Made(c, kind)
    PROVE  /\ \A p \in Peers(c, r) :
                 /\ Len(calls[p][c]) >= Base(c, n) + i
                 /\ IsCall(calls[p][c][Base(c, n) + i], c, p, n, i)
           /\ Len(calls[r][c]) = Base(c, n) + i
           /\ Gathered(r, kind) = [p \in Peers(c, r) |-> calls[p][c][Base(c, n) + i].gives]
           /\ kind # "exit" => Gathered(r, kind) = [p \in Peers(c, r) |-> Gives(p, n, kind)]
<1>1. /\ c \in Comms /\ i \in {1, 2, 3} /\ Kinds(c, n)[i] = kind
      /\ LogInv(r, n, kind) /\ PaceInv(n, kind)
    <2>1. LogInv(r, n, kind) /\ PaceInv(n, kind)
        BY DEF RankInv
    <2>2. n = 0 <=> kind \in Starting
        BY <2>1 DEF PaceInv
    <2> QED BY <2>1, <2>2, KindPlace
<1>2. Len(calls[r][c]) = Base(c, n) + i
    BY <1>1 DEF LogInv, LogIs
<1>3. \A p \in Peers(c, r) : Len(calls[p][c]) >= Base(c, n) + i
    BY <1>2 DEF Completed
<1>4. ASSUME NEW p \in Peers(c, r)
      PROVE  IsCall(calls[p][c][Base(c, n) + i], c, p, n, i)
    <2>1. p \in Ranks
        BY <1>1, PeersAre
    <2>2. PICK m \in Nat, pl \in Places : RankInv(p, m, pl)
        BY <2>1
    <2>3. \A j \in 1 .. n - 1 : ~Stops(j)
        BY <1>1 DEF PaceInv
    <2>4. n = 0 \/ ~Stops(n) => i <= Count(c, n)
        <3>1. kind \in Places
            BY DEF RankInv
        <3> QED BY <1>1, <3>1, Within
    <2>5. i \in Nat \ {0} /\ Len(calls[p][c]) >= Base(c, n) + i
        BY <1>1, <1>3
    <2> QED BY <1>1, <2>1, <2>2, <2>3, <2>4, <2>5, Lookup
<1>5. Gathered(r, kind) = [p \in Peers(c, r) |-> calls[p][c][Base(c, n) + i].gives]
    <2>1. {q \in Peers(c, r) : Len(calls[q][c]) >= Base(c, n) + i} = Peers(c, r)
        BY <1>3
    <2> QED BY <1>2, <2>1 DEF Gathered
<1>6. ASSUME kind # "exit"
      PROVE  Gathered(r, kind) = [p \in Peers(c, r) |-> Gives(p, n, kind)]
    <2>1. \A p \in Peers(c, r) : calls[p][c][Base(c, n) + i].gives = Gives(p, n, kind)
        <3> SUFFICES ASSUME NEW p \in Peers(c, r)
                     PROVE  calls[p][c][Base(c, n) + i].gives = Gives(p, n, kind)
            OBVIOUS
        <3> DEFINE call == calls[p][c][Base(c, n) + i]
        <3>1. IsCall(call, c, p, n, i)
            BY <1>4
        <3> HIDE DEF call
        <3>2. call.gives = Gives(p, n, kind)
            BY <1>1, <1>6, <3>1 DEF IsCall
        <3> QED BY <3>2 DEF call
    <2> QED BY <1>5, <2>1
<1> QED BY <1>2, <1>3, <1>4, <1>5, <1>6

-----------------------------------------------------------------------------
(* What a step of one rank leaves to the others *)

Grows ==
    /\ surface' = surface /\ seen' = seen
    /\ \A p \in Ranks :
          /\ Len(calls[p]["world"]) \in Nat
          /\ Len(calls'[p]["world"]) >= Len(calls[p]["world"])
          /\ \A i \in 1 .. Len(calls[p]["world"]) :
                calls'[p]["world"][i] = calls[p]["world"][i]
    /\ \A m \in DOMAIN dirs :
          /\ m \in DOMAIN dirs'
          /\ \A p \in Ranks : HasPut(dirs[m], p, m) => HasPut(dirs'[m], p, m)
          /\ dirs[m].files = FilesAt(m) => dirs'[m].files = FilesAt(m)

LEMMA Frozen ==
    ASSUME surface' = surface
    PROVE  Course' = Course /\ LockstepRun' = LockstepRun
<1>1. Course' = Course
    BY DEF Course
<1>2. LockstepRun' = LockstepRun
    BY DEF LockstepRun
<1> QED BY <1>1, <1>2

LEMMA FrozenFacts ==
    ASSUME surface' = surface, seen' = seen
    PROVE  /\ \A n : /\ At(n)' = At(n) /\ MeAt(n)' = MeAt(n) /\ SavesAt(n)' = SavesAt(n)
                     /\ HashesAt(n)' = HashesAt(n) /\ ClassAt(n)' = ClassAt(n)
                     /\ BatchesAt(n)' = BatchesAt(n) /\ BegunAt(n)' = BegunAt(n)
                     /\ Canonical(n)' = Canonical(n) /\ FilesAt(n)' = FilesAt(n)
                     /\ TensorsAt(n)' = TensorsAt(n)
                     /\ (Course[n - 1].last)' = Course[n - 1].last
           /\ \A c, n : Base(c, n)' = Base(c, n) /\ Count(c, n)' = Count(c, n)
           /\ \A r, n : LossAt(r, n)' = LossAt(r, n)
           /\ \A r, n, kind : Gives(r, n, kind)' = Gives(r, n, kind)
           /\ \A n, place : HeldAt(n, place)' = HeldAt(n, place)
<1>1. Course' = Course /\ LockstepRun' = LockstepRun
    BY Frozen
<1>2. \A n : At(n)' = At(n) /\ MeAt(n)' = MeAt(n) /\ (Course[n - 1].last)' = Course[n - 1].last
    BY <1>1 DEF At, MeAt
<1>3. \A n : SavesAt(n)' = SavesAt(n) /\ HashesAt(n)' = HashesAt(n)
    BY <1>2 DEF SavesAt, HashesAt
<1>4. \A n : ClassAt(n)' = ClassAt(n) /\ BatchesAt(n)' = BatchesAt(n) /\ BegunAt(n)' = BegunAt(n)
    BY <1>2 DEF ClassAt, BatchesAt, BegunAt
<1>5. \A n : Canonical(n)' = Canonical(n)
    BY <1>1 DEF Canonical, LockstepAt
<1>6. \A c, n : Base(c, n)' = Base(c, n) /\ Count(c, n)' = Count(c, n)
    BY <1>1, <1>2 DEF Base, Count
<1>7. \A r, n : ShareAt(r, n)' = ShareAt(r, n) /\ DataAt(r, n)' = DataAt(r, n)
    BY <1>2, <1>4 DEF ShareAt, DataAt
<1>8. \A r, n : LossAt(r, n)' = LossAt(r, n)
    BY <1>7 DEF LossAt, ClassOf
<1>9. \A r, n : PartAt(r, n)' = PartAt(r, n)
    BY <1>7, <1>8 DEF PartAt
<1>10. \A n : PartsAt(n)' = PartsAt(n)
    BY <1>9 DEF PartsAt
<1>11. \A r, n, kind : Gives(r, n, kind)' = Gives(r, n, kind)
    BY <1>2, <1>4, <1>7, <1>8, <1>9, <1>10 DEF Gives
<1>12. \A n : FilesAt(n)' = FilesAt(n) /\ TensorsAt(n)' = TensorsAt(n)
    BY <1>2, <1>11 DEF FilesAt, TensorsAt
<1>13. \A n, place : HeldAt(n, place)' = HeldAt(n, place)
    BY <1>2, <1>4 DEF HeldAt
<1> QED BY <1>2, <1>3, <1>4, <1>5, <1>6, <1>8, <1>11, <1>12, <1>13

\* What the exit check of a step has agreed on stays agreed.
LEMMA AgreementStays ==
    ASSUME Grows, NEW n \in Nat, AllPassed(n)
    PROVE  AllPassed(n)' /\ Stops(n)' = Stops(n)
<1> DEFINE e == Base("world", n) + 2
<1>1. e' = e /\ e \in Nat \ {0}
    <2>1. "world" \in Comms
        BY DEF Comms
    <2>2. Base("world", n)' = Base("world", n)
        BY FrozenFacts DEF Grows
    <2> QED BY <2>1, <2>2, Bases
<1>2. \A p \in Ranks : /\ Len(calls'[p]["world"]) >= Len(calls[p]["world"])
                       /\ Len(calls[p]["world"]) >= e
                       /\ calls'[p]["world"][e] = calls[p]["world"][e]
    BY <1>1 DEF Grows, AllPassed
<1>3. AllPassed(n)' <=> \A p \in Ranks : Len(calls'[p]["world"]) >= e
    BY <1>1 DEF AllPassed
<1>4. AllPassed(n)'
    BY <1>1, <1>2, <1>3
<1>5. (\E p \in Ranks : calls'[p]["world"][e].gives)
         = (\E p \in Ranks : calls[p]["world"][e].gives)
    BY <1>2
<1>6. Stops(n)' = (\E p \in Ranks : calls'[p]["world"][e].gives)
    BY <1>1 DEF Stops
<1>7. Stops(n) = (\E p \in Ranks : calls[p]["world"][e].gives)
    BY DEF Stops
<1> QED BY <1>4, <1>5, <1>6, <1>7

LEMMA PaceStays ==
    ASSUME Grows, NEW n \in Nat, NEW place, PaceInv(n, place)
    PROVE  PaceInv(n, place)'
<1>1. /\ n = 0 <=> place \in Starting
      /\ \A m \in 1 .. n - 1 : AllPassed(m) /\ ~Stops(m)
      /\ place \in Decided => AllPassed(n)
      /\ place \in Hashing => HashesAt(n) \/ Stops(n)
      /\ place \in Saving => SavesAt(n) \/ Stops(n)
      /\ place = "exited" => Stops(n)
    BY DEF PaceInv
<1>2. HashesAt(n)' = HashesAt(n) /\ SavesAt(n)' = SavesAt(n)
    BY FrozenFacts DEF Grows
<1>3. \A m \in 1 .. n - 1 : AllPassed(m)' /\ ~Stops(m)'
    <2> SUFFICES ASSUME NEW m \in 1 .. n - 1 PROVE AllPassed(m)' /\ ~Stops(m)'
        OBVIOUS
    <2>1. m \in Nat /\ AllPassed(m) /\ ~Stops(m)
        BY <1>1
    <2> QED BY <2>1, AgreementStays
<1>4. CASE place \notin Decided
    BY <1>1, <1>3, <1>4 DEF PaceInv, Decided
<1>5. CASE place \in Decided
    <2>1. AllPassed(n)' /\ Stops(n)' = Stops(n)
        BY <1>1, <1>5, AgreementStays
    <2> QED BY <1>1, <1>2, <1>3, <2>1 DEF PaceInv
<1> QED BY <1>4, <1>5

\* A log or a directory is what it is whatever else changed.
LEMMA LogFrozen ==
    ASSUME surface' = surface, seen' = seen, NEW r, NEW n, NEW place,
           LogIs(calls'[r], r, n, place)
    PROVE  LogInv(r, n, place)'
<1>1. /\ \A c, m : Base(c, m)' = Base(c, m) /\ Count(c, m)' = Count(c, m)
      /\ \A m, kind : Gives(r, m, kind)' = Gives(r, m, kind)
    BY FrozenFacts
<1>2. \A call, c, m, i : IsCall(call, c, r, m, i)' = IsCall(call, c, r, m, i)
    BY <1>1 DEF IsCall
<1> QED BY <1>1, <1>2 DEF LogInv, LogIs

LEMMA MemFrozen ==
    ASSUME Grows, NEW n \in Nat, NEW place, NEW r \in Ranks, PaceInv(n, place),
           MemInv(rank'[r], r, n, place)
    PROVE  MemInv(rank[r], r, n, place)'
<1>1. /\ HeldAt(n, place)' = HeldAt(n, place) /\ BatchesAt(n)' = BatchesAt(n)
      /\ LossAt(r, n)' = LossAt(r, n) /\ (Course[n - 1].last)' = Course[n - 1].last
      /\ Canonical(n)' = Canonical(n) /\ At(n - 1)' = At(n - 1) /\ ClassAt(n)' = ClassAt(n)
      /\ \A p, kind : Gives(p, n, kind)' = Gives(p, n, kind)
    BY FrozenFacts DEF Grows
<1>2. place \in Hashing \cup Saving => Stops(n)' = Stops(n)
    BY AgreementStays DEF PaceInv, Decided
<1> QED BY <1>1, <1>2 DEF MemInv

LEMMA DirFrozen ==
    ASSUME surface' = surface, seen' = seen
    PROVE  /\ \A m : SavesAt(m)' = SavesAt(m) /\ FilesAt(m)' = FilesAt(m)
           /\ \A d, p, m : HasPut(d, p, m)' = HasPut(d, p, m)
           /\ \A m : DirInv(m, dirs'[m]) => DirInv(m, dirs[m])'
           /\ \A r, n, place : PutIs(dirs', r, n, place) => PutInv(r, n, place)'
<1>1. \A m : /\ SavesAt(m)' = SavesAt(m) /\ FilesAt(m)' = FilesAt(m)
             /\ Canonical(m)' = Canonical(m) /\ TensorsAt(m)' = TensorsAt(m)
    BY FrozenFacts
<1>2. \A d, p, m : HasPut(d, p, m)' = HasPut(d, p, m)
    BY <1>1 DEF HasPut
<1>3. \A m : DirInv(m, dirs'[m]) => DirInv(m, dirs[m])'
    BY <1>1, <1>2 DEF DirInv
<1>4. \A r, n, place : PutIs(dirs', r, n, place) => PutInv(r, n, place)'
    BY <1>1, <1>2 DEF PutInv, PutIs
<1> QED BY <1>1, <1>2, <1>3, <1>4

LEMMA PutStays ==
    ASSUME Grows, NEW n \in Nat, NEW place, NEW r \in Ranks, PutInv(r, n, place)
    PROVE  PutIs(dirs', r, n, place)
BY DEF PutInv, PutIs, Grows

-----------------------------------------------------------------------------
(* A step's positions, its shares and the class of its gradient *)

LEMMA ShareOfPositions ==
    ASSUME NEW pos \in Nat, NEW c, NEW R, R = Rounds(c)
    PROVE  /\ \A r \in Ranks : \A k \in 1 .. R :
                 pos + (k - 1) * World + r \in pos .. pos + R * World - 1
           /\ \A q \in pos .. pos + R * World - 1 :
                 \E r \in Ranks : \E k \in 1 .. R : q = pos + (k - 1) * World + r
<1>1. R \in Nat /\ World \in Nat \ {0} /\ R * World \in Nat
    <2>1. R \in Nat /\ World \in Nat \ {0}
        BY RoundsPositive, Sizes
    <2>2. \A a, b \in Nat : a * b \in Nat
        OBVIOUS
    <2> QED BY <2>1, <2>2
<1>2. ASSUME NEW r \in Ranks, NEW k \in 1 .. R
      PROVE  pos + (k - 1) * World + r \in pos .. pos + R * World - 1
    <2>1. r \in Nat /\ r <= World - 1
        BY <1>1 DEF Ranks
    <2>2. PICK d \in Nat : R = k + d
        <3>1. R - k \in Nat /\ R = k + (R - k)
            BY <1>1
        <3> QED BY <3>1
    <2>3. R * World = (k - 1) * World + World + d * World
        <3>1. \A a, b \in Nat : (a + 1 + b) * World = a * World + World + b * World
            BY <1>1
        <3>2. k - 1 \in Nat /\ R = (k - 1) + 1 + d
            BY <2>2
        <3> QED BY <2>2, <3>1, <3>2
    <2> DEFINE x == (k - 1) * World
               y == d * World
    <2>4. x \in Nat /\ y \in Nat
        <3>1. \A a \in Nat : a * World \in Nat
            BY <1>1
        <3>2. k - 1 \in Nat
            OBVIOUS
        <3> QED BY <2>2, <3>1, <3>2
    <2> HIDE DEF x, y
    <2>5. R * World = x + World + y
        BY <2>3 DEF x, y
    <2>6. pos + x + r \in pos .. pos + R * World - 1
        BY <1>1, <2>1, <2>4, <2>5
    <2> QED BY <2>6 DEF x
<1>3. ASSUME NEW q \in pos .. pos + R * World - 1
      PROVE  \E r \in Ranks : \E k \in 1 .. R : q = pos + (k - 1) * World + r
    <2> DEFINE d == q - pos
               t == d \div World
               r == d % World
    <2>1. d \in Nat /\ d < R * World
        BY <1>1
    <2>2. t \in Nat /\ r \in 0 .. World - 1 /\ d = World * t + r
        <3> HIDE DEF d
        <3> QED BY <1>1, <2>1
    <2> HIDE DEF t, r
    <2>3. World * t = t * World
        BY <1>1, <2>2
    <2>4. t < R
        <3> SUFFICES ASSUME R <= t PROVE FALSE
            BY <1>1, <2>2
        <3>1. PICK e \in Nat : t = R + e
            <4>1. t - R \in Nat /\ t = R + (t - R)
                BY <1>1, <2>2
            <4> QED BY <4>1
        <3>2. t * World = R * World + e * World /\ e * World \in Nat
            <4>1. \A a, b \in Nat : (a + b) * World = a * World + b * World /\ b * World \in Nat
                BY <1>1
            <4> QED BY <1>1, <3>1, <4>1
        <3> DEFINE x == R * World
                   y == e * World
                   z == t * World
        <3>3. x \in Nat /\ y \in Nat /\ z = x + y /\ d = z + r /\ d < x
            BY <1>1, <2>1, <2>2, <2>3, <3>2
        <3> HIDE DEF x, y, z
        <3> QED BY <2>1, <2>2, <3>3
    <2>5. r \in Ranks /\ t + 1 \in 1 .. R /\ (t + 1) - 1 = t
        BY <1>1, <2>2, <2>4 DEF Ranks
    <2>6. q = pos + ((t + 1) - 1) * World + r
        <3>1. q = pos + d
            BY <1>1
        <3> DEFINE z == t * World
        <3>2. d = z + r /\ z \in Nat
            <4>1. t * World \in Nat
                BY <1>1, <2>2
            <4> QED BY <2>2, <2>3, <4>1
        <3> HIDE DEF z, d
        <3>3. q = pos + z + r
            BY <2>2, <3>1, <3>2
        <3> QED BY <2>5, <3>3 DEF z
    <2> QED BY <2>5, <2>6
<1> QED BY <1>2, <1>3

LEMMA WorstIs ==
    ASSUME NEW S
    PROVE  /\ Worst(S) \in {"nan", "spike", "calm"}
           /\ Worst(S) = "nan" <=> "nan" \in S
           /\ Worst(S) = "spike" <=> "nan" \notin S /\ "spike" \in S
BY DEF Worst

LEMMA AtFacts ==
    ASSUME NEW n \in Nat \ {0}
    PROVE  /\ n - 1 \in Nat /\ (n - 1) + 1 = n
           /\ GoodBoundary(At(n - 1), n - 1) /\ GoodBoundary(At(n), n)
           /\ At(n - 1).pos \in Nat /\ At(n - 1).consumed \in Nat
           /\ At(n) = After(At(n - 1), ClassAt(n))
           /\ BatchesAt(n) \in Seq(Nat)
           /\ Len(BatchesAt(n)) = Rounds(At(n - 1).consumed)
           /\ \A r \in Ranks : ShareAt(r, n) \in Seq(Nat) /\ Len(ShareAt(r, n)) = Len(BatchesAt(n))
<1>1. n - 1 \in Nat /\ (n - 1) + 1 = n /\ n \in Nat
    OBVIOUS
<1>2. GoodBoundary(At(n - 1), n - 1) /\ GoodBoundary(At(n), n)
    BY <1>1, CourseGood
<1>3. At(n - 1).pos \in Nat /\ At(n - 1).consumed \in Nat
    BY <1>2 DEF GoodBoundary
<1>4. At(n) = After(At(n - 1), ClassAt(n))
    <2>1. Course[n] = Onward(surface, Course[n - 1])
        BY <1>1, CourseIs
    <2> QED BY <2>1 DEF Onward, At, ClassAt
<1>5. BatchesAt(n) \in Seq(Nat) /\ Len(BatchesAt(n)) = Rounds(At(n - 1).consumed)
    BY <1>3, BatchesType DEF BatchesAt
<1>6. \A r \in Ranks : ShareAt(r, n) \in Seq(Nat) /\ Len(ShareAt(r, n)) = Len(BatchesAt(n))
    <2>1. \A r \in Ranks : r \in Nat
        BY Sizes
    <2> QED BY <1>5, <2>1, ShareFacts DEF ShareAt
<1> QED BY <1>1, <1>2, <1>3, <1>4, <1>5, <1>6

-----------------------------------------------------------------------------
(* A step of one rank *)

LogTyped(log) ==
    /\ log = [c \in Comms |-> log[c]]
    /\ \A c \in Comms : /\ log[c] = [i \in 1 .. Len(log[c]) |-> log[c][i]]
                        /\ Len(log[c]) \in Nat

\* What a collective adds to a rank's log.
Added(log, kind, gives) ==
    [c \in Comms |-> IF c = CommOf(kind) THEN Append(log[c], [kind |-> kind, gives |-> gives])
                                         ELSE log[c]]

\* A log that is another one or continues it.
Continues(log, old) ==
    /\ Len(log["world"]) >= Len(old["world"])
    /\ \A i \in 1 .. Len(old["world"]) : log["world"][i] = old["world"][i]

\* Rank r comes to hold me and log, the volume ds.
Becomes(r, me, log, ds) ==
    /\ surface' = surface /\ seen' = seen
    /\ rank' = [p \in Ranks |-> IF p = r THEN me ELSE rank[p]]
    /\ calls' = [p \in Ranks |-> IF p = r THEN log ELSE calls[p]]
    /\ dirs' = ds

Keeps(ds) ==
    /\ \A m \in DOMAIN ds : m \in Nat /\ DirInv(m, ds[m])
    /\ \A m \in DOMAIN dirs :
          /\ m \in DOMAIN ds
          /\ \A p \in Ranks : HasPut(dirs[m], p, m) => HasPut(ds[m], p, m)
          /\ dirs[m].files = FilesAt(m) => ds[m].files = FilesAt(m)

Settled(r, n, place, me, log, ds) ==
    /\ n \in Nat /\ place \in Places
    /\ LogIs(log, r, n, place) /\ PaceInv(n, place) /\ MemInv(me, r, n, place)
    /\ PutIs(ds, r, n, place)

LEMMA LogsTyped ==
    ASSUME NEW log, NEW r, NEW n \in Nat, NEW place \in Places, LogIs(log, r, n, place)
    PROVE  \A c \in Comms : /\ log[c] = [i \in 1 .. Len(log[c]) |-> log[c][i]]
                            /\ Len(log[c]) \in Nat
<1> SUFFICES ASSUME NEW c \in Comms
             PROVE  /\ log[c] = [i \in 1 .. Len(log[c]) |-> log[c][i]]
                    /\ Len(log[c]) \in Nat
    OBVIOUS
<1>1. Base(c, n) \in Nat /\ Made(c, place) \in {0, 1, 2, 3}
    BY Bases, MadeType
<1>2. /\ log[c] = [i \in 1 .. Len(log[c]) |-> log[c][i]]
      /\ Len(log[c]) = Base(c, n) + Made(c, place)
    BY DEF LogIs
<1> QED BY <1>1, <1>2

LEMMA CallsTyped ==
    ASSUME LockInv, NEW r \in Ranks
    PROVE  LogTyped(calls[r])
<1>1. PICK n \in Nat, place \in Places : RankInv(r, n, place)
    BY DEF LockInv
<1>2. LogIs(calls[r], r, n, place)
    BY <1>1 DEF RankInv, LogInv
<1>3. \A c \in Comms : /\ calls[r][c] = [i \in 1 .. Len(calls[r][c]) |-> calls[r][c][i]]
                       /\ Len(calls[r][c]) \in Nat
    <2> DEFINE log == calls[r]
    <2>1. LogIs(log, r, n, place)
        BY <1>2
    <2> HIDE DEF log
    <2>2. \A c \in Comms : /\ log[c] = [i \in 1 .. Len(log[c]) |-> log[c][i]]
                           /\ Len(log[c]) \in Nat
        BY <2>1, LogsTyped
    <2> QED BY <2>2 DEF log
<1>4. calls[r] = [c \in Comms |-> calls[r][c]]
    BY DEF LockInv, Shape
<1> QED BY <1>3, <1>4 DEF LogTyped

\* One rank moves within its part; the others do not notice.
LEMMA RankMoves ==
    ASSUME LockInv, NEW r \in Ranks, NEW me, NEW log, NEW ds, Becomes(r, me, log, ds),
           log = [c \in Comms |-> log[c]], Continues(log, calls[r]), Keeps(ds),
           NEW n, NEW place, Settled(r, n, place, me, log, ds)
    PROVE  LockInv'
<1>1. surface' = surface /\ seen' = seen /\ dirs' = ds
    BY DEF Becomes
<1>2. /\ rank' = [p \in Ranks |-> rank'[p]] /\ rank'[r] = me
      /\ calls' = [p \in Ranks |-> calls'[p]] /\ calls'[r] = log
      /\ \A p \in Ranks : p # r => rank'[p] = rank[p] /\ calls'[p] = calls[p]
    BY DEF Becomes
<1>3. Grows
    <2>1. ASSUME NEW p \in Ranks
          PROVE  /\ Len(calls[p]["world"]) \in Nat
                 /\ Len(calls'[p]["world"]) >= Len(calls[p]["world"])
                 /\ \A i \in 1 .. Len(calls[p]["world"]) :
                       calls'[p]["world"][i] = calls[p]["world"][i]
        <3>1. Len(calls[p]["world"]) \in Nat
            BY CallsTyped DEF LogTyped, Comms
        <3>2. CASE p = r
            BY <1>2, <3>1, <3>2 DEF Continues
        <3>3. CASE p # r
            BY <1>2, <3>1, <3>3
        <3> QED BY <3>2, <3>3, <3>1
    <2>2. \A m \in DOMAIN dirs :
             /\ m \in DOMAIN dirs'
             /\ \A p \in Ranks : HasPut(dirs[m], p, m) => HasPut(dirs'[m], p, m)
             /\ dirs[m].files = FilesAt(m) => dirs'[m].files = FilesAt(m)
        BY <1>1 DEF Keeps
    <2> QED BY <1>1, <2>1, <2>2 DEF Grows
<1>4. Shape'
    <2>1. \A p \in Ranks : calls'[p] = [c \in Comms |-> calls'[p][c]]
        <3> SUFFICES ASSUME NEW p \in Ranks PROVE calls'[p] = [c \in Comms |-> calls'[p][c]]
            OBVIOUS
        <3>1. CASE p = r
            BY <1>2, <3>1
        <3>2. CASE p # r
            BY <1>2, <3>2 DEF LockInv, Shape
        <3> QED BY <3>1, <3>2
    <2>2. calls' = [p \in Ranks |-> [c \in Comms |-> calls'[p][c]]]
        BY <1>2, <2>1
    <2>3. \A m \in DOMAIN dirs' : m \in Nat /\ DirInv(m, dirs[m])'
        <3>1. \A m \in DOMAIN dirs' : m \in Nat /\ DirInv(m, dirs'[m])
            BY <1>1 DEF Keeps
        <3> QED BY <1>1, <3>1, DirFrozen
    <2> QED BY <1>2, <2>2, <2>3 DEF Shape
<1>5. ASSUME NEW p \in Ranks
      PROVE  (\E m \in Nat, pl \in Places : RankInv(p, m, pl))'
    <2>1. CASE p = r
        <3>1. n \in Nat /\ place \in Places /\ PaceInv(n, place)
            BY DEF Settled
        <3>2. LogInv(r, n, place)'
            BY <1>1, <1>2, LogFrozen DEF Settled
        <3>3. PaceInv(n, place)'
            BY <1>3, <3>1, PaceStays
        <3>4. MemInv(rank[r], r, n, place)'
            BY <1>2, <1>3, <3>1, MemFrozen DEF Settled
        <3>5. PutInv(r, n, place)'
            BY <1>1, DirFrozen DEF Settled
        <3>6. RankInv(r, n, place)'
            BY <3>1, <3>2, <3>3, <3>4, <3>5 DEF RankInv
        <3> QED BY <2>1, <3>1, <3>6
    <2>2. CASE p # r
        <3>1. PICK m \in Nat, pl \in Places : RankInv(p, m, pl)
            BY DEF LockInv
        <3>2. /\ LogInv(p, m, pl) /\ PaceInv(m, pl) /\ MemInv(rank[p], p, m, pl)
              /\ PutInv(p, m, pl)
            BY <3>1 DEF RankInv
        <3>3. rank'[p] = rank[p] /\ calls'[p] = calls[p]
            BY <1>2, <2>2
        <3>4. LogInv(p, m, pl)'
            <4>1. LogIs(calls'[p], p, m, pl)
                BY <3>2, <3>3 DEF LogInv
            <4> QED BY <1>1, <4>1, LogFrozen
        <3>5. PaceInv(m, pl)'
            BY <1>3, <3>2, PaceStays
        <3>6. MemInv(rank[p], p, m, pl)'
            <4>1. MemInv(rank'[p], p, m, pl)
                BY <3>2, <3>3
            <4> QED BY <1>3, <3>2, <4>1, MemFrozen
        <3>7. PutInv(p, m, pl)'
            <4>1. PutIs(dirs', p, m, pl)
                BY <1>3, <3>2, PutStays
            <4> QED BY <1>1, <4>1, DirFrozen
        <3>8. RankInv(p, m, pl)'
            BY <3>4, <3>5, <3>6, <3>7 DEF RankInv
        <3> QED BY <3>8
    <2> QED BY <2>1, <2>2
<1> QED BY <1>4, <1>5 DEF LockInv

LEMMA AddedIs ==
    ASSUME NEW r \in Ranks, NEW n \in Nat, NEW place \in Places, NEW log, LogTyped(log),
           LogIs(log, r, n, place), NEW kind \in Named, n = 0 <=> kind \in Starting,
           \A c \in Comms :
               Made(c, kind) = IF c = CommOf(kind) THEN Made(c, place) + 1 ELSE Made(c, place),
           NEW gives,
           IF kind = "exit" THEN gives \in BOOLEAN ELSE gives = Gives(r, n, kind)
    PROVE  /\ LogIs(Added(log, kind, gives), r, n, kind)
           /\ LogTyped(Added(log, kind, gives))
           /\ Continues(Added(log, kind, gives), log)
<1> DEFINE new == Added(log, kind, gives)
           k == CommOf(kind)
           call == [kind |-> kind, gives |-> gives]
<1>1. k \in Comms /\ kind \in Places /\ Kinds(k, n)[Made(k, kind)] = kind
    BY KindPlace
<1>2. \A c \in Comms : Base(c, n) \in Nat /\ Made(c, place) \in {0, 1, 2, 3}
    BY Bases, MadeType
<1>3. \A c \in Comms : new[c] = IF c = k THEN Append(log[c], call) ELSE log[c]
    BY DEF Added
<1>4. new = [c \in Comms |-> new[c]]
    BY DEF Added
<1>5. \A c \in Comms : log[c] = [i \in 1 .. Len(log[c]) |-> log[c][i]] /\ Len(log[c]) \in Nat
    BY DEF LogTyped
<1>6. /\ Len(Append(log[k], call)) = Len(log[k]) + 1
      /\ Append(log[k], call) =
            [i \in 1 .. Len(log[k]) + 1 |-> IF i = Len(log[k]) + 1 THEN call ELSE log[k][i]]
      /\ \A i \in 1 .. Len(log[k]) : Append(log[k], call)[i] = log[k][i]
      /\ Append(log[k], call)[Len(log[k]) + 1] = call
    <2> DEFINE s == log[k]
    <2>1. Len(s) \in Nat /\ s = [i \in 1 .. Len(s) |-> s[i]]
        BY <1>1, <1>5
    <2> HIDE DEF s, call
    <2>2. /\ Len(Append(s, call)) = Len(s) + 1
          /\ Append(s, call) =
                [i \in 1 .. Len(s) + 1 |-> IF i = Len(s) + 1 THEN call ELSE s[i]]
          /\ \A i \in 1 .. Len(s) : Append(s, call)[i] = s[i]
          /\ Append(s, call)[Len(s) + 1] = call
        BY <2>1, AppendFacts
    <2> QED BY <2>2 DEF s
<1>7. IsCall(call, k, r, n, Made(k, kind))
    BY <1>1 DEF IsCall
<1> HIDE DEF new, call
<1>8. /\ Len(new[k]) = Len(log[k]) + 1
      /\ new[k] = [i \in 1 .. Len(new[k]) |-> new[k][i]]
      /\ \A i \in 1 .. Len(log[k]) : new[k][i] = log[k][i]
      /\ new[k][Len(log[k]) + 1] = call
    <2>1. new[k] = Append(log[k], call)
        BY <1>1, <1>3
    <2> DEFINE m == Len(log[k]) + 1
    <2>2. new[k] = [i \in 1 .. m |-> IF i = m THEN call ELSE log[k][i]]
        BY <1>6, <2>1
    <2>3. Len(new[k]) = m
        BY <1>6, <2>1
    <2> HIDE DEF m
    <2>4. new[k] = [i \in 1 .. Len(new[k]) |-> new[k][i]]
        BY <2>2, <2>3
    <2> QED BY <1>6, <2>1, <2>4
<1>9. LogTyped(new)
    <2> SUFFICES ASSUME NEW c \in Comms
                 PROVE  new[c] = [i \in 1 .. Len(new[c]) |-> new[c][i]] /\ Len(new[c]) \in Nat
        BY <1>4 DEF LogTyped
    <2>1. CASE c = k
        BY <1>5, <1>8, <2>1
    <2>2. CASE c # k
        BY <1>3, <1>5, <2>2
    <2> QED BY <2>1, <2>2
<1>10. Continues(new, log)
    <2>1. "world" \in Comms
        BY DEF Comms
    <2>2. CASE k = "world"
        BY <1>5, <1>8, <2>1, <2>2 DEF Continues
    <2>3. CASE k # "world"
        <3>1. new["world"] = log["world"]
            BY <1>3, <2>1, <2>3
        <3> QED BY <1>5, <2>1, <3>1 DEF Continues
    <2> QED BY <2>2, <2>3
<1>11. ASSUME NEW c \in Comms
       PROVE  /\ new[c] = [i \in 1 .. Len(new[c]) |-> new[c][i]]
              /\ Len(new[c]) = Base(c, n) + Made(c, kind)
              /\ \A m \in 0 .. n - 1 : \A i \in 1 .. Count(c, m) :
                    IsCall(new[c][Base(c, m) + i], c, r, m, i)
              /\ \A i \in 1 .. Made(c, kind) : IsCall(new[c][Base(c, n) + i], c, r, n, i)
    <2>1. /\ Len(log[c]) = Base(c, n) + Made(c, place)
          /\ \A m \in 0 .. n - 1 : \A i \in 1 .. Count(c, m) :
                IsCall(log[c][Base(c, m) + i], c, r, m, i)
          /\ \A i \in 1 .. Made(c, place) : IsCall(log[c][Base(c, n) + i], c, r, n, i)
        BY DEF LogIs
    <2>2. new[c] = [i \in 1 .. Len(new[c]) |-> new[c][i]]
        BY <1>9 DEF LogTyped
    <2>3. CASE c # k
        <3>1. new[c] = log[c] /\ Made(c, kind) = Made(c, place)
            BY <1>3, <2>3
        <3> QED BY <2>1, <2>2, <3>1
    <2>4. CASE c = k
        <3>1. Made(c, kind) = Made(c, place) + 1
            BY <1>1, <2>4
        <3>2. Len(new[c]) = Base(c, n) + Made(c, kind)
            BY <1>2, <1>8, <2>1, <2>4, <3>1
        <3>3. ASSUME NEW m \in 0 .. n - 1, NEW i \in 1 .. Count(c, m)
              PROVE  IsCall(new[c][Base(c, m) + i], c, r, m, i)
            <4>1. m \in Nat /\ m < n
                OBVIOUS
            <4>2. Base(c, m) \in Nat /\ Count(c, m) \in {0, 1, 2, 3}
                BY <4>1, Bases
            <4>3. Base(c, m) + Count(c, m) <= Base(c, n)
                BY <4>1, BaseMonotone
            <4> DEFINE at == Base(c, m)
                       to == Base(c, n)
                       cnt == Count(c, m)
            <4>6. /\ at \in Nat /\ cnt \in {0, 1, 2, 3} /\ at + cnt <= to /\ i \in 1 .. cnt
                  /\ Len(log[c]) = to + Made(c, place) /\ to \in Nat
                  /\ Made(c, place) \in Nat
                BY <1>2, <2>1, <4>2, <4>3
            <4> HIDE DEF at, to, cnt
            <4>7. at + i \in 1 .. Len(log[c])
                BY <4>6
            <4>4. Base(c, m) + i \in 1 .. Len(log[c])
                BY <4>7 DEF at
            <4>5. new[c][Base(c, m) + i] = log[c][Base(c, m) + i]
                BY <1>8, <2>4, <4>4
            <4> QED BY <2>1, <4>5
        <3>4. ASSUME NEW i \in 1 .. Made(c, kind)
              PROVE  IsCall(new[c][Base(c, n) + i], c, r, n, i)
            <4>1. CASE i = Made(c, kind)
                <5>1. Base(c, n) + i = Len(log[c]) + 1
                    BY <1>2, <2>1, <3>1, <4>1
                <5>2. new[c][Base(c, n) + i] = call
                    BY <1>8, <2>4, <5>1
                <5> QED BY <1>7, <2>4, <4>1, <5>2
            <4>2. CASE i # Made(c, kind)
                <5>1. i \in 1 .. Made(c, place) /\ Base(c, n) + i \in 1 .. Len(log[c])
                    BY <1>2, <2>1, <3>1, <4>2
                <5>2. new[c][Base(c, n) + i] = log[c][Base(c, n) + i]
                    BY <1>8, <2>4, <5>1
                <5> QED BY <2>1, <5>1, <5>2
            <4> QED BY <4>1, <4>2
        <3> QED BY <2>2, <3>2, <3>3, <3>4
    <2> QED BY <2>3, <2>4
<1>12. LogIs(new, r, n, kind)
    BY <1>11 DEF LogIs
<1> QED BY <1>9, <1>10, <1>12 DEF new

\* The log of an iteration that is over is the log of the next one's top.
LEMMA LogAdvances ==
    ASSUME NEW r, NEW n \in Nat, NEW place \in Places, NEW log, LogIs(log, r, n, place),
           \A c \in Comms : Made(c, place) = Count(c, n)
    PROVE  LogIs(log, r, n + 1, "top")
<1> SUFFICES ASSUME NEW c \in Comms
             PROVE  /\ log[c] = [i \in 1 .. Len(log[c]) |-> log[c][i]]
                    /\ Len(log[c]) = Base(c, n + 1) + Made(c, "top")
                    /\ \A m \in 0 .. (n + 1) - 1 : \A i \in 1 .. Count(c, m) :
                          IsCall(log[c][Base(c, m) + i], c, r, m, i)
                    /\ \A i \in 1 .. Made(c, "top") :
                          IsCall(log[c][Base(c, n + 1) + i], c, r, n + 1, i)
    BY DEF LogIs
<1>1. Base(c, n + 1) = Base(c, n) + Count(c, n) /\ Base(c, n) \in Nat
      /\ Count(c, n) \in {0, 1, 2, 3}
    BY Bases
<1>2. Made(c, "top") = 0
    BY DEF Made, Comms, Decided, Hashing, Saving
<1>3. /\ log[c] = [i \in 1 .. Len(log[c]) |-> log[c][i]]
      /\ Len(log[c]) = Base(c, n) + Made(c, place)
      /\ \A m \in 0 .. n - 1 : \A i \in 1 .. Count(c, m) :
            IsCall(log[c][Base(c, m) + i], c, r, m, i)
      /\ \A i \in 1 .. Made(c, place) : IsCall(log[c][Base(c, n) + i], c, r, n, i)
    BY DEF LogIs
<1>4. Made(c, place) = Count(c, n)
    OBVIOUS
<1>5. \A m \in 0 .. (n + 1) - 1 : m = n \/ m \in 0 .. n - 1
    OBVIOUS
<1> QED BY <1>1, <1>2, <1>3, <1>4, <1>5

LEMMA CallsAre ==
    ASSUME LockInv, NEW r \in Ranks, NEW kind \in Named, NEW gives
    PROVE  Calls(r, kind, gives) =>
              calls' = [p \in Ranks |-> IF p = r THEN Added(calls[r], kind, gives)
                                                 ELSE calls[p]]
<1>1. CommOf(kind) \in Comms
    BY DEF CommOf, Comms
<1>2. calls = [p \in Ranks |-> calls[p]] /\ calls[r] = [c \in Comms |-> calls[r][c]]
    BY DEF LockInv, Shape
<1> QED BY <1>1, <1>2 DEF Calls, Added

LEMMA DirsKept == ASSUME LockInv PROVE Keeps(dirs)
BY DEF LockInv, Shape, Keeps

\* A rank moves on without a collective,
LEMMA Moved ==
    ASSUME LockInv, NEW r \in Ranks, NEW me, rank' = [rank EXCEPT ![r] = me],
           UNCHANGED <<surface, seen, calls, dirs>>,
           NEW n \in Nat, NEW place \in Places, LogInv(r, n, place), PaceInv(n, place),
           MemInv(me, r, n, place), PutInv(r, n, place)
    PROVE  LockInv'
<1> DEFINE log == calls[r]
<1>1. rank = [p \in Ranks |-> rank[p]] /\ calls = [p \in Ranks |-> calls[p]]
    BY DEF LockInv, Shape
<1>2. rank' = [p \in Ranks |-> IF p = r THEN me ELSE rank[p]]
    BY <1>1
<1>3. calls' = [p \in Ranks |-> IF p = r THEN log ELSE calls[p]]
    BY <1>1
<1>4. Becomes(r, me, log, dirs)
    BY <1>2, <1>3 DEF Becomes
<1>5. LogTyped(log)
    BY CallsTyped
<1>6. log = [c \in Comms |-> log[c]] /\ Continues(log, calls[r])
    BY <1>5 DEF LogTyped, Continues, Comms
<1>7. Settled(r, n, place, me, log, dirs)
    BY DEF Settled, LogInv, PutInv
<1> HIDE DEF log
<1> QED BY <1>4, <1>6, <1>7, DirsKept, RankMoves

\* and into one.
LEMMA Entered ==
    ASSUME LockInv, NEW r \in Ranks, NEW me, rank' = [rank EXCEPT ![r] = me],
           UNCHANGED <<surface, seen, dirs>>,
           NEW n \in Nat, NEW place \in Places, LogInv(r, n, place),
           NEW kind \in Named, n = 0 <=> kind \in Starting,
           \A c \in Comms :
               Made(c, kind) = IF c = CommOf(kind) THEN Made(c, place) + 1 ELSE Made(c, place),
           NEW gives, Calls(r, kind, gives),
           IF kind = "exit" THEN gives \in BOOLEAN ELSE gives = Gives(r, n, kind),
           PaceInv(n, kind), MemInv(me, r, n, kind), PutInv(r, n, kind)
    PROVE  LockInv'
<1> DEFINE log == Added(calls[r], kind, gives)
           old == calls[r]
<1>1. rank = [p \in Ranks |-> rank[p]]
    BY DEF LockInv, Shape
<1>2. rank' = [p \in Ranks |-> IF p = r THEN me ELSE rank[p]]
    BY <1>1
<1>3. calls' = [p \in Ranks |-> IF p = r THEN log ELSE calls[p]]
    BY CallsAre
<1>4. Becomes(r, me, log, dirs)
    BY <1>2, <1>3 DEF Becomes
<1>5. LogTyped(old) /\ LogIs(old, r, n, place)
    BY CallsTyped DEF LogInv
<1> HIDE DEF old
<1>6. /\ LogIs(Added(old, kind, gives), r, n, kind)
      /\ LogTyped(Added(old, kind, gives))
      /\ Continues(Added(old, kind, gives), old)
    BY <1>5, AddedIs
<1>7. LogIs(log, r, n, kind) /\ LogTyped(log) /\ Continues(log, calls[r])
    BY <1>6 DEF old
<1>8. log = [c \in Comms |-> log[c]]
    BY <1>7 DEF LogTyped
<1>9. kind \in Places
    BY KindPlace
<1>10. Settled(r, n, kind, me, log, dirs)
    BY <1>7, <1>9 DEF Settled, PutInv
<1> HIDE DEF log
<1> QED BY <1>4, <1>7, <1>8, <1>10, DirsKept, RankMoves

\* Where a rank is tells the place it stands at.
LEMMA PlaceOf ==
    ASSUME LockInv, NEW r \in Ranks,
           rank[r].at \in Named \cup {"start", "top", "seal"}
    PROVE  \E n \in Nat : RankInv(r, n, rank[r].at) /\ MemInv(rank[r], r, n, rank[r].at)
<1>1. PICK n \in Nat, place \in Places : RankInv(r, n, place)
    BY DEF LockInv
<1>2. MemInv(rank[r], r, n, place)
    BY <1>1 DEF RankInv
<1>3. Stands(rank[r].at, place)
    BY <1>2 DEF MemInv, Named
<1>4. rank[r].at = place
    BY <1>3 DEF Stands, Named
<1> QED BY <1>1, <1>2, <1>4

LEMMA Relocated ==
    ASSUME NEW old, IsMe(old), NEW at, NEW me, me = [old EXCEPT !.at = at]
    PROVE  /\ IsMe(me) /\ me.at = at /\ me.st = old.st /\ me.grads = old.grads
           /\ me.loss = old.loss /\ me.due = old.due /\ me.shardState = old.shardState
           /\ me.stamp = old.stamp /\ me.lastCkpt = old.lastCkpt /\ me.sigterm = old.sigterm
<1>1. me = [at |-> at, st |-> old.st, grads |-> old.grads, loss |-> old.loss,
            due |-> old.due, shardState |-> old.shardState, stamp |-> old.stamp,
            lastCkpt |-> old.lastCkpt, sigterm |-> old.sigterm]
    BY DEF IsMe
<1> QED BY <1>1 DEF IsMe

-----------------------------------------------------------------------------
(* Starting *)

LEMMA AskGuardStep == ASSUME LockInv, NEW r \in Ranks, AskGuard(r) PROVE LockInv'
<1>1. rank[r].at = "start"
    BY DEF AskGuard
<1>2. PICK n \in Nat : RankInv(r, n, "start") /\ MemInv(rank[r], r, n, "start")
    BY <1>1, PlaceOf
<1>3. LogInv(r, n, "start") /\ PaceInv(n, "start") /\ PutInv(r, n, "start")
    BY <1>2 DEF RankInv
<1>4. n = 0 /\ PaceInv(n, "guard")
    BY <1>3 DEF PaceInv, Starting, Decided, Hashing, Saving
<1> DEFINE me == [rank[r] EXCEPT !.at = "guard"]
<1>5. rank' = [rank EXCEPT ![r] = me] /\ UNCHANGED <<surface, seen, dirs>>
    BY DEF AskGuard, Moves
<1>6. MemInv(me, r, n, "guard")
    <2>1. /\ IsMe(me) /\ me.at = "guard" /\ me.st = rank[r].st /\ me.due = rank[r].due
          /\ me.lastCkpt = rank[r].lastCkpt /\ me.sigterm = rank[r].sigterm
        BY <1>2, Relocated DEF MemInv
    <2>2. /\ rank[r].st = ShareOf(FreshState, r) /\ rank[r].due = FALSE
          /\ rank[r].lastCkpt = 0 /\ rank[r].sigterm \in BOOLEAN
        BY <1>1, <1>2 DEF MemInv, HeldAt, Starting
    <2> HIDE DEF me
    <2> QED BY <2>1, <2>2 DEF MemInv, Stands, HeldAt, Starting, Stepping, Taking, Decided, Hashing, Saving
<1>7. PutInv(r, n, "guard")
    BY <1>3 DEF PutInv, PutIs
<1>8. Calls(r, "guard", seen[r]) /\ seen[r] = Gives(r, n, "guard")
    BY DEF AskGuard, Gives
<1>9. \A c \in Comms : Made(c, "guard") = IF c = CommOf("guard") THEN Made(c, "start") + 1
                                          ELSE Made(c, "start")
    BY DEF Comms, Made, CommOf, Decided, Hashing, Saving
<1> HIDE DEF me
<1>10. "guard" \in Named /\ "start" \in Places /\ "guard" \in Starting
    BY DEF Named, Places, Starting
<1> QED BY <1>3, <1>4, <1>5, <1>6, <1>7, <1>8, <1>9, <1>10, Entered

LEMMA RefuseStep == ASSUME LockInv, NEW r \in Ranks, Refuse(r) PROVE LockInv'
<1>1. rank[r].at = "guard"
    BY DEF Refuse, Completed
<1>2. PICK n \in Nat : RankInv(r, n, "guard") /\ MemInv(rank[r], r, n, "guard")
    BY <1>1, PlaceOf DEF Named
<1>3. LogInv(r, n, "guard") /\ PaceInv(n, "guard") /\ PutInv(r, n, "guard")
    BY <1>2 DEF RankInv
<1> DEFINE me == [rank[r] EXCEPT !.at = "refused"]
<1>4. rank' = [rank EXCEPT ![r] = me] /\ UNCHANGED <<surface, seen, calls, dirs>>
    BY DEF Refuse, Moves
<1>5. MemInv(me, r, n, "guard")
    <2>1. /\ IsMe(me) /\ me.at = "refused" /\ me.st = rank[r].st /\ me.due = rank[r].due
          /\ me.lastCkpt = rank[r].lastCkpt /\ me.sigterm = rank[r].sigterm
        BY <1>2, Relocated DEF MemInv
    <2>2. /\ rank[r].st = ShareOf(FreshState, r) /\ rank[r].due = FALSE
          /\ rank[r].lastCkpt = 0 /\ rank[r].sigterm \in BOOLEAN
        BY <1>1, <1>2 DEF MemInv, HeldAt, Starting
    <2> HIDE DEF me
    <2> QED BY <2>1, <2>2 DEF MemInv, Stands, HeldAt, Starting, Stepping, Taking, Decided, Hashing, Saving
<1> HIDE DEF me
<1>6. "guard" \in Places
    BY DEF Places, Starting
<1> QED BY <1>3, <1>4, <1>5, <1>6, Moved

LEMMA HashInitStep == ASSUME LockInv, NEW r \in Ranks, HashInit(r) PROVE LockInv'
<1>1. rank[r].at = "guard"
    BY DEF HashInit, Completed
<1>2. PICK n \in Nat : RankInv(r, n, "guard") /\ MemInv(rank[r], r, n, "guard")
    BY <1>1, PlaceOf DEF Named
<1>3. LogInv(r, n, "guard") /\ PaceInv(n, "guard") /\ PutInv(r, n, "guard")
    BY <1>2 DEF RankInv
<1>4. n = 0 /\ PaceInv(n, "init")
    BY <1>3 DEF PaceInv, Starting, Decided, Hashing, Saving
<1> DEFINE me == [rank[r] EXCEPT !.at = "init"]
<1>5. rank' = [rank EXCEPT ![r] = me] /\ UNCHANGED <<surface, seen, dirs>>
    BY DEF HashInit, Moves
<1>6. MemInv(me, r, n, "init")
    <2>1. /\ IsMe(me) /\ me.at = "init" /\ me.st = rank[r].st /\ me.due = rank[r].due
          /\ me.lastCkpt = rank[r].lastCkpt /\ me.sigterm = rank[r].sigterm
        BY <1>2, Relocated DEF MemInv
    <2>2. /\ rank[r].st = ShareOf(FreshState, r) /\ rank[r].due = FALSE
          /\ rank[r].lastCkpt = 0 /\ rank[r].sigterm \in BOOLEAN
        BY <1>1, <1>2 DEF MemInv, HeldAt, Starting
    <2> HIDE DEF me
    <2> QED BY <2>1, <2>2 DEF MemInv, Stands, HeldAt, Starting, Stepping, Taking, Decided, Hashing, Saving
<1>7. PutInv(r, n, "init")
    BY <1>3 DEF PutInv, PutIs
<1>8. Calls(r, "init", << >>) /\ << >> = Gives(r, n, "init")
    BY DEF HashInit, Gives
<1>9. \A c \in Comms : Made(c, "init") = IF c = CommOf("init") THEN Made(c, "guard") + 1
                                         ELSE Made(c, "guard")
    BY DEF Comms, Made, CommOf, Decided, Hashing, Saving
<1> HIDE DEF me
<1>10. "init" \in Named /\ "guard" \in Places /\ "init" \in Starting
    BY DEF Named, Places, Starting
<1> QED BY <1>3, <1>4, <1>5, <1>6, <1>7, <1>8, <1>9, <1>10, Entered

LEMMA EnterLoopStep == ASSUME LockInv, NEW r \in Ranks, EnterLoop(r) PROVE LockInv'
<1>1. rank[r].at = "init"
    BY DEF EnterLoop, Completed
<1>2. PICK n \in Nat : RankInv(r, n, "init") /\ MemInv(rank[r], r, n, "init")
    BY <1>1, PlaceOf DEF Named
<1>3. LogInv(r, n, "init") /\ PaceInv(n, "init") /\ PutInv(r, n, "init")
    BY <1>2 DEF RankInv
<1>4. n = 0
    BY <1>3 DEF PaceInv, Starting
<1> DEFINE me == [rank[r] EXCEPT !.at = "top"]
<1>5. rank' = [rank EXCEPT ![r] = me] /\ UNCHANGED <<surface, seen, calls, dirs>>
    BY DEF EnterLoop, Moves
<1>6. PaceInv(1, "top")
    BY DEF PaceInv, Starting, Decided, Hashing, Saving
<1>7. MemInv(me, r, 1, "top")
    <2>1. /\ IsMe(me) /\ me.at = "top" /\ me.st = rank[r].st /\ me.due = rank[r].due
          /\ me.lastCkpt = rank[r].lastCkpt /\ me.sigterm = rank[r].sigterm
        BY <1>2, Relocated DEF MemInv
    <2>2. /\ rank[r].st = ShareOf(FreshState, r) /\ rank[r].due = FALSE
          /\ rank[r].lastCkpt = 0 /\ rank[r].sigterm \in BOOLEAN
        BY <1>1, <1>2 DEF MemInv, HeldAt, Starting
    <2> HIDE DEF me
    <2>3. Course[0] = Start
        BY CourseIs
    <2>4. At(0) = FreshState /\ Course[0].last = 0
        BY <2>3 DEF At, Start
    <2>5. HeldAt(1, "top") = FreshState /\ Course[1 - 1].last = 0
        BY <2>4 DEF HeldAt, Starting
    <2> QED BY <2>1, <2>2, <2>5 DEF MemInv, Stands, Starting, Stepping, Taking, Decided, Hashing, Saving
<1>8. LogInv(r, 1, "top")
    <2>1. \A c \in Comms : Made(c, "init") = Count(c, 0)
        BY DEF Comms, Made, Count, Decided, Hashing, Saving
    <2> DEFINE log == calls[r]
    <2>2. LogIs(log, r, 0, "init") /\ "init" \in Places /\ 0 \in Nat
        BY <1>3, <1>4 DEF LogInv, Places, Starting
    <2> HIDE DEF log
    <2>3. LogIs(log, r, 0 + 1, "top")
        BY <2>1, <2>2, LogAdvances
    <2>4. 0 + 1 = 1
        OBVIOUS
    <2> QED BY <2>3, <2>4 DEF LogInv, log
<1>9. PutInv(r, 1, "top")
    BY DEF PutInv, PutIs
<1> HIDE DEF me
<1>10. "top" \in Places
    BY DEF Places, Stepping
<1> QED BY <1>5, <1>6, <1>7, <1>8, <1>9, <1>10, Moved

-----------------------------------------------------------------------------
(* What the ranks make of each other's losses and shards *)

LEMMA SharePositions ==
    ASSUME NEW n \in Nat \ {0}, NEW r \in Ranks
    PROVE  {ShareAt(r, n)[k] : k \in DOMAIN ShareAt(r, n)} =
              {At(n - 1).pos + (k - 1) * World + r : k \in 1 .. Rounds(At(n - 1).consumed)}
<1> DEFINE R == Rounds(At(n - 1).consumed)
<1>1. ShareAt(r, n) \in Seq(Nat) /\ Len(ShareAt(r, n)) = R
    BY AtFacts
<1>2. DOMAIN ShareAt(r, n) = 1 .. R
    BY <1>1
<1>3. BatchesAt(n) = [k \in 1 .. R |-> At(n - 1).pos + (k - 1) * World]
    BY DEF BatchesAt, StepBatches
<1>4. \A k \in 1 .. R : ShareAt(r, n)[k] = At(n - 1).pos + (k - 1) * World + r
    BY <1>3 DEF ShareAt, RankShare
<1> QED BY <1>2, <1>4

\* A step's class is the worst of what the ranks see of it.
LEMMA LossClass ==
    ASSUME NEW n \in Nat \ {0}
    PROVE  Worst({LossAt(p, n) : p \in Ranks}) = ClassAt(n)
<1> DEFINE R == Rounds(At(n - 1).consumed)
           pos == At(n - 1).pos
           Of(p) == {pos + (k - 1) * World + p : k \in 1 .. R}
           Whole == pos .. pos + R * World - 1
           Losses1 == {LossAt(p, n) : p \in Ranks}
           All == {surface[q] : q \in Whole}
           Sees(p) == {surface[q] : q \in Of(p)}
<1>1. pos \in Nat
    BY AtFacts
<1>2. /\ \A p \in Ranks : Of(p) \subseteq Whole
      /\ \A q \in Whole : \E p \in Ranks : q \in Of(p)
    <2> HIDE DEF pos
    <2>1. /\ \A p \in Ranks : \A k \in 1 .. R :
                 pos + (k - 1) * World + p \in pos .. pos + R * World - 1
          /\ \A q \in pos .. pos + R * World - 1 :
                 \E p \in Ranks : \E k \in 1 .. R : q = pos + (k - 1) * World + p
        <3> DEFINE RR == R
        <3>1. RR = Rounds(At(n - 1).consumed)
            OBVIOUS
        <3> HIDE DEF RR
        <3>2. /\ \A p \in Ranks : \A k \in 1 .. RR :
                     pos + (k - 1) * World + p \in pos .. pos + RR * World - 1
              /\ \A q \in pos .. pos + RR * World - 1 :
                     \E p \in Ranks : \E k \in 1 .. RR : q = pos + (k - 1) * World + p
            BY <1>1, <3>1, ShareOfPositions
        <3> QED BY <3>2 DEF RR
    <2> QED BY <2>1
<1>3. \A p \in Ranks : LossAt(p, n) = Worst(Sees(p))
    BY SharePositions DEF LossAt, ClassOf
<1>4. ClassAt(n) = Worst(All)
    BY DEF ClassAt, StepClass
<1> HIDE DEF Of, Whole, pos, R
<1>5. \A class : class \in All <=> \E p \in Ranks : class \in Sees(p)
    BY <1>2
<1> HIDE DEF All, Sees
<1>6. \A p \in Ranks : /\ LossAt(p, n) \in {"nan", "spike", "calm"}
                       /\ LossAt(p, n) = "nan" <=> "nan" \in Sees(p)
                       /\ LossAt(p, n) = "spike" <=> "nan" \notin Sees(p) /\ "spike" \in Sees(p)
    BY <1>3, WorstIs
<1>7. /\ "nan" \in Losses1 <=> "nan" \in All
      /\ "nan" \notin All => ("spike" \in Losses1 <=> "spike" \in All)
    BY <1>5, <1>6
<1> QED BY <1>4, <1>7 DEF Worst

LEMMA ClassIs == ASSUME NEW n PROVE ClassAt(n) \in {"nan", "spike", "calm"}
BY WorstIs DEF ClassAt, StepClass

LEMMA ShardClassIs ==
    ASSUME NEW n \in Nat \ {0}, NEW r
    PROVE  ShardClass(r, PartsAt(n)) = IF r % Shards = 0 THEN ClassAt(n) ELSE "calm"
<1>1. \A p \in Ranks : PartsAt(n)[p].class = LossAt(p, n)
    BY DEF PartsAt, PartAt
<1>2. {PartsAt(n)[p].class : p \in Ranks} = {LossAt(p, n) : p \in Ranks}
    BY <1>1
<1> QED BY <1>2, LossClass DEF ShardClass

LEMMA DivMul ==
    ASSUME NEW a \in Nat, NEW b \in Nat \ {0}, NEW m \in 0 .. b - 1
    PROVE  (a * b + m) \div b = a /\ (a * b + m) % b = m
<1> DEFINE x == a * b + m
<1>1. x \in Nat /\ x = b * (x \div b) + (x % b) /\ x \div b \in Nat /\ x % b \in 0 .. b - 1
    <2>1. a * b \in Nat
        OBVIOUS
    <2>2. x \in Nat
        BY <2>1
    <2> HIDE DEF x
    <2> QED BY <2>2
<1> DEFINE q == x \div b
           s == x % b
<1> HIDE DEF x, q, s
<1>2. q \in Nat /\ s \in 0 .. b - 1 /\ a * b + m = b * q + s
    BY <1>1 DEF q, s, x
<1>3. b * q = q * b
    BY <1>2
<1>4. ~(q > a)
    <2> SUFFICES ASSUME q > a PROVE FALSE
        OBVIOUS
    <2>1. PICK d \in Nat : q = a + 1 + d
        <3>1. q - a - 1 \in Nat /\ q = a + 1 + (q - a - 1)
            BY <1>2
        <3> QED BY <3>1
    <2>2. q * b = a * b + b + d * b /\ d * b \in Nat /\ a * b \in Nat
        <3>1. \A u, v \in Nat : (u + 1 + v) * b = u * b + b + v * b /\ u * b \in Nat
            OBVIOUS
        <3> QED BY <2>1, <3>1
    <2> DEFINE u == a * b
               v == d * b
               w == q * b
    <2>3. w = u + b + v /\ u \in Nat /\ v \in Nat /\ u + m = w + s
        BY <1>2, <1>3, <2>2
    <2> HIDE DEF u, v, w
    <2> QED BY <1>2, <2>3
<1>5. ~(q < a)
    <2> SUFFICES ASSUME q < a PROVE FALSE
        OBVIOUS
    <2>1. PICK d \in Nat : a = q + 1 + d
        <3>1. a - q - 1 \in Nat /\ a = q + 1 + (a - q - 1)
            BY <1>2
        <3> QED BY <3>1
    <2>2. a * b = q * b + b + d * b /\ d * b \in Nat /\ q * b \in Nat
        <3>1. \A u, v \in Nat : (u + 1 + v) * b = u * b + b + v * b /\ u * b \in Nat
            OBVIOUS
        <3> QED BY <1>2, <2>1, <3>1
    <2> DEFINE u == a * b
               v == d * b
               w == q * b
    <2>3. u = w + b + v /\ w \in Nat /\ v \in Nat /\ u + m = w + s
        BY <1>2, <1>3, <2>2
    <2> HIDE DEF u, v, w
    <2> QED BY <1>2, <2>3
<1>6. q = a
    BY <1>2, <1>4, <1>5
<1>7. s = m
    <2> DEFINE u == a * b
    <2>1. u \in Nat /\ u + m = u + s
        BY <1>2, <1>3, <1>6
    <2> HIDE DEF u
    <2> QED BY <1>2, <2>1
<1> QED BY <1>6, <1>7 DEF q, s, x

\* The rank of r's column in p's row of the mesh.
LEMMA MeshCorner ==
    ASSUME NEW p \in Ranks, NEW r \in Ranks
    PROVE  \E q \in Ranks : q \div Shards = p \div Shards /\ q % Shards = r % Shards
<1>1. World \in Nat \ {0} /\ Shards \in Nat \ {0} /\ World % Shards = 0 /\ p \in Nat /\ r \in Nat
    BY Sizes, LockstepAssumption
<1> DEFINE a == p \div Shards
           m == r % Shards
           w == World \div Shards
           q == a * Shards + m
<1>2. a \in Nat /\ m \in 0 .. Shards - 1 /\ w \in Nat
    BY <1>1
<1>3. p < World /\ World = Shards * w /\ p = Shards * a + (p % Shards) /\ p % Shards \in Nat
    BY <1>1 DEF Ranks
<1>4. a < w
    <2> HIDE DEF a, w
    <2> SUFFICES ASSUME w <= a PROVE FALSE
        BY <1>2
    <2>1. PICK d \in Nat : a = w + d
        <3>1. a - w \in Nat /\ a = w + (a - w)
            BY <1>2
        <3> QED BY <3>1
    <2>2. Shards * a = Shards * w + Shards * d /\ Shards * d \in Nat
        <3>1. \A x, y \in Nat : Shards * (x + y) = Shards * x + Shards * y /\ Shards * y \in Nat
            BY <1>1
        <3> QED BY <1>2, <2>1, <3>1
    <2> DEFINE u == Shards * a
               v == Shards * d
               t == p % Shards
    <2>3. u = World + v /\ v \in Nat /\ p = u + t /\ t \in Nat
        BY <1>3, <2>2
    <2> HIDE DEF u, v, t
    <2> QED BY <1>1, <1>3, <2>3
<1>5. q \in Ranks
    <2> HIDE DEF a, m, w
    <2>1. PICK d \in Nat : w = a + 1 + d
        <3>1. w - a - 1 \in Nat /\ w = a + 1 + (w - a - 1)
            BY <1>2, <1>4
        <3> QED BY <3>1
    <2>2. World = a * Shards + Shards + d * Shards /\ d * Shards \in Nat /\ a * Shards \in Nat
        <3>1. \A x, y \in Nat : /\ Shards * (x + 1 + y) = x * Shards + Shards + y * Shards
                                /\ x * Shards \in Nat
            BY <1>1
        <3> QED BY <1>2, <1>3, <2>1, <3>1
    <2> DEFINE u == a * Shards
               v == d * Shards
    <2>3. World = u + Shards + v /\ u \in Nat /\ v \in Nat /\ q = u + m
        BY <2>2
    <2> HIDE DEF u, v, q
    <2> QED BY <1>1, <1>2, <2>3 DEF Ranks
<1>6. q \div Shards = a /\ q % Shards = m
    <2> HIDE DEF a, m
    <2> QED BY <1>1, <1>2, DivMul
<1> QED BY <1>5, <1>6

\* Rank 0's shard is in every row of the mesh.
LEMMA NormIs ==
    ASSUME NEW n \in Nat \ {0}, NEW r \in Ranks, NEW norms,
           norms = [p \in Peers("fsdp", r) |-> Gives(p, n, "norm")]
    PROVE  Worst({norms[p] : p \in Peers("fsdp", r)}) = ClassAt(n)
<1>1. Peers("fsdp", r) = {p \in Ranks : p \div Shards = r \div Shards}
    BY DEF Peers
<1>2. \A p \in Peers("fsdp", r) : norms[p] = IF p % Shards = 0 THEN ClassAt(n) ELSE "calm"
    <2>1. \A p : Gives(p, n, "norm") = ShardClass(p, PartsAt(n))
        BY DEF Gives
    <2> QED BY <2>1, ShardClassIs
<1>3. PICK q \in Ranks : q \div Shards = r \div Shards /\ q % Shards = 0 % Shards
    BY MeshCorner, Sizes
<1>4. q % Shards = 0
    BY <1>3, Sizes
<1>5. q \in Peers("fsdp", r) /\ norms[q] = ClassAt(n)
    BY <1>1, <1>2, <1>3, <1>4
<1>6. /\ ClassAt(n) \in {norms[p] : p \in Peers("fsdp", r)}
      /\ {norms[p] : p \in Peers("fsdp", r)} \subseteq {ClassAt(n), "calm"}
    BY <1>2, <1>5
<1> QED BY <1>6, ClassIs DEF Worst

\* Every rank finds every rank's part among the rows its column brings.
LEMMA RowsAre ==
    ASSUME NEW n \in Nat \ {0}, NEW r \in Ranks, NEW p \in Ranks, NEW rows,
           rows = [q \in Peers("dp_replicate", r) |-> Gives(q, n, "replicate")]
    PROVE  (CHOOSE row \in {rows[q] : q \in DOMAIN rows} : p \in DOMAIN row)[p] = PartAt(p, n)
<1>1. Peers("dp_replicate", r) = {q \in Ranks : q % Shards = r % Shards}
    BY DEF Peers
<1>2. \A q : Peers("fsdp", q) = {x \in Ranks : x \div Shards = q \div Shards}
    BY DEF Peers
<1>3. \A q : Gives(q, n, "replicate") = [x \in Peers("fsdp", q) |-> PartAt(x, n)]
    BY DEF Gives
<1>4. PICK q \in Ranks : q \div Shards = p \div Shards /\ q % Shards = r % Shards
    BY MeshCorner
<1>5. q \in DOMAIN rows /\ p \in DOMAIN rows[q]
    BY <1>1, <1>2, <1>3, <1>4
<1>6. \A row \in {rows[x] : x \in DOMAIN rows} : p \in DOMAIN row => row[p] = PartAt(p, n)
    BY <1>3
<1> DEFINE S == {rows[x] : x \in DOMAIN rows}
<1>7. \E row \in S : p \in DOMAIN row
    BY <1>5
<1> HIDE DEF S
<1>8. (CHOOSE row \in S : p \in DOMAIN row) \in S
      /\ p \in DOMAIN (CHOOSE row \in S : p \in DOMAIN row)
    BY <1>7
<1> QED BY <1>6, <1>8 DEF S

LEMMA RoundsAre ==
    ASSUME NEW rounds \in Seq(Nat), NEW parts, \A p \in Ranks : parts[p] = RankShare(rounds, p)
    PROVE  RoundsOf(parts) = rounds
<1>1. 0 \in Ranks
    BY Sizes
<1>2. RankShare(rounds, 0) = rounds
    BY ShareFacts
<1> QED BY <1>1, <1>2 DEF RoundsOf

-----------------------------------------------------------------------------
(* A rank's share of the state from call to call *)

LEMMA ShareFields ==
    ASSUME NEW st, IsState(st), NEW r
    PROVE  /\ ShareOf(st, r) =
                 [step |-> st.step, consumed |-> st.consumed, weights |-> st.weights,
                  moments |-> st.moments, lr |-> st.lr, rng |-> st.rng, pos |-> st.pos,
                  data |-> RankShare(st.data, r), chain |-> st.chain, spike |-> st.spike,
                  anchor |-> st.anchor]
           /\ IsState(ShareOf(st, r))
<1>1. ShareOf(st, r) =
         [step |-> st.step, consumed |-> st.consumed, weights |-> st.weights,
          moments |-> st.moments, lr |-> st.lr, rng |-> st.rng, pos |-> st.pos,
          data |-> RankShare(st.data, r), chain |-> st.chain, spike |-> st.spike,
          anchor |-> st.anchor]
    BY DEF IsState, ShareOf
<1>2. IsState(ShareOf(st, r))
    BY <1>1 DEF IsState
<1> QED BY <1>1, <1>2

LEMMA BegunShare ==
    ASSUME NEW st, IsState(st), st.data \in Seq(Nat), st.pos \in Nat, NEW r \in Ranks,
           NEW sh, sh = ShareOf(st, r)
    PROVE  /\ [Begun(sh, sh.consumed) EXCEPT
                  !.data = sh.data \o RankShare(StepBatches(st.pos, st.consumed), r)]
                 = ShareOf(Begun(st, st.consumed), r)
           /\ IsState(Begun(st, st.consumed))
           /\ Begun(st, st.consumed).data = st.data \o StepBatches(st.pos, st.consumed)
           /\ Begun(st, st.consumed).step = st.step
           /\ Begun(st, st.consumed).spike = st.spike
<1> DEFINE new == StepBatches(st.pos, st.consumed)
           lr == LR(st.consumed, st.anchor)
           pos == st.pos + Rounds(st.consumed) * World
           begun == Begun(st, st.consumed)
<1>1. HashEvery > 0 /\ r \in Nat
    BY Sizes
<1>2. /\ sh.consumed = st.consumed /\ sh.anchor = st.anchor /\ sh.pos = st.pos
      /\ sh.data = RankShare(st.data, r) /\ IsState(sh) /\ sh.step = st.step
      /\ sh.weights = st.weights /\ sh.moments = st.moments /\ sh.rng = st.rng
      /\ sh.chain = st.chain /\ sh.spike = st.spike
    BY ShareFields
<1> DEFINE whole(d) ==
        [step |-> st.step, consumed |-> st.consumed, weights |-> st.weights,
         moments |-> st.moments, lr |-> lr, rng |-> st.rng, pos |-> pos,
         data |-> d, chain |-> st.chain, spike |-> st.spike,
         anchor |-> st.anchor]
<1> HIDE DEF lr, pos, new
<1>3. begun = whole(st.data \o new)
    <2>1. begun = [st EXCEPT !.lr = lr, !.pos = pos, !.data = st.data \o new]
        BY <1>1 DEF Begun, lr, pos, new
    <2> DEFINE d == st.data \o new
    <2> HIDE DEF begun, d
    <2>2. begun = [st EXCEPT !.lr = lr, !.pos = pos, !.data = d]
        BY <2>1 DEF d
    <2>3. begun = whole(d)
        BY <2>2 DEF IsState
    <2> QED BY <2>3 DEF d
<1>4. IsState(begun) /\ begun.data = st.data \o new /\ begun.step = st.step
      /\ begun.spike = st.spike
    <2> HIDE DEF begun
    <2> QED BY <1>3 DEF IsState
<1>5. \A d : [Begun(sh, sh.consumed) EXCEPT !.data = d] = whole(d)
    <2> TAKE d
    <2>2. PICK e : Begun(sh, sh.consumed) =
               [sh EXCEPT !.lr = lr, !.pos = pos, !.data = e]
        BY <1>2 DEF Begun, lr, pos
    <2> DEFINE b == Begun(sh, sh.consumed)
    <2>3. b = [sh EXCEPT !.lr = lr, !.pos = pos, !.data = e]
        BY <2>2
    <2> HIDE DEF b
    <2>1. b = [step |-> sh.step, consumed |-> sh.consumed, weights |-> sh.weights,
               moments |-> sh.moments, lr |-> lr, rng |-> sh.rng, pos |-> pos,
               data |-> e, chain |-> sh.chain, spike |-> sh.spike, anchor |-> sh.anchor]
        <3>1. IsState(sh)
            BY <1>2
        <3> QED BY <2>3, <3>1 DEF IsState
    <2>4. b = whole(e)
        BY <1>2, <2>1
    <2>5. [b EXCEPT !.data = d] = whole(d)
        BY <2>4
    <2> QED BY <2>5 DEF b
<1>6. ShareOf(begun, r) = whole(RankShare(begun.data, r))
    <2> HIDE DEF begun
    <2>1. ShareOf(begun, r) =
             [step |-> begun.step, consumed |-> begun.consumed, weights |-> begun.weights,
              moments |-> begun.moments, lr |-> begun.lr, rng |-> begun.rng, pos |-> begun.pos,
              data |-> RankShare(begun.data, r), chain |-> begun.chain, spike |-> begun.spike,
              anchor |-> begun.anchor]
        BY <1>4, ShareFields
    <2>2. /\ begun.step = st.step /\ begun.consumed = st.consumed
          /\ begun.weights = st.weights /\ begun.moments = st.moments /\ begun.lr = lr
          /\ begun.rng = st.rng /\ begun.pos = pos /\ begun.chain = st.chain
          /\ begun.spike = st.spike /\ begun.anchor = st.anchor
        BY <1>3
    <2> DEFINE d == RankShare(begun.data, r)
    <2>3. ShareOf(begun, r) =
             [step |-> begun.step, consumed |-> begun.consumed, weights |-> begun.weights,
              moments |-> begun.moments, lr |-> begun.lr, rng |-> begun.rng, pos |-> begun.pos,
              data |-> d, chain |-> begun.chain, spike |-> begun.spike,
              anchor |-> begun.anchor]
        BY <2>1
    <2> HIDE DEF d
    <2>4. ShareOf(begun, r) = whole(d)
        BY <2>2, <2>3
    <2> QED BY <2>4 DEF d
<1>7. RankShare(st.data \o new, r) = RankShare(st.data, r) \o RankShare(new, r)
    <2>1. new \in Seq(Nat)
        BY BatchesType DEF new
    <2>2. st.data \in Seq(Nat) /\ r \in Nat
        BY <1>1
    <2> QED BY <2>1, <2>2, ShareOfConcat
<1>8. ShareOf(begun, r) = whole(sh.data \o RankShare(new, r))
    BY <1>2, <1>4, <1>6, <1>7
<1> HIDE DEF whole, begun
<1>9. [Begun(sh, sh.consumed) EXCEPT !.data = sh.data \o RankShare(new, r)] = ShareOf(begun, r)
    BY <1>5, <1>8
<1> QED BY <1>4, <1>9 DEF new, begun

LEMMA SteppedShare ==
    ASSUME NEW st, IsState(st), NEW r, NEW grads, NEW class
    PROVE  Stepped(ShareOf(st, r), grads, class) = ShareOf(Stepped(st, grads, class), r)
<1> DEFINE sh == ShareOf(st, r)
           skip == ShouldSkip(st.spike, class, st.step)
           w == IF skip THEN st.weights
                ELSE Append(st.weights, [grads |-> grads, lr |-> st.lr, rng |-> st.rng,
                                         moments |-> Len(st.moments)])
           m == IF skip THEN st.moments ELSE Append(st.moments, grads)
           g == AfterGate(st.spike, class, st.step)
           c == st.consumed + Tokens(st.consumed)
           whole(d) ==
               [step |-> st.step + 1, consumed |-> c, weights |-> w, moments |-> m,
                lr |-> st.lr, rng |-> st.rng + 1, pos |-> st.pos, data |-> d,
                chain |-> st.chain, spike |-> g, anchor |-> st.anchor]
           old(d) ==
               [step |-> st.step, consumed |-> st.consumed, weights |-> st.weights,
                moments |-> st.moments, lr |-> st.lr, rng |-> st.rng, pos |-> st.pos,
                data |-> d, chain |-> st.chain, spike |-> st.spike,
                anchor |-> st.anchor]
<1>1. \A d : Stepped(old(d), grads, class) = whole(d)
    <2> TAKE d
    <2> DEFINE o == old(d)
    <2>1. /\ o.step = st.step /\ o.consumed = st.consumed /\ o.weights = st.weights
          /\ o.moments = st.moments /\ o.rng = st.rng /\ o.spike = st.spike /\ o.lr = st.lr
          /\ o.pos = st.pos /\ o.data = d /\ o.chain = st.chain /\ o.anchor = st.anchor
          /\ IsState(o)
        BY DEF IsState
    <2> HIDE DEF o
    <2>2. Stepped(o, grads, class) =
             [step |-> o.step + 1, consumed |-> o.consumed + Tokens(o.consumed),
              weights |-> IF ShouldSkip(o.spike, class, o.step) THEN o.weights
                          ELSE Append(o.weights, [grads |-> grads, lr |-> o.lr, rng |-> o.rng,
                                                  moments |-> Len(o.moments)]),
              moments |-> IF ShouldSkip(o.spike, class, o.step) THEN o.moments
                          ELSE Append(o.moments, grads),
              lr |-> o.lr, rng |-> o.rng + 1, pos |-> o.pos, data |-> o.data,
              chain |-> o.chain, spike |-> AfterGate(o.spike, class, o.step),
              anchor |-> o.anchor]
        BY <2>1, SteppedRecord
    <2>4. Stepped(o, grads, class) = whole(d)
        BY <2>1, <2>2
    <2> QED BY <2>4 DEF o
<1>2. st = old(st.data) /\ ShareOf(st, r) = old(RankShare(st.data, r))
    BY ShareFields DEF IsState
<1>3. \A d : ShareOf(whole(d), r) = whole(RankShare(d, r))
    <2> HIDE DEF w, m, g, c
    <2> TAKE d
    <2>1. whole(d).data = d
        OBVIOUS
    <2>2. ShareOf(whole(d), r) = [whole(d) EXCEPT !.data = RankShare(d, r)]
        BY <2>1 DEF ShareOf
    <2> QED BY <2>2
<1> HIDE DEF old, whole
<1>4. Stepped(st, grads, class) = whole(st.data)
    BY <1>1, <1>2
<1>5. Stepped(ShareOf(st, r), grads, class) = whole(RankShare(st.data, r))
    BY <1>1, <1>2
<1> QED BY <1>3, <1>4, <1>5

LEMMA HeldFacts ==
    ASSUME NEW n \in Nat \ {0}
    PROVE  /\ IsState(At(n - 1)) /\ At(n - 1).data \in Seq(Nat) /\ At(n - 1).step = n - 1
           /\ IsState(At(n)) /\ At(n).data \in Seq(Nat) /\ At(n).step = n
           /\ IsState(BegunAt(n)) /\ BegunAt(n).step = n - 1 /\ BegunAt(n).spike = At(n - 1).spike
           /\ IsState(BeforeHash(At(n - 1), ClassAt(n)))
           /\ BeforeHash(At(n - 1), ClassAt(n)) = Stepped(BegunAt(n), BatchesAt(n), ClassAt(n))
           /\ BeforeHash(At(n - 1), ClassAt(n)).step = n
           /\ BeforeHash(At(n - 1), ClassAt(n)).consumed = At(n).consumed
           /\ BeforeHash(At(n - 1), ClassAt(n)).data = At(n).data
           /\ BeforeHash(At(n - 1), ClassAt(n)).weights = At(n).weights
           /\ BeforeHash(At(n - 1), ClassAt(n)).moments = At(n).moments
           /\ At(n) = IF HashDue(n)
                      THEN [BeforeHash(At(n - 1), ClassAt(n)) EXCEPT !.chain = Canonical(n)]
                      ELSE BeforeHash(At(n - 1), ClassAt(n))
           /\ Canonical(n) = StepDigest(BeforeHash(At(n - 1), ClassAt(n)), BatchesAt(n))
<1> DEFINE st == At(n - 1)
           s == n - 1
           class == ClassAt(n)
<1>1. s \in Nat /\ s + 1 = n /\ GoodBoundary(st, s) /\ GoodBoundary(At(n), n)
      /\ At(n) = After(st, class) /\ HashEvery > 0
    BY AtFacts, Sizes
<1>2. /\ IsState(At(n - 1)) /\ At(n - 1).data \in Seq(Nat) /\ At(n - 1).step = n - 1
      /\ At(n - 1).pos \in Nat
      /\ IsState(At(n)) /\ At(n).data \in Seq(Nat) /\ At(n).step = n
    BY <1>1 DEF GoodBoundary
<1>3. /\ IsState(BegunAt(n)) /\ BegunAt(n).step = n - 1 /\ BegunAt(n).spike = At(n - 1).spike
    <2>1. 0 \in Ranks
        BY Sizes
    <2>2. /\ IsState(Begun(st, st.consumed)) /\ Begun(st, st.consumed).step = st.step
          /\ Begun(st, st.consumed).spike = st.spike
        <3> HIDE DEF st
        <3> QED BY <1>2, <2>1, BegunShare DEF st
    <2> QED BY <1>2, <2>2 DEF BegunAt
<1>4. BeforeHash(st, class) = Stepped(BegunAt(n), BatchesAt(n), class)
    BY DEF BeforeHash, BegunAt, BatchesAt
<1>5. Canonical(n) = StepDigest(BeforeHash(st, class), BatchesAt(n))
    <2>1. LockstepAt(n - 1) = At(n - 1)
        BY <1>1, RunIsCourse DEF LockstepAt
    <2> QED BY <2>1 DEF Canonical, DigestAfter, ClassAt, BatchesAt
<1>6. At(n) = IF HashDue(n) THEN [BeforeHash(st, class) EXCEPT !.chain = Canonical(n)]
              ELSE BeforeHash(st, class)
    <2>1. BeforeHash(st, class).step = s + 1
        <3> HIDE DEF st, s, class
        <3> QED BY <1>1, BeforeHashFields
    <2>2. After(st, class) = Linked(BeforeHash(st, class), BatchesAt(n))
        BY DEF After, BatchesAt
    <2> HIDE DEF st, class
    <2> QED BY <1>1, <1>5, <2>1, <2>2 DEF Linked
<1> HIDE DEF st, s, class
<1>7. /\ IsState(BeforeHash(st, class)) /\ BeforeHash(st, class).step = n
    BY <1>1, BeforeHashFields
<1>8. /\ BeforeHash(st, class).consumed = At(n).consumed
      /\ BeforeHash(st, class).data = At(n).data
      /\ BeforeHash(st, class).weights = At(n).weights
      /\ BeforeHash(st, class).moments = At(n).moments
    BY <1>1, AfterFields
<1> QED BY <1>2, <1>3, <1>4, <1>5, <1>6, <1>7, <1>8 DEF st, class

-----------------------------------------------------------------------------
(* The micro-batches and the gate *)

Follows(place, kind) ==
    \/ place = "top" /\ kind = "scatter"
    \/ place = "scatter" /\ kind = "replicate"
    \/ place = "replicate" /\ kind = "norm"
    \/ place = "norm" /\ kind = "loss"
    \/ place = "loss" /\ kind = "exit"
    \/ place = "exit" /\ kind = "state"
    \/ place = "state" /\ kind = "batch"
    \/ place = "batch" /\ kind = "saveBatch"
    \/ place = "saveBatch" /\ kind = "shards"
    \/ place = "shards" /\ kind = "files"

LEMMA NextCall ==
    ASSUME NEW place, NEW kind, Follows(place, kind)
    PROVE  /\ \A c \in Comms :
                 Made(c, kind) = IF c = CommOf(kind) THEN Made(c, place) + 1 ELSE Made(c, place)
           /\ place \in Places /\ kind \in Named /\ kind \notin Starting
<1>1. place \in Places /\ kind \in Named /\ kind \notin Starting
    BY DEF Follows, Places, Named, Starting, Stepping, Taking, Decided, Hashing, Saving
<1>2. CASE kind \in {"scatter", "replicate", "norm"}
    BY <1>1, <1>2 DEF Follows, Comms, Made, CommOf, Decided, Hashing, Saving
<1>3. CASE kind \in {"loss", "exit"}
    BY <1>1, <1>3 DEF Follows, Comms, Made, CommOf, Decided, Hashing, Saving
<1>4. CASE kind \in {"state", "batch", "saveBatch"}
    BY <1>1, <1>4 DEF Follows, Comms, Made, CommOf, Decided, Hashing, Saving
<1>5. CASE kind \in {"shards", "files"}
    BY <1>1, <1>5 DEF Follows, Comms, Made, CommOf, Decided, Hashing, Saving
<1> QED BY <1>1, <1>2, <1>3, <1>4, <1>5 DEF Follows

\* A rank in its iteration.
LEMMA InStep ==
    ASSUME LockInv, NEW r \in Ranks,
           rank[r].at \in (Named \ Starting) \cup {"top", "seal"}
    PROVE  \E n \in Nat \ {0} :
              /\ RankInv(r, n, rank[r].at) /\ LogInv(r, n, rank[r].at)
              /\ PaceInv(n, rank[r].at) /\ PutInv(r, n, rank[r].at)
              /\ MemInv(rank[r], r, n, rank[r].at)
              /\ IsMe(rank[r]) /\ rank[r].sigterm \in BOOLEAN
              /\ rank[r].st = ShareOf(HeldAt(n, rank[r].at), r)
              /\ n \in Nat /\ n # 0
<1>1. PICK n \in Nat : RankInv(r, n, rank[r].at) /\ MemInv(rank[r], r, n, rank[r].at)
    BY PlaceOf
<1>2. /\ LogInv(r, n, rank[r].at) /\ PaceInv(n, rank[r].at) /\ PutInv(r, n, rank[r].at)
    BY <1>1 DEF RankInv
<1>3. n # 0
    BY <1>2 DEF PaceInv, Starting, Named
<1>4. rank[r].at \notin {"dead", "aborted"}
    BY DEF Named
<1>5. /\ IsMe(rank[r]) /\ rank[r].sigterm \in BOOLEAN
      /\ rank[r].st = ShareOf(HeldAt(n, rank[r].at), r)
    BY <1>1, <1>4 DEF MemInv
<1> QED BY <1>1, <1>2, <1>3, <1>5

LEMMA FinishStep == ASSUME LockInv, NEW r \in Ranks, Finish(r) PROVE LockInv'
<1>1. rank[r].at = "top"
    BY DEF Finish
<1>2. PICK n \in Nat \ {0} : /\ LogInv(r, n, "top") /\ PaceInv(n, "top") /\ PutInv(r, n, "top")
                             /\ MemInv(rank[r], r, n, "top") /\ IsMe(rank[r]) /\ n \in Nat
    BY <1>1, InStep
<1> DEFINE me == [rank[r] EXCEPT !.at = "done"]
<1>3. rank' = [rank EXCEPT ![r] = me] /\ UNCHANGED <<surface, seen, calls, dirs>>
    BY DEF Finish, Moves
<1>4. MemInv(me, r, n, "top")
    <2>1. /\ IsMe(me) /\ me.at = "done" /\ me.st = rank[r].st /\ me.due = rank[r].due
          /\ me.lastCkpt = rank[r].lastCkpt /\ me.sigterm = rank[r].sigterm
        BY <1>2, Relocated
    <2>2. /\ rank[r].st = ShareOf(HeldAt(n, "top"), r) /\ rank[r].due = FALSE
          /\ rank[r].lastCkpt = Course[n - 1].last /\ rank[r].sigterm \in BOOLEAN
        BY <1>1, <1>2 DEF MemInv, Stepping
    <2> HIDE DEF me
    <2> QED BY <2>1, <2>2 DEF MemInv, Stands, Starting, Stepping, Taking, Decided, Hashing, Saving
<1> HIDE DEF me
<1>5. "top" \in Places
    BY DEF Places, Stepping
<1> QED BY <1>2, <1>3, <1>4, <1>5, Moved

LEMMA BackwardStep == ASSUME LockInv, NEW r \in Ranks, Backward(r) PROVE LockInv'
<1>1. rank[r].at = "top"
    BY DEF Backward
<1>2. PICK n \in Nat \ {0} : /\ LogInv(r, n, "top") /\ PaceInv(n, "top") /\ PutInv(r, n, "top")
                             /\ MemInv(rank[r], r, n, "top") /\ IsMe(rank[r]) /\ n \in Nat
                             /\ rank[r].st = ShareOf(HeldAt(n, "top"), r) /\ n # 0
    BY <1>1, InStep
<1> DEFINE st == rank[r].st
           share == RankShare(StepBatches(st.pos, st.consumed), r)
           loss == ClassOf({share[k] : k \in DOMAIN share})
           held == [Begun(st, st.consumed) EXCEPT !.data = st.data \o share]
           gives == [rounds |-> share, class |-> loss]
           me == [at |-> "scatter", st |-> held, grads |-> rank[r].grads, loss |-> loss,
                  due |-> rank[r].due, shardState |-> rank[r].shardState,
                  stamp |-> rank[r].stamp, lastCkpt |-> rank[r].lastCkpt,
                  sigterm |-> rank[r].sigterm]
<1>3. /\ rank' = [rank EXCEPT ![r].at = "scatter", ![r].loss = loss, ![r].st = held]
      /\ Calls(r, "scatter", gives) /\ UNCHANGED <<surface, seen, dirs>>
    BY DEF Backward
<1>4. st = ShareOf(At(n - 1), r)
    BY <1>2 DEF HeldAt, Starting
<1>5. /\ IsState(At(n - 1)) /\ At(n - 1).data \in Seq(Nat) /\ At(n - 1).pos \in Nat
    BY HeldFacts, AtFacts
<1>6. st.pos = At(n - 1).pos /\ st.consumed = At(n - 1).consumed
    BY <1>4, <1>5, ShareFields
<1>7. share = ShareAt(r, n)
    BY <1>6 DEF ShareAt, BatchesAt
<1>8. loss = LossAt(r, n)
    BY <1>7 DEF LossAt
<1>9. held = ShareOf(BegunAt(n), r)
    <2> DEFINE old == At(n - 1)
               sh == st
    <2>1. IsState(old) /\ old.data \in Seq(Nat) /\ old.pos \in Nat /\ sh = ShareOf(old, r)
        BY <1>4, <1>5
    <2> HIDE DEF old, sh
    <2>2. [Begun(sh, sh.consumed) EXCEPT
              !.data = sh.data \o RankShare(StepBatches(old.pos, old.consumed), r)]
                 = ShareOf(Begun(old, old.consumed), r)
        BY <2>1, BegunShare
    <2> QED BY <1>6, <2>2 DEF old, sh, BegunAt
<1>10. gives = Gives(r, n, "scatter")
    BY <1>7, <1>8 DEF Gives, PartAt
<1> HIDE DEF loss, held, gives, share
<1>11. rank' = [rank EXCEPT ![r] = me]
    <2>1. rank' = [rank EXCEPT ![r] =
                      [rank[r] EXCEPT !.at = "scatter", !.loss = loss, !.st = held]]
        BY <1>3
    <2>2. PICK a, b, c, d, e, f, g, h, k :
             rank[r] = [at |-> a, st |-> b, grads |-> c, loss |-> d, due |-> e,
                        shardState |-> f, stamp |-> g, lastCkpt |-> h, sigterm |-> k]
        BY <1>2 DEF IsMe
    <2>3. ASSUME NEW new, new = [rank[r] EXCEPT !.at = "scatter", !.loss = loss, !.st = held]
          PROVE  new = me
        BY <2>2, <2>3
    <2> QED BY <2>1, <2>3
<1>12. MemInv(me, r, n, "scatter")
    <2>1. /\ rank[r].due = FALSE
          /\ rank[r].lastCkpt = Course[n - 1].last /\ rank[r].sigterm \in BOOLEAN
        BY <1>1, <1>2 DEF MemInv, Stepping
    <2>2. HeldAt(n, "scatter") = BegunAt(n)
        BY DEF HeldAt, Starting, Taking
    <2> QED BY <1>8, <1>9, <2>1, <2>2
            DEF MemInv, IsMe, Stands, Starting, Stepping, Taking, Decided, Hashing, Saving
<1>13. PaceInv(n, "scatter")
    BY <1>2 DEF PaceInv, Starting, Decided, Hashing, Saving
<1>14. PutInv(r, n, "scatter")
    BY <1>2 DEF PutInv, PutIs
<1> HIDE DEF me
<1>15. /\ \A c \in Comms : Made(c, "scatter") = IF c = CommOf("scatter") THEN Made(c, "top") + 1
                                                ELSE Made(c, "top")
       /\ "top" \in Places /\ "scatter" \in Named /\ "scatter" \notin Starting
    <2>1. Follows("top", "scatter")
        BY DEF Follows
    <2> QED BY <2>1, NextCall
<1> QED BY <1>2, <1>3, <1>10, <1>11, <1>12, <1>13, <1>14, <1>15, Entered

\* What a completed collective of a step brings.
LEMMA Brought ==
    ASSUME LockInv, NEW r \in Ranks, NEW kind \in Named \ {"exit"}, NEW n \in Nat,
           RankInv(r, n, kind), Completed(r, kind)
    PROVE  Gathered(r, kind) = [p \in Peers(CommOf(kind), r) |-> Gives(p, n, kind)]
<1>1. \A p \in Ranks : \E m \in Nat, pl \in Places : RankInv(p, m, pl)
    BY DEF LockInv
<1> DEFINE c == CommOf(kind)
           i == Made(c, kind)
<1>2. kind \in Named /\ kind # "exit" /\ c = CommOf(kind) /\ i = Made(c, kind)
    OBVIOUS
<1> HIDE DEF c, i
<1>3. kind # "exit" => Gathered(r, kind) = [p \in Peers(c, r) |-> Gives(p, n, kind)]
    BY <1>1, <1>2, GatheredIs
<1> QED BY <1>2, <1>3

LEMMA FlushStep == ASSUME LockInv, NEW r \in Ranks, Flush(r) PROVE LockInv'
<1>1. rank[r].at = "scatter" /\ Completed(r, "scatter")
    BY DEF Flush, Completed
<1>2. PICK n \in Nat \ {0} :
         /\ RankInv(r, n, "scatter") /\ LogInv(r, n, "scatter") /\ PaceInv(n, "scatter")
         /\ PutInv(r, n, "scatter") /\ MemInv(rank[r], r, n, "scatter") /\ IsMe(rank[r])
         /\ n \in Nat /\ n # 0 /\ rank[r].st = ShareOf(HeldAt(n, "scatter"), r)
    BY <1>1, InStep DEF Named, Starting
<1> DEFINE me == [rank[r] EXCEPT !.at = "replicate"]
           gives == Gathered(r, "scatter")
<1>3. /\ rank' = [rank EXCEPT ![r] = me] /\ Calls(r, "replicate", gives)
      /\ UNCHANGED <<surface, seen, dirs>>
    BY DEF Flush, Moves
<1>4. gives = Gives(r, n, "replicate")
    <2>1. "scatter" \in Named \ {"exit"} /\ CommOf("scatter") = "fsdp"
        BY DEF Named, CommOf
    <2>2. gives = [p \in Peers("fsdp", r) |-> Gives(p, n, "scatter")]
        BY <1>1, <1>2, <2>1, Brought
    <2> QED BY <2>2 DEF Gives
<1> HIDE DEF gives
<1>5. MemInv(me, r, n, "replicate")
    <2>1. /\ IsMe(me) /\ me.at = "replicate" /\ me.st = rank[r].st /\ me.due = rank[r].due
          /\ me.lastCkpt = rank[r].lastCkpt /\ me.sigterm = rank[r].sigterm
          /\ me.loss = rank[r].loss
        BY <1>2, Relocated
    <2>2. /\ rank[r].due = FALSE /\ rank[r].loss = LossAt(r, n)
          /\ rank[r].lastCkpt = Course[n - 1].last /\ rank[r].sigterm \in BOOLEAN
        BY <1>1, <1>2 DEF MemInv, Stepping, Taking
    <2>3. HeldAt(n, "scatter") = HeldAt(n, "replicate")
        BY DEF HeldAt, Starting, Taking
    <2> HIDE DEF me
    <2> QED BY <1>2, <2>1, <2>2, <2>3
            DEF MemInv, Stands, Starting, Stepping, Taking, Decided, Hashing, Saving
<1>6. PaceInv(n, "replicate") /\ PutInv(r, n, "replicate")
    BY <1>2 DEF PaceInv, PutInv, PutIs, Starting, Decided, Hashing, Saving
<1> HIDE DEF me
<1>7. Follows("scatter", "replicate")
    BY DEF Follows
<1>8. /\ \A c \in Comms : Made(c, "replicate") =
             IF c = CommOf("replicate") THEN Made(c, "scatter") + 1 ELSE Made(c, "scatter")
      /\ "scatter" \in Places /\ "replicate" \in Named /\ "replicate" \notin Starting
    BY <1>7, NextCall
<1> QED BY <1>2, <1>3, <1>4, <1>5, <1>6, <1>8, Entered

LEMMA FoldNormStep == ASSUME LockInv, NEW r \in Ranks, FoldNorm(r) PROVE LockInv'
<1>1. rank[r].at = "replicate" /\ Completed(r, "replicate")
    BY DEF FoldNorm, Completed
<1>2. PICK n \in Nat \ {0} :
         /\ RankInv(r, n, "replicate") /\ LogInv(r, n, "replicate") /\ PaceInv(n, "replicate")
         /\ PutInv(r, n, "replicate") /\ MemInv(rank[r], r, n, "replicate") /\ IsMe(rank[r])
         /\ n \in Nat /\ n # 0 /\ rank[r].st = ShareOf(HeldAt(n, "replicate"), r)
    BY <1>1, InStep DEF Named, Starting
<1> DEFINE rows == Gathered(r, "replicate")
           whole == [p \in Ranks |->
                        (CHOOSE row \in {rows[q] : q \in DOMAIN rows} : p \in DOMAIN row)[p]]
           gives == ShardClass(r, whole)
           grads == RoundsOf([p \in Ranks |-> whole[p].rounds])
           me == [at |-> "norm", st |-> rank[r].st, grads |-> grads, loss |-> rank[r].loss,
                  due |-> rank[r].due, shardState |-> rank[r].shardState,
                  stamp |-> rank[r].stamp, lastCkpt |-> rank[r].lastCkpt,
                  sigterm |-> rank[r].sigterm]
<1>3. /\ rank' = [rank EXCEPT ![r].at = "norm", ![r].grads = grads]
      /\ Calls(r, "norm", gives) /\ UNCHANGED <<surface, seen, dirs>>
    BY DEF FoldNorm
<1>4. whole = PartsAt(n)
    <2>1. "replicate" \in Named \ {"exit"} /\ CommOf("replicate") = "dp_replicate"
        BY DEF Named, CommOf
    <2>2. rows = [p \in Peers("dp_replicate", r) |-> Gives(p, n, "replicate")]
        BY <1>1, <1>2, <2>1, Brought
    <2> HIDE DEF rows
    <2>3. \A p \in Ranks : whole[p] = PartAt(p, n)
        BY <2>2, RowsAre
    <2> QED BY <2>3 DEF PartsAt
<1> HIDE DEF whole
<1>5. gives = Gives(r, n, "norm")
    BY <1>4 DEF Gives
<1>6. grads = BatchesAt(n)
    <2>1. \A p \in Ranks : whole[p].rounds = RankShare(BatchesAt(n), p)
        BY <1>4 DEF PartsAt, PartAt, ShareAt
    <2> DEFINE parts == [p \in Ranks |-> whole[p].rounds]
    <2>2. \A p \in Ranks : parts[p] = RankShare(BatchesAt(n), p)
        BY <2>1
    <2>3. BatchesAt(n) \in Seq(Nat)
        BY AtFacts
    <2> HIDE DEF parts
    <2>4. RoundsOf(parts) = BatchesAt(n)
        BY <2>2, <2>3, RoundsAre
    <2> QED BY <2>4 DEF parts
<1> HIDE DEF gives, grads
<1>7. rank' = [rank EXCEPT ![r] = me]
    <2>1. rank' = [rank EXCEPT ![r] = [rank[r] EXCEPT !.at = "norm", !.grads = grads]]
        BY <1>3
    <2>2. PICK a, b, c, d, e, f, g, h, k :
             rank[r] = [at |-> a, st |-> b, grads |-> c, loss |-> d, due |-> e,
                        shardState |-> f, stamp |-> g, lastCkpt |-> h, sigterm |-> k]
        BY <1>2 DEF IsMe
    <2>3. ASSUME NEW new, new = [rank[r] EXCEPT !.at = "norm", !.grads = grads]
          PROVE  new = me
        BY <2>2, <2>3
    <2> QED BY <2>1, <2>3
<1>8. MemInv(me, r, n, "norm")
    <2>1. /\ rank[r].due = FALSE /\ rank[r].loss = LossAt(r, n)
          /\ rank[r].lastCkpt = Course[n - 1].last /\ rank[r].sigterm \in BOOLEAN
        BY <1>1, <1>2 DEF MemInv, Stepping, Taking
    <2>2. HeldAt(n, "replicate") = HeldAt(n, "norm")
        BY DEF HeldAt, Starting, Taking
    <2> QED BY <1>2, <1>6, <2>1, <2>2
            DEF MemInv, IsMe, Stands, Starting, Stepping, Taking, Decided, Hashing, Saving
<1>9. PaceInv(n, "norm") /\ PutInv(r, n, "norm")
    BY <1>2 DEF PaceInv, PutInv, PutIs, Starting, Decided, Hashing, Saving
<1> HIDE DEF me
<1>10. Follows("replicate", "norm")
    BY DEF Follows
<1>11. /\ \A c \in Comms : Made(c, "norm") =
             IF c = CommOf("norm") THEN Made(c, "replicate") + 1 ELSE Made(c, "replicate")
       /\ "replicate" \in Places /\ "norm" \in Named /\ "norm" \notin Starting
    BY <1>10, NextCall
<1> QED BY <1>2, <1>3, <1>5, <1>7, <1>8, <1>9, <1>11, Entered

\* The rank's own loss adds nothing to the norm all ranks agree on.
LEMMA GateIs ==
    ASSUME LockInv, NEW r \in Ranks, NEW n \in Nat \ {0}, RankInv(r, n, "norm"),
           Completed(r, "norm"), rank[r].loss = LossAt(r, n)
    PROVE  GateClass(r) = ClassAt(n)
<1>1. GlobalNorm(r) = ClassAt(n)
    <2> DEFINE norms == Gathered(r, "norm")
    <2>1. "norm" \in Named \ {"exit"} /\ CommOf("norm") = "fsdp" /\ n \in Nat
        BY DEF Named, CommOf
    <2>2. norms = [p \in Peers("fsdp", r) |-> Gives(p, n, "norm")]
        BY <2>1, Brought
    <2> HIDE DEF norms
    <2>3. Worst({norms[p] : p \in Peers("fsdp", r)}) = ClassAt(n)
        BY <2>2, NormIs
    <2> QED BY <2>3 DEF GlobalNorm, norms
<1>2. ASSUME LossAt(r, n) = "nan"
      PROVE  ClassAt(n) = "nan"
    <2>1. "nan" \in {LossAt(p, n) : p \in Ranks}
        BY <1>2
    <2>2. Worst({LossAt(p, n) : p \in Ranks}) = "nan"
        BY <2>1 DEF Worst
    <2> QED BY <2>2, LossClass
<1> QED BY <1>1, <1>2 DEF GateClass

LEMMA HaltRankStep == ASSUME LockInv, NEW r \in Ranks, HaltRank(r) PROVE LockInv'
<1>1. rank[r].at = "norm" /\ Completed(r, "norm")
    BY DEF HaltRank, Completed
<1>2. PICK n \in Nat \ {0} :
         /\ RankInv(r, n, "norm") /\ LogInv(r, n, "norm") /\ PaceInv(n, "norm")
         /\ PutInv(r, n, "norm") /\ MemInv(rank[r], r, n, "norm") /\ IsMe(rank[r])
         /\ n \in Nat /\ rank[r].st = ShareOf(HeldAt(n, "norm"), r)
    BY <1>1, InStep DEF Named, Starting
<1> DEFINE me == [rank[r] EXCEPT !.at = "halted"]
<1>3. rank' = [rank EXCEPT ![r] = me] /\ UNCHANGED <<surface, seen, calls, dirs>>
    BY DEF HaltRank, Moves
<1>4. MemInv(me, r, n, "norm")
    <2>1. /\ IsMe(me) /\ me.at = "halted" /\ me.st = rank[r].st /\ me.due = rank[r].due
          /\ me.lastCkpt = rank[r].lastCkpt /\ me.sigterm = rank[r].sigterm
          /\ me.loss = rank[r].loss /\ me.grads = rank[r].grads
        BY <1>2, Relocated
    <2>2. /\ rank[r].due = FALSE /\ rank[r].loss = LossAt(r, n) /\ rank[r].grads = BatchesAt(n)
          /\ rank[r].lastCkpt = Course[n - 1].last /\ rank[r].sigterm \in BOOLEAN
        BY <1>1, <1>2 DEF MemInv, Stepping, Taking
    <2>3. RaisesHalt(At(n - 1).spike, ClassAt(n), n - 1)
        <3>1. RaisesHalt(rank[r].st.spike, GateClass(r), rank[r].st.step)
            BY DEF HaltRank
        <3>2. GateClass(r) = ClassAt(n)
            BY <1>1, <1>2, <2>2, GateIs
        <3>3. rank[r].st.spike = At(n - 1).spike /\ rank[r].st.step = n - 1
            <4> DEFINE b == BegunAt(n)
            <4>1. IsState(b) /\ b.step = n - 1 /\ b.spike = At(n - 1).spike
                BY HeldFacts
            <4>2. rank[r].st = ShareOf(b, r)
                BY <1>2 DEF HeldAt, Starting, Taking
            <4> HIDE DEF b
            <4>3. ShareOf(b, r).step = b.step /\ ShareOf(b, r).spike = b.spike
                <5>1. ShareOf(b, r) = [b EXCEPT !.data = RankShare(b.data, r)]
                    BY DEF ShareOf
                <5> QED BY <4>1, <5>1 DEF IsState
            <4> QED BY <4>1, <4>2, <4>3
        <3> QED BY <3>1, <3>2, <3>3
    <2> HIDE DEF me
    <2> QED BY <1>2, <2>1, <2>2, <2>3
            DEF MemInv, Stands, Starting, Stepping, Taking, Decided, Hashing, Saving
<1> HIDE DEF me
<1>5. "norm" \in Places
    BY DEF Places, Stepping, Taking
<1> QED BY <1>2, <1>3, <1>4, <1>5, Moved

LEMMA UpdateWeightsStep == ASSUME LockInv, NEW r \in Ranks, UpdateWeights(r) PROVE LockInv'
<1>1. rank[r].at = "norm" /\ Completed(r, "norm")
    BY DEF UpdateWeights, Completed
<1>2. PICK n \in Nat \ {0} :
         /\ RankInv(r, n, "norm") /\ LogInv(r, n, "norm") /\ PaceInv(n, "norm")
         /\ PutInv(r, n, "norm") /\ MemInv(rank[r], r, n, "norm") /\ IsMe(rank[r])
         /\ n \in Nat /\ n # 0 /\ rank[r].st = ShareOf(HeldAt(n, "norm"), r)
    BY <1>1, InStep DEF Named, Starting
<1>3. /\ rank[r].due = FALSE /\ rank[r].loss = LossAt(r, n) /\ rank[r].grads = BatchesAt(n)
      /\ rank[r].lastCkpt = Course[n - 1].last /\ rank[r].sigterm \in BOOLEAN
    BY <1>1, <1>2 DEF MemInv, Stepping, Taking
<1> DEFINE st == Stepped(rank[r].st, rank[r].grads, GateClass(r))
           gives == rank[r].loss
           me == [at |-> "loss", st |-> st, grads |-> rank[r].grads, loss |-> rank[r].loss,
                  due |-> rank[r].due, shardState |-> rank[r].shardState,
                  stamp |-> rank[r].stamp, lastCkpt |-> rank[r].lastCkpt,
                  sigterm |-> rank[r].sigterm]
<1>4. /\ rank' = [rank EXCEPT ![r].at = "loss", ![r].st = st]
      /\ Calls(r, "loss", gives) /\ UNCHANGED <<surface, seen, dirs>>
    BY DEF UpdateWeights
<1>5. st = ShareOf(BeforeHash(At(n - 1), ClassAt(n)), r)
    <2>1. GateClass(r) = ClassAt(n)
        BY <1>1, <1>2, <1>3, GateIs
    <2>2. HeldAt(n, "norm") = BegunAt(n)
        BY DEF HeldAt, Starting, Taking
    <2>3. st = Stepped(ShareOf(BegunAt(n), r), BatchesAt(n), ClassAt(n))
        BY <1>2, <1>3, <2>1, <2>2
    <2>4. IsState(BegunAt(n))
        BY HeldFacts
    <2>5. Stepped(ShareOf(BegunAt(n), r), BatchesAt(n), ClassAt(n)) =
             ShareOf(Stepped(BegunAt(n), BatchesAt(n), ClassAt(n)), r)
        BY <2>4, SteppedShare
    <2>6. BeforeHash(At(n - 1), ClassAt(n)) = Stepped(BegunAt(n), BatchesAt(n), ClassAt(n))
        BY HeldFacts
    <2> QED BY <2>3, <2>5, <2>6
<1>6. gives = Gives(r, n, "loss")
    BY <1>3 DEF Gives
<1> HIDE DEF st, gives
<1>7. rank' = [rank EXCEPT ![r] = me]
    <2>1. rank' = [rank EXCEPT ![r] = [rank[r] EXCEPT !.at = "loss", !.st = st]]
        BY <1>4
    <2>2. PICK a, b, c, d, e, f, g, h, k :
             rank[r] = [at |-> a, st |-> b, grads |-> c, loss |-> d, due |-> e,
                        shardState |-> f, stamp |-> g, lastCkpt |-> h, sigterm |-> k]
        BY <1>2 DEF IsMe
    <2>3. ASSUME NEW new, new = [rank[r] EXCEPT !.at = "loss", !.st = st]
          PROVE  new = me
        BY <2>2, <2>3
    <2> QED BY <2>1, <2>3
<1>8. MemInv(me, r, n, "loss")
    <2>1. HeldAt(n, "loss") = BeforeHash(At(n - 1), ClassAt(n))
        BY DEF HeldAt, Starting, Taking
    <2> QED BY <1>3, <1>5, <2>1
            DEF MemInv, IsMe, Stands, Starting, Stepping, Taking, Decided, Hashing, Saving
<1>9. PaceInv(n, "loss") /\ PutInv(r, n, "loss")
    BY <1>2 DEF PaceInv, PutInv, PutIs, Starting, Decided, Hashing, Saving
<1> HIDE DEF me
<1>10. Follows("norm", "loss")
    BY DEF Follows
<1>11. /\ \A c \in Comms : Made(c, "loss") =
             IF c = CommOf("loss") THEN Made(c, "norm") + 1 ELSE Made(c, "norm")
       /\ "norm" \in Places /\ "loss" \in Named /\ "loss" \notin Starting
    BY <1>10, NextCall
<1> QED BY <1>2, <1>4, <1>6, <1>7, <1>8, <1>9, <1>11, Entered

-----------------------------------------------------------------------------
(* The exit check and the hash *)

LEMMA AskExitStep == ASSUME LockInv, NEW r \in Ranks, AskExit(r) PROVE LockInv'
<1>1. rank[r].at = "loss"
    BY DEF AskExit, Completed
<1>2. PICK n \in Nat \ {0} :
         /\ LogInv(r, n, "loss") /\ PaceInv(n, "loss")
         /\ PutInv(r, n, "loss") /\ MemInv(rank[r], r, n, "loss") /\ IsMe(rank[r])
         /\ n \in Nat /\ n # 0 /\ rank[r].st = ShareOf(HeldAt(n, "loss"), r)
    BY <1>1, InStep DEF Named, Starting
<1> DEFINE me == [rank[r] EXCEPT !.at = "exit"]
           gives == rank[r].sigterm
<1>3. /\ rank' = [rank EXCEPT ![r] = me] /\ Calls(r, "exit", gives)
      /\ UNCHANGED <<surface, seen, dirs>>
    BY DEF AskExit, Moves
<1>4. gives \in BOOLEAN
    BY <1>2 DEF MemInv
<1> HIDE DEF gives
<1>5. MemInv(me, r, n, "exit")
    <2>1. /\ IsMe(me) /\ me.at = "exit" /\ me.st = rank[r].st /\ me.due = rank[r].due
          /\ me.lastCkpt = rank[r].lastCkpt /\ me.sigterm = rank[r].sigterm
          /\ me.grads = rank[r].grads
        BY <1>2, Relocated
    <2>2. /\ rank[r].due = FALSE /\ rank[r].grads = BatchesAt(n)
          /\ rank[r].lastCkpt = Course[n - 1].last /\ rank[r].sigterm \in BOOLEAN
        BY <1>1, <1>2 DEF MemInv, Stepping
    <2>3. HeldAt(n, "loss") = HeldAt(n, "exit")
        BY DEF HeldAt, Starting, Taking
    <2> HIDE DEF me
    <2> QED BY <1>2, <2>1, <2>2, <2>3
            DEF MemInv, Stands, Starting, Stepping, Taking, Decided, Hashing, Saving
<1>6. PaceInv(n, "exit") /\ PutInv(r, n, "exit")
    BY <1>2 DEF PaceInv, PutInv, PutIs, Starting, Decided, Hashing, Saving
<1> HIDE DEF me
<1>7. Follows("loss", "exit")
    BY DEF Follows
<1>8. /\ \A c \in Comms : Made(c, "exit") =
             IF c = CommOf("exit") THEN Made(c, "loss") + 1 ELSE Made(c, "loss")
      /\ "loss" \in Places /\ "exit" \in Named /\ "exit" \notin Starting
    BY <1>7, NextCall
<1> QED BY <1>2, <1>3, <1>4, <1>5, <1>6, <1>8, Entered

\* The all-reduced flag is everybody's answer.
LEMMA ExitIs ==
    ASSUME LockInv, NEW r \in Ranks, NEW n \in Nat \ {0}, RankInv(r, n, "exit"),
           Completed(r, "exit")
    PROVE  AllPassed(n) /\ ExitDue(r) = Stops(n) /\ Stops(n) \in BOOLEAN
<1>1. \A p \in Ranks : \E m \in Nat, pl \in Places : RankInv(p, m, pl)
    BY DEF LockInv
<1>2. "exit" \in Named /\ "world" = CommOf("exit") /\ 2 = Made("world", "exit") /\ n \in Nat
      /\ Peers("world", r) = Ranks
    BY DEF Named, CommOf, Made, Peers, Decided
<1> DEFINE e == Base("world", n) + 2
<1>3. /\ \A p \in Peers("world", r) : Len(calls[p]["world"]) >= e
      /\ Gathered(r, "exit") = [p \in Peers("world", r) |-> calls[p]["world"][e].gives]
    BY <1>1, <1>2, GatheredIs
<1>4. AllPassed(n)
    BY <1>2, <1>3 DEF AllPassed
<1>5. ExitDue(r) = (\E p \in Ranks : calls[p]["world"][e].gives)
    <2>1. \A p \in Ranks : Gathered(r, "exit")[p] = calls[p]["world"][e].gives
        BY <1>2, <1>3
    <2>2. ExitDue(r) = (\E p \in Ranks : Gathered(r, "exit")[p])
        BY DEF ExitDue
    <2> HIDE DEF e
    <2>3. (\E p \in Ranks : Gathered(r, "exit")[p])
             = (\E p \in Ranks : calls[p]["world"][e].gives)
        BY <2>1
    <2> QED BY <2>2, <2>3
<1>6. Stops(n) = (\E p \in Ranks : calls[p]["world"][e].gives)
    BY DEF Stops
<1>7. Stops(n) \in BOOLEAN
    BY <1>6
<1> QED BY <1>4, <1>5, <1>6, <1>7

LEMMA Cadence ==
    ASSUME NEW n \in Nat \ {0}, NEW me, me.st.step = n, me.st.consumed = At(n).consumed,
           me.lastCkpt = Course[n - 1].last
    PROVE  /\ \A due : HashNeeded(me, due) <=> HashesAt(n) \/ due
           /\ SaveDue(me) <=> SavesAt(n) \/ me.due
           /\ HashDue(n) => HashesAt(n)
<1>1. At(n).step = n
    BY HeldFacts
<1>2. /\ MeAt(n).st.step = n /\ MeAt(n).st.consumed = At(n).consumed
      /\ MeAt(n).lastCkpt = Course[n - 1].last /\ MeAt(n).due = FALSE
    BY <1>1 DEF MeAt, Undisturbed
<1>3. CkptDue(me) <=> CkptDue(MeAt(n))
    BY <1>2 DEF CkptDue
<1>4. FinalStep(me) <=> FinalStep(MeAt(n))
    BY <1>2 DEF FinalStep
<1>5. SaveDue(me) <=> SavesAt(n) \/ me.due
    BY <1>2, <1>3, <1>4 DEF SaveDue, SavesAt
<1>6. \A due : HashNeeded(me, due) <=> HashesAt(n) \/ due
    BY <1>2, <1>3, <1>4 DEF HashNeeded, HashesAt
<1>7. HashDue(n) => HashesAt(n)
    BY <1>2 DEF HashNeeded, HashesAt
<1> QED BY <1>5, <1>6, <1>7

LEMMA CourseLast ==
    ASSUME NEW n \in Nat \ {0}
    PROVE  Course[n].last = IF SavesAt(n) THEN At(n).consumed ELSE Course[n - 1].last
<1>1. Course[n] = Onward(surface, Course[n - 1])
    BY CourseIs
<1> DEFINE past == Course[n - 1]
           st == After(past.st, StepClass(surface, past.st))
           me == Undisturbed(st, past.last)
           all == [c \in Comms |-> past.calls[c] + CallsOf(c, me)]
<1>2. Onward(surface, past) =
         [st |-> st, last |-> IF SaveDue(me) THEN st.consumed ELSE past.last, calls |-> all]
    BY DEF Onward
<1> HIDE DEF st, me, all
<1>3. At(n) = st /\ Course[n].last = IF SaveDue(me) THEN st.consumed ELSE past.last
    BY <1>1, <1>2 DEF At
<1>4. MeAt(n) = me
    BY <1>3 DEF MeAt, me
<1> QED BY <1>3, <1>4 DEF SavesAt

\* A rank's memory between its step and its hash.
LEMMA Hashable ==
    ASSUME NEW n \in Nat \ {0}, NEW r \in Ranks,
           NEW place \in {"loss", "exit"} \cup Hashing, NEW me,
           me.st = ShareOf(HeldAt(n, place), r), me.lastCkpt = Course[n - 1].last
    PROVE  /\ me.st = ShareOf(BeforeHash(At(n - 1), ClassAt(n)), r)
           /\ IsState(me.st) /\ me.st.step = n /\ me.st.consumed = At(n).consumed
           /\ me.st.data = DataAt(r, n) /\ me.st.weights = At(n).weights
           /\ me.st.moments = At(n).moments
           /\ \A due : HashNeeded(me, due) <=> HashesAt(n) \/ due
           /\ SaveDue(me) <=> SavesAt(n) \/ me.due
           /\ HashDue(n) => HashesAt(n)
<1> DEFINE b == BeforeHash(At(n - 1), ClassAt(n))
<1>1. HeldAt(n, place) = b
    BY DEF HeldAt, Starting, Taking, Hashing
<1>2. /\ IsState(b) /\ b.step = n /\ b.consumed = At(n).consumed /\ b.data = At(n).data
      /\ b.weights = At(n).weights /\ b.moments = At(n).moments
    BY HeldFacts
<1> HIDE DEF b
<1> DEFINE sh == ShareOf(b, r)
<1>3. /\ sh = [step |-> b.step, consumed |-> b.consumed, weights |-> b.weights,
               moments |-> b.moments, lr |-> b.lr, rng |-> b.rng, pos |-> b.pos,
               data |-> RankShare(b.data, r), chain |-> b.chain, spike |-> b.spike,
               anchor |-> b.anchor]
      /\ IsState(sh)
    BY <1>2, ShareFields
<1> HIDE DEF sh
<1>4. me.st = sh
    BY <1>1 DEF sh
<1>5. /\ sh.step = n /\ sh.consumed = At(n).consumed /\ sh.data = DataAt(r, n)
      /\ sh.weights = At(n).weights /\ sh.moments = At(n).moments
    BY <1>2, <1>3 DEF DataAt
<1>6. me.st.step = n /\ me.st.consumed = At(n).consumed
    BY <1>4, <1>5
<1>7. /\ \A due : HashNeeded(me, due) <=> HashesAt(n) \/ due
      /\ SaveDue(me) <=> SavesAt(n) \/ me.due
      /\ HashDue(n) => HashesAt(n)
    BY <1>6, Cadence
<1> QED BY <1>3, <1>4, <1>5, <1>7 DEF b, sh

LEMMA HashShardStep == ASSUME LockInv, NEW r \in Ranks, HashShard(r) PROVE LockInv'
<1>1. rank[r].at = "exit" /\ Completed(r, "exit")
    BY DEF HashShard, Completed
<1>2. PICK n \in Nat \ {0} :
         /\ RankInv(r, n, "exit") /\ LogInv(r, n, "exit") /\ PaceInv(n, "exit")
         /\ PutInv(r, n, "exit") /\ MemInv(rank[r], r, n, "exit") /\ IsMe(rank[r])
         /\ n \in Nat /\ n # 0 /\ rank[r].st = ShareOf(HeldAt(n, "exit"), r)
    BY <1>1, InStep DEF Named, Starting
<1>3. /\ rank[r].due = FALSE /\ rank[r].grads = BatchesAt(n)
      /\ rank[r].lastCkpt = Course[n - 1].last /\ rank[r].sigterm \in BOOLEAN
    BY <1>1, <1>2 DEF MemInv, Stepping
<1> DEFINE due == ExitDue(r)
           gives == [weights |-> rank[r].st.weights, moments |-> rank[r].st.moments,
                     grads |-> rank[r].grads]
           me == [at |-> "state", st |-> rank[r].st, grads |-> rank[r].grads,
                  loss |-> rank[r].loss, due |-> due, shardState |-> rank[r].shardState,
                  stamp |-> rank[r].stamp, lastCkpt |-> rank[r].lastCkpt,
                  sigterm |-> rank[r].sigterm]
<1>4. /\ rank' = [rank EXCEPT ![r].at = "state", ![r].due = due]
      /\ Calls(r, "state", gives) /\ UNCHANGED <<surface, seen, dirs>>
      /\ HashNeeded(rank[r], due)
    BY DEF HashShard
<1>5. AllPassed(n) /\ due = Stops(n)
    BY <1>1, <1>2, ExitIs
<1> HIDE DEF due
<1>6. /\ rank[r].st.weights = At(n).weights /\ rank[r].st.moments = At(n).moments
      /\ HashesAt(n) \/ Stops(n)
    <2> DEFINE old == rank[r]
    <2>1. old.st = ShareOf(HeldAt(n, "exit"), r) /\ old.lastCkpt = Course[n - 1].last
        BY <1>2, <1>3
    <2>2. HashNeeded(old, due)
        BY <1>4
    <2> HIDE DEF old
    <2>3. /\ old.st.weights = At(n).weights /\ old.st.moments = At(n).moments
          /\ \A d : HashNeeded(old, d) <=> HashesAt(n) \/ d
        BY <2>1, Hashable
    <2> QED BY <1>5, <2>2, <2>3 DEF old
<1>7. gives = Gives(r, n, "state")
    BY <1>3, <1>6 DEF Gives
<1> HIDE DEF gives
<1>8. rank' = [rank EXCEPT ![r] = me]
    <2>1. rank' = [rank EXCEPT ![r] = [rank[r] EXCEPT !.at = "state", !.due = due]]
        BY <1>4
    <2>2. PICK a, b, c, d, e, f, g, h, k :
             rank[r] = [at |-> a, st |-> b, grads |-> c, loss |-> d, due |-> e,
                        shardState |-> f, stamp |-> g, lastCkpt |-> h, sigterm |-> k]
        BY <1>2 DEF IsMe
    <2>3. ASSUME NEW new, new = [rank[r] EXCEPT !.at = "state", !.due = due]
          PROVE  new = me
        BY <2>2, <2>3
    <2> QED BY <2>1, <2>3
<1>9. MemInv(me, r, n, "state")
    <2>1. HeldAt(n, "exit") = HeldAt(n, "state")
        BY DEF HeldAt, Starting, Taking, Hashing
    <2> QED BY <1>2, <1>3, <1>5, <2>1
            DEF MemInv, IsMe, Stands, Starting, Stepping, Taking, Decided, Hashing, Saving
<1>10. PaceInv(n, "state")
    BY <1>2, <1>5, <1>6 DEF PaceInv, Starting, Decided, Hashing, Saving
<1>11. PutInv(r, n, "state")
    BY <1>2 DEF PutInv, PutIs
<1> HIDE DEF me
<1>12. Follows("exit", "state")
    BY DEF Follows
<1>13. /\ \A c \in Comms : Made(c, "state") =
             IF c = CommOf("state") THEN Made(c, "exit") + 1 ELSE Made(c, "exit")
       /\ "exit" \in Places /\ "state" \in Named /\ "state" \notin Starting
    BY <1>12, NextCall
<1> QED BY <1>2, <1>4, <1>7, <1>8, <1>9, <1>10, <1>11, <1>13, Entered

-----------------------------------------------------------------------------
(* From an iteration to the next *)

LEMMA PaceTop ==
    ASSUME NEW n \in Nat \ {0}, NEW place, PaceInv(n, place), AllPassed(n), ~Stops(n)
    PROVE  PaceInv(n + 1, "top")
<1>1. \A m \in 1 .. (n + 1) - 1 : m = n \/ m \in 1 .. n - 1
    OBVIOUS
<1>2. \A m \in 1 .. (n + 1) - 1 : AllPassed(m) /\ ~Stops(m)
    BY <1>1 DEF PaceInv
<1>3. n + 1 # 0 /\ "top" \notin Starting /\ "top" \notin Decided /\ "top" \notin Hashing
      /\ "top" \notin Saving
    BY DEF Starting, Decided, Hashing, Saving
<1> QED BY <1>2, <1>3 DEF PaceInv

LEMMA MemTop ==
    ASSUME NEW n \in Nat \ {0}, NEW r, NEW me, IsMe(me), me.at = "top",
           me.st = ShareOf(At(n), r), me.due = FALSE, me.lastCkpt = Course[n].last,
           me.sigterm \in BOOLEAN
    PROVE  MemInv(me, r, n + 1, "top")
<1>1. (n + 1) - 1 = n
    OBVIOUS
<1>2. HeldAt(n + 1, "top") = At(n)
    BY <1>1 DEF HeldAt, Starting
<1> QED BY <1>1, <1>2 DEF MemInv, Stands, Starting, Stepping, Taking, Decided, Hashing, Saving

LEMMA PutTop ==
    ASSUME NEW n \in Nat \ {0}, NEW r, NEW place, NEW ds, PutIs(ds, r, n, place),
           SavesAt(n) => place \in {"shards", "files", "seal", "exited"}
    PROVE  PutIs(ds, r, n + 1, "top")
<1>1. \A m \in 1 .. (n + 1) - 1 : m = n \/ m \in 1 .. n - 1
    OBVIOUS
<1> QED BY <1>1 DEF PutIs

\* All calls of an iteration are made where it ends.
LEMMA AllMade ==
    ASSUME NEW n \in Nat \ {0}, NEW place,
           \/ place = "exit" /\ ~HashesAt(n)
           \/ place = "batch" /\ HashesAt(n) /\ ~SavesAt(n)
           \/ place \in {"files", "seal"} /\ SavesAt(n)
    PROVE  \A c \in Comms : Made(c, place) = Count(c, n)
<1>1. \A c : Count(c, n) = CallsOf(c, MeAt(n))
    BY DEF Count
<1>2. /\ CallsOf("world", MeAt(n)) = 2 /\ CallsOf("fsdp", MeAt(n)) = 2
      /\ CallsOf("dp_replicate", MeAt(n)) = 1
      /\ CallsOf("dp_gloo", MeAt(n)) = IF SavesAt(n) THEN 3 ELSE IF HashesAt(n) THEN 2 ELSE 0
      /\ CallsOf("ckpt", MeAt(n)) = IF SavesAt(n) THEN 2 ELSE 0
    <2> DEFINE me == MeAt(n)
    <2> HIDE DEF me
    <2>1. /\ CallsOf("world", me) = 2 /\ CallsOf("fsdp", me) = 2
          /\ CallsOf("dp_replicate", me) = 1
          /\ CallsOf("dp_gloo", me) = IF SaveDue(me) THEN 3
                                      ELSE IF HashNeeded(me, FALSE) THEN 2 ELSE 0
          /\ CallsOf("ckpt", me) = IF SaveDue(me) THEN 2 ELSE 0
        BY DEF CallsOf
    <2> QED BY <2>1 DEF me, SavesAt, HashesAt
<1>3. SavesAt(n) => HashesAt(n)
    BY SavesHash
<1>4. CASE place = "exit" /\ ~HashesAt(n)
    BY <1>1, <1>2, <1>3, <1>4 DEF Comms, Made, Decided, Hashing, Saving
<1>5. CASE place = "batch" /\ HashesAt(n) /\ ~SavesAt(n)
    BY <1>1, <1>2, <1>3, <1>5 DEF Comms, Made, Decided, Hashing, Saving
<1>6. CASE place \in {"files", "seal"} /\ SavesAt(n)
    BY <1>1, <1>2, <1>3, <1>6 DEF Comms, Made, Decided, Hashing, Saving
<1> QED BY <1>4, <1>5, <1>6

LEMMA NextStepStep == ASSUME LockInv, NEW r \in Ranks, NextStep(r) PROVE LockInv'
<1>1. rank[r].at = "exit" /\ Completed(r, "exit")
    BY DEF NextStep, Completed
<1>2. PICK n \in Nat \ {0} :
         /\ RankInv(r, n, "exit") /\ LogInv(r, n, "exit") /\ PaceInv(n, "exit")
         /\ PutInv(r, n, "exit") /\ MemInv(rank[r], r, n, "exit") /\ IsMe(rank[r])
         /\ n \in Nat /\ n # 0 /\ rank[r].st = ShareOf(HeldAt(n, "exit"), r)
    BY <1>1, InStep DEF Named, Starting
<1>3. /\ rank[r].due = FALSE /\ rank[r].grads = BatchesAt(n)
      /\ rank[r].lastCkpt = Course[n - 1].last /\ rank[r].sigterm \in BOOLEAN
    BY <1>1, <1>2 DEF MemInv, Stepping
<1> DEFINE me == [at |-> "top", st |-> rank[r].st, grads |-> << >>,
                  loss |-> "calm", due |-> rank[r].due, shardState |-> rank[r].shardState,
                  stamp |-> rank[r].stamp, lastCkpt |-> rank[r].lastCkpt,
                  sigterm |-> rank[r].sigterm]
<1>4. /\ rank' = [rank EXCEPT ![r].at = "top", ![r].grads = << >>, ![r].loss = "calm"]
      /\ UNCHANGED <<surface, seen, calls, dirs>>
      /\ ~HashNeeded(rank[r], ExitDue(r))
    BY DEF NextStep
<1>5. AllPassed(n) /\ ExitDue(r) = Stops(n)
    BY <1>1, <1>2, ExitIs
<1>6. ~HashesAt(n) /\ ~Stops(n) /\ ~HashDue(n)
      /\ rank[r].st = ShareOf(BeforeHash(At(n - 1), ClassAt(n)), r)
    <2> DEFINE old == rank[r]
               due == ExitDue(r)
    <2>1. old.st = ShareOf(HeldAt(n, "exit"), r) /\ old.lastCkpt = Course[n - 1].last
        BY <1>2, <1>3
    <2>2. ~HashNeeded(old, due)
        BY <1>4
    <2> HIDE DEF old, due
    <2>3. /\ \A d : HashNeeded(old, d) <=> HashesAt(n) \/ d
          /\ HashDue(n) => HashesAt(n)
          /\ old.st = ShareOf(BeforeHash(At(n - 1), ClassAt(n)), r)
        BY <2>1, Hashable
    <2> QED BY <1>5, <2>2, <2>3 DEF old, due
<1>7. rank[r].st = ShareOf(At(n), r)
    <2>1. At(n) = BeforeHash(At(n - 1), ClassAt(n))
        BY <1>6, HeldFacts
    <2> QED BY <1>6, <2>1
<1>8. ~SavesAt(n)
    BY <1>6, SavesHash
<1>9. rank' = [rank EXCEPT ![r] = me]
    <2>1. rank' = [rank EXCEPT ![r] =
                      [rank[r] EXCEPT !.at = "top", !.grads = << >>, !.loss = "calm"]]
        BY <1>4
    <2>2. PICK a, b, c, d, e, f, g, h, k :
             rank[r] = [at |-> a, st |-> b, grads |-> c, loss |-> d, due |-> e,
                        shardState |-> f, stamp |-> g, lastCkpt |-> h, sigterm |-> k]
        BY <1>2 DEF IsMe
    <2>3. ASSUME NEW new,
                 new = [rank[r] EXCEPT !.at = "top", !.grads = << >>, !.loss = "calm"]
          PROVE  new = me
        BY <2>2, <2>3
    <2> QED BY <2>1, <2>3
<1>10. MemInv(me, r, n + 1, "top")
    <2>1. Course[n].last = Course[n - 1].last
        BY <1>8, CourseLast
    <2>2. /\ IsMe(me) /\ me.at = "top" /\ me.st = ShareOf(At(n), r) /\ me.due = FALSE
          /\ me.lastCkpt = Course[n].last /\ me.sigterm \in BOOLEAN
        BY <1>3, <1>7, <2>1 DEF IsMe
    <2> HIDE DEF me
    <2> QED BY <2>2, MemTop
<1>11. PaceInv(n + 1, "top")
    BY <1>2, <1>5, <1>6, PaceTop
<1>12. LogInv(r, n + 1, "top")
    <2>1. \A c \in Comms : Made(c, "exit") = Count(c, n)
        BY <1>6, AllMade
    <2> DEFINE log == calls[r]
    <2>2. LogIs(log, r, n, "exit") /\ "exit" \in Places
        BY <1>2 DEF LogInv, Places, Stepping
    <2> HIDE DEF log
    <2>3. LogIs(log, r, n + 1, "top")
        BY <2>1, <2>2, LogAdvances
    <2> QED BY <2>3 DEF LogInv, log
<1>13. PutInv(r, n + 1, "top")
    BY <1>2, <1>8, PutTop DEF PutInv
<1> HIDE DEF me
<1>14. "top" \in Places /\ n + 1 \in Nat
    BY DEF Places, Stepping
<1> QED BY <1>4, <1>9, <1>10, <1>11, <1>12, <1>13, <1>14, Moved

LEMMA HashBatchesStep == ASSUME LockInv, NEW r \in Ranks, HashBatches(r) PROVE LockInv'
<1>1. rank[r].at = "state" /\ Completed(r, "state")
    BY DEF HashBatches, Completed
<1>2. PICK n \in Nat \ {0} :
         /\ RankInv(r, n, "state") /\ LogInv(r, n, "state") /\ PaceInv(n, "state")
         /\ PutInv(r, n, "state") /\ MemInv(rank[r], r, n, "state") /\ IsMe(rank[r])
         /\ n \in Nat /\ n # 0 /\ rank[r].st = ShareOf(HeldAt(n, "state"), r)
    BY <1>1, InStep DEF Named, Starting
<1>3. /\ rank[r].due = Stops(n) /\ rank[r].grads = BatchesAt(n)
      /\ rank[r].lastCkpt = Course[n - 1].last /\ rank[r].sigterm \in BOOLEAN
    BY <1>1, <1>2 DEF MemInv, Stepping, Hashing, Decided
<1> DEFINE shards == Gathered(r, "state")
           gives == rank[r].st.data
           me == [at |-> "batch", st |-> rank[r].st, grads |-> rank[r].grads,
                  loss |-> rank[r].loss, due |-> rank[r].due, shardState |-> shards,
                  stamp |-> rank[r].stamp, lastCkpt |-> rank[r].lastCkpt,
                  sigterm |-> rank[r].sigterm]
<1>4. /\ rank' = [rank EXCEPT ![r].at = "batch", ![r].shardState = shards]
      /\ Calls(r, "batch", gives) /\ UNCHANGED <<surface, seen, dirs>>
    BY DEF HashBatches
<1>5. shards = [p \in Ranks |-> Gives(p, n, "state")]
    <2>1. "state" \in Named \ {"exit"} /\ Peers(CommOf("state"), r) = Ranks
        BY DEF Named, CommOf, Peers
    <2> QED BY <1>1, <1>2, <2>1, Brought
<1> HIDE DEF shards
<1>6. gives = Gives(r, n, "batch")
    <2> DEFINE old == rank[r]
    <2>1. old.st = ShareOf(HeldAt(n, "state"), r) /\ old.lastCkpt = Course[n - 1].last
          /\ "state" \in Hashing
        BY <1>2, <1>3 DEF Hashing
    <2> HIDE DEF old
    <2>2. old.st.data = DataAt(r, n)
        BY <2>1, Hashable
    <2> QED BY <2>2 DEF old, Gives
<1> HIDE DEF gives
<1>7. rank' = [rank EXCEPT ![r] = me]
    <2>1. rank' = [rank EXCEPT ![r] = [rank[r] EXCEPT !.at = "batch", !.shardState = shards]]
        BY <1>4
    <2>2. PICK a, b, c, d, e, f, g, h, k :
             rank[r] = [at |-> a, st |-> b, grads |-> c, loss |-> d, due |-> e,
                        shardState |-> f, stamp |-> g, lastCkpt |-> h, sigterm |-> k]
        BY <1>2 DEF IsMe
    <2>3. ASSUME NEW new, new = [rank[r] EXCEPT !.at = "batch", !.shardState = shards]
          PROVE  new = me
        BY <2>2, <2>3
    <2> QED BY <2>1, <2>3
<1>8. MemInv(me, r, n, "batch")
    <2>1. HeldAt(n, "state") = HeldAt(n, "batch")
        BY DEF HeldAt, Starting, Taking, Hashing
    <2> QED BY <1>2, <1>3, <1>5, <2>1
            DEF MemInv, IsMe, Stands, Starting, Stepping, Taking, Decided, Hashing, Saving
<1>9. PaceInv(n, "batch") /\ PutInv(r, n, "batch")
    BY <1>2 DEF PaceInv, PutInv, PutIs, Starting, Decided, Hashing, Saving
<1> HIDE DEF me
<1>10. Follows("state", "batch")
    BY DEF Follows
<1>11. /\ \A c \in Comms : Made(c, "batch") =
             IF c = CommOf("batch") THEN Made(c, "state") + 1 ELSE Made(c, "state")
       /\ "state" \in Places /\ "batch" \in Named /\ "batch" \notin Starting
    BY <1>10, NextCall
<1> QED BY <1>2, <1>4, <1>6, <1>7, <1>8, <1>9, <1>11, Entered

-----------------------------------------------------------------------------
(* The digest *)

LEMMA DigestIs ==
    ASSUME LockInv, NEW r \in Ranks, NEW n \in Nat \ {0}, RankInv(r, n, "batch"),
           Completed(r, "batch"), rank[r].st = ShareOf(BeforeHash(At(n - 1), ClassAt(n)), r),
           rank[r].grads = BatchesAt(n),
           rank[r].shardState = [p \in Ranks |-> Gives(p, n, "state")]
    PROVE  Digest(r) = Canonical(n)
<1> DEFINE b == BeforeHash(At(n - 1), ClassAt(n))
           G == BatchesAt(n)
           tensors == [weights |-> At(n).weights, moments |-> At(n).moments, grads |-> G]
           taken == Gathered(r, "batch")
<1>1. 0 \in Ranks
    BY Sizes
<1>2. \A p \in Ranks : rank[r].shardState[p] = tensors
    <2>1. \A p : Gives(p, n, "state") = tensors
        BY DEF Gives
    <2> HIDE DEF tensors
    <2> QED BY <2>1
<1>3. RoundsOf(taken) = At(n).data
    <2>1. "batch" \in Named \ {"exit"} /\ Peers(CommOf("batch"), r) = Ranks
        BY DEF Named, CommOf, Peers
    <2>2. taken = [p \in Ranks |-> Gives(p, n, "batch")]
        BY <2>1, Brought
    <2>3. \A p : Gives(p, n, "batch") = RankShare(At(n).data, p)
        BY DEF Gives, DataAt
    <2>4. \A p \in Ranks : taken[p] = RankShare(At(n).data, p)
        BY <2>2, <2>3
    <2>5. At(n).data \in Seq(Nat)
        BY HeldFacts
    <2> HIDE DEF taken
    <2> QED BY <2>4, <2>5, RoundsAre
<1>4. (IF \A p \in Ranks : rank[r].shardState[p] = rank[r].shardState[0]
       THEN rank[r].shardState[0].grads ELSE Scrambled) = G
    <2>1. \A p \in Ranks : rank[r].shardState[p] = rank[r].shardState[0]
        BY <1>1, <1>2
    <2>2. rank[r].shardState[0].grads = G
        BY <1>1, <1>2
    <2> QED BY <2>1, <2>2
<1>5. IsState(b) /\ b.data = At(n).data /\ Canonical(n) = StepDigest(b, G)
    BY HeldFacts
<1>6. Digest(r) = [StepDigest(ShareOf(b, r), G) EXCEPT !.data = At(n).data, !.grads = G]
    <2>1. Digest(r) = [StepDigest(rank[r].st, rank[r].grads) EXCEPT
                          !.data = RoundsOf(taken),
                          !.grads = IF \A p \in Ranks :
                                           rank[r].shardState[p] = rank[r].shardState[0]
                                    THEN rank[r].shardState[0].grads ELSE Scrambled]
        BY DEF Digest
    <2> HIDE DEF taken, b, G, tensors
    <2> QED BY <1>3, <1>4, <2>1 DEF b, G
<1> HIDE DEF b, G
<1> DEFINE sh == ShareOf(b, r)
<1>7. /\ sh.chain = b.chain /\ sh.weights = b.weights /\ sh.moments = b.moments
      /\ sh.lr = b.lr
    BY <1>5, ShareFields
<1> HIDE DEF sh
<1>8. Digest(r) = [[link |-> "digest", prev |-> sh.chain, weights |-> sh.weights,
                    moments |-> sh.moments, lr |-> sh.lr, grads |-> G, data |-> sh.data]
                      EXCEPT !.data = At(n).data, !.grads = G]
    BY <1>6 DEF StepDigest, sh
<1>9. Digest(r) = [link |-> "digest", prev |-> b.chain, weights |-> b.weights,
                   moments |-> b.moments, lr |-> b.lr, grads |-> G, data |-> At(n).data]
    BY <1>7, <1>8
<1>10. StepDigest(b, G) = [link |-> "digest", prev |-> b.chain, weights |-> b.weights,
                           moments |-> b.moments, lr |-> b.lr, grads |-> G, data |-> At(n).data]
    BY <1>5 DEF StepDigest
<1> QED BY <1>5, <1>9, <1>10

LEMMA HashedIs ==
    ASSUME LockInv, NEW r \in Ranks, NEW n \in Nat \ {0}, RankInv(r, n, "batch"),
           Completed(r, "batch")
    PROVE  /\ Hashed(r) =
                 [at |-> "batch", st |-> ShareOf(At(n), r), grads |-> rank[r].grads,
                  loss |-> rank[r].loss, due |-> Stops(n), shardState |-> rank[r].shardState,
                  stamp |-> Canonical(n), lastCkpt |-> Course[n - 1].last,
                  sigterm |-> rank[r].sigterm]
           /\ rank[r].sigterm \in BOOLEAN
           /\ SaveDue(rank[r]) <=> SavesAt(n) \/ Stops(n)
           /\ rank[r].st.data = DataAt(r, n)
<1>1. rank[r].at = "batch" /\ MemInv(rank[r], r, n, "batch")
    BY DEF Completed, RankInv
<1> DEFINE old == rank[r]
           b == BeforeHash(At(n - 1), ClassAt(n))
<1>2. /\ IsMe(old) /\ old.due = Stops(n) /\ old.grads = BatchesAt(n)
      /\ old.lastCkpt = Course[n - 1].last /\ old.sigterm \in BOOLEAN
      /\ old.shardState = [p \in Ranks |-> Gives(p, n, "state")]
      /\ old.st = ShareOf(HeldAt(n, "batch"), r)
    BY <1>1 DEF MemInv, Stepping, Hashing, Decided
<1>3. /\ old.st = ShareOf(b, r)
      /\ old.st.step = n /\ (SaveDue(old) <=> SavesAt(n) \/ old.due)
      /\ old.st.data = DataAt(r, n) /\ IsState(old.st)
    <2>1. "batch" \in Hashing
        BY DEF Hashing
    <2>2. old.st = ShareOf(HeldAt(n, "batch"), r) /\ old.lastCkpt = Course[n - 1].last
        BY <1>2
    <2> HIDE DEF old
    <2> QED BY <2>1, <2>2, Hashable
<1>4. Digest(r) = Canonical(n)
    BY <1>2, <1>3, DigestIs
<1> DEFINE chain == IF HashDue(n) THEN Canonical(n) ELSE old.st.chain
           st == [old.st EXCEPT !.chain = chain]
<1>5. st = ShareOf(At(n), r)
    <2>1. /\ IsState(b)
          /\ At(n) = IF HashDue(n) THEN [b EXCEPT !.chain = Canonical(n)] ELSE b
        BY HeldFacts
    <2> DEFINE sh == ShareOf(b, r)
    <2>2. /\ sh = [step |-> b.step, consumed |-> b.consumed, weights |-> b.weights,
                   moments |-> b.moments, lr |-> b.lr, rng |-> b.rng, pos |-> b.pos,
                   data |-> RankShare(b.data, r), chain |-> b.chain, spike |-> b.spike,
                   anchor |-> b.anchor]
          /\ sh.chain = b.chain
        <3> HIDE DEF b, sh
        <3>1. sh = [step |-> b.step, consumed |-> b.consumed, weights |-> b.weights,
                   moments |-> b.moments, lr |-> b.lr, rng |-> b.rng, pos |-> b.pos,
                   data |-> RankShare(b.data, r), chain |-> b.chain, spike |-> b.spike,
                   anchor |-> b.anchor]
            BY <2>1, ShareFields DEF sh
        <3> QED BY <3>1
    <2> HIDE DEF b, sh, old
    <2> DEFINE new == IF HashDue(n) THEN Canonical(n) ELSE b.chain
               whole(d) == [step |-> b.step, consumed |-> b.consumed, weights |-> b.weights,
                            moments |-> b.moments, lr |-> b.lr, rng |-> b.rng, pos |-> b.pos,
                            data |-> d, chain |-> new, spike |-> b.spike,
                            anchor |-> b.anchor]
    <2>3. chain = new
        BY <1>3, <2>2 DEF sh
    <2> HIDE DEF new
    <2>4. [sh EXCEPT !.chain = new] = whole(RankShare(b.data, r))
        BY <2>2
    <2>5. At(n) = whole(b.data)
        <3>1. CASE HashDue(n)
            <4>1. At(n) = [b EXCEPT !.chain = new]
                BY <2>1, <3>1 DEF new
            <4> QED BY <2>1, <4>1 DEF IsState
        <3>2. CASE ~HashDue(n)
            <4>1. At(n) = b /\ new = b.chain
                BY <2>1, <3>2 DEF new
            <4> QED BY <2>1, <4>1 DEF IsState
        <3> QED BY <3>1, <3>2
    <2>6. ShareOf(whole(b.data), r) = whole(RankShare(b.data, r))
        <3>1. whole(b.data).data = b.data
            OBVIOUS
        <3>2. ShareOf(whole(b.data), r) = [whole(b.data) EXCEPT !.data = RankShare(b.data, r)]
            BY <3>1 DEF ShareOf
        <3> QED BY <3>2
    <2> HIDE DEF whole
    <2>7. st = [sh EXCEPT !.chain = new]
        BY <1>3, <2>3 DEF sh
    <2> QED BY <2>4, <2>5, <2>6, <2>7
<1>6. Hashed(r) = [old EXCEPT !.st = st, !.stamp = Canonical(n)]
    <2>1. Hashed(r) = [old EXCEPT !.st = [old.st EXCEPT !.chain = IF HashDue(old.st.step)
                                              THEN Digest(r) ELSE old.st.chain],
                                  !.stamp = Digest(r)]
        BY DEF Hashed
    <2> QED BY <1>3, <1>4, <2>1
<1> HIDE DEF st, old
<1>7. Hashed(r) = [at |-> "batch", st |-> st, grads |-> old.grads,
                   loss |-> old.loss, due |-> old.due, shardState |-> old.shardState,
                   stamp |-> Canonical(n), lastCkpt |-> old.lastCkpt, sigterm |-> old.sigterm]
    <2>1. PICK a, bb, c, d, e, f, g, h, k :
             old = [at |-> a, st |-> bb, grads |-> c, loss |-> d, due |-> e,
                    shardState |-> f, stamp |-> g, lastCkpt |-> h, sigterm |-> k]
        BY <1>2 DEF IsMe
    <2>2. old.at = "batch"
        BY <1>1 DEF old
    <2> QED BY <1>6, <2>1, <2>2
<1> QED BY <1>2, <1>3, <1>5, <1>7 DEF old

LEMMA EndedIs ==
    ASSUME NEW at, NEW st, NEW grads, NEW loss, NEW due, NEW shards, NEW stamp, NEW last,
           NEW sigterm, NEW me,
           me = [at |-> at, st |-> st, grads |-> grads, loss |-> loss, due |-> due,
                 shardState |-> shards, stamp |-> stamp, lastCkpt |-> last,
                 sigterm |-> sigterm]
    PROVE  Ended(me) =
              [at |-> IF due THEN "exited" ELSE "top", st |-> st, grads |-> << >>,
               loss |-> "calm", due |-> due, shardState |-> << >>, stamp |-> << >>,
               lastCkpt |-> last, sigterm |-> sigterm]
<1> DEFINE e == Ended(me)
           a == IF due THEN "exited" ELSE "top"
<1>1. me.due = due
    OBVIOUS
<1>2. e = [me EXCEPT !.at = a, !.grads = << >>, !.loss = "calm", !.shardState = << >>,
                     !.stamp = << >>]
    BY <1>1 DEF Ended
<1> HIDE DEF e, a
<1>3. e = [at |-> a, st |-> st, grads |-> << >>, loss |-> "calm", due |-> due,
           shardState |-> << >>, stamp |-> << >>, lastCkpt |-> last, sigterm |-> sigterm]
    BY <1>2
<1> QED BY <1>3 DEF e, a

LEMMA EndStepStep == ASSUME LockInv, NEW r \in Ranks, EndStep(r) PROVE LockInv'
<1>1. rank[r].at = "batch" /\ Completed(r, "batch")
    BY DEF EndStep, Completed
<1>2. PICK n \in Nat \ {0} :
         /\ RankInv(r, n, "batch") /\ LogInv(r, n, "batch") /\ PaceInv(n, "batch")
         /\ PutInv(r, n, "batch") /\ n \in Nat /\ n # 0
    BY <1>1, InStep DEF Named, Starting
<1> DEFINE old == rank[r]
           hashed == Hashed(r)
           me == Ended(hashed)
<1>3. /\ rank' = [rank EXCEPT ![r] = me] /\ UNCHANGED <<surface, seen, calls, dirs>>
      /\ ~SaveDue(old)
    BY DEF EndStep
<1>4. /\ hashed = [at |-> "batch", st |-> ShareOf(At(n), r), grads |-> old.grads,
                   loss |-> old.loss, due |-> Stops(n), shardState |-> old.shardState,
                   stamp |-> Canonical(n), lastCkpt |-> Course[n - 1].last,
                   sigterm |-> old.sigterm]
      /\ old.sigterm \in BOOLEAN
      /\ ~SavesAt(n) /\ ~Stops(n)
    BY <1>1, <1>2, <1>3, HashedIs
<1>5. HashesAt(n) /\ AllPassed(n) /\ Stops(n) \in BOOLEAN
    BY <1>2, <1>4 DEF PaceInv, Hashing, Decided, Stops
<1> HIDE DEF old, hashed
<1>6. me = [at |-> "top", st |-> ShareOf(At(n), r), grads |-> << >>,
            loss |-> "calm", due |-> Stops(n), shardState |-> << >>,
            stamp |-> << >>, lastCkpt |-> Course[n - 1].last, sigterm |-> old.sigterm]
    <2>1. me = [at |-> IF Stops(n) THEN "exited" ELSE "top", st |-> ShareOf(At(n), r),
                grads |-> << >>, loss |-> "calm", due |-> Stops(n), shardState |-> << >>,
                stamp |-> << >>, lastCkpt |-> Course[n - 1].last, sigterm |-> old.sigterm]
        BY <1>4, EndedIs
    <2> HIDE DEF me
    <2> QED BY <1>4, <2>1
<1>7. MemInv(me, r, n + 1, "top")
    <2>1. Course[n].last = Course[n - 1].last
        BY <1>4, CourseLast
    <2>2. Stops(n) = FALSE
        BY <1>4, <1>5
    <2> HIDE DEF me
    <2>3. /\ IsMe(me) /\ me.at = "top" /\ me.st = ShareOf(At(n), r) /\ me.due = FALSE
          /\ me.lastCkpt = Course[n].last /\ me.sigterm \in BOOLEAN
        BY <1>4, <1>6, <2>1, <2>2 DEF IsMe
    <2> QED BY <2>3, MemTop
<1>8. PaceInv(n + 1, "top")
    BY <1>2, <1>4, <1>5, PaceTop
<1>9. LogInv(r, n + 1, "top")
    <2>1. \A c \in Comms : Made(c, "batch") = Count(c, n)
        BY <1>4, <1>5, AllMade
    <2> DEFINE log == calls[r]
    <2>2. LogIs(log, r, n, "batch") /\ "batch" \in Places
        BY <1>2 DEF LogInv, Places, Stepping, Decided, Hashing
    <2> HIDE DEF log
    <2>3. LogIs(log, r, n + 1, "top")
        BY <2>1, <2>2, LogAdvances
    <2> QED BY <2>3 DEF LogInv, log
<1>10. PutInv(r, n + 1, "top")
    BY <1>2, <1>4, PutTop DEF PutInv
<1> HIDE DEF me
<1>11. "top" \in Places /\ n + 1 \in Nat
    BY DEF Places, Stepping
<1> QED BY <1>3, <1>7, <1>8, <1>9, <1>10, <1>11, Moved

LEMMA BeginSaveStep == ASSUME LockInv, NEW r \in Ranks, BeginSave(r) PROVE LockInv'
<1>1. rank[r].at = "batch" /\ Completed(r, "batch")
    BY DEF BeginSave, Completed
<1>2. PICK n \in Nat \ {0} :
         /\ RankInv(r, n, "batch") /\ LogInv(r, n, "batch") /\ PaceInv(n, "batch")
         /\ PutInv(r, n, "batch") /\ n \in Nat /\ n # 0
    BY <1>1, InStep DEF Named, Starting
<1> DEFINE old == rank[r]
           hashed == Hashed(r)
           me == [hashed EXCEPT !.at = "saveBatch"]
           gives == rank[r].st.data
<1>3. /\ rank' = [rank EXCEPT ![r] = me] /\ UNCHANGED <<surface, seen, dirs>>
      /\ Calls(r, "saveBatch", gives) /\ SaveDue(old)
    BY DEF BeginSave
<1>4. /\ hashed = [at |-> "batch", st |-> ShareOf(At(n), r), grads |-> old.grads,
                   loss |-> old.loss, due |-> Stops(n), shardState |-> old.shardState,
                   stamp |-> Canonical(n), lastCkpt |-> Course[n - 1].last,
                   sigterm |-> old.sigterm]
      /\ old.sigterm \in BOOLEAN
      /\ SavesAt(n) \/ Stops(n)
      /\ gives = DataAt(r, n)
    BY <1>1, <1>2, <1>3, HashedIs
<1>5. gives = Gives(r, n, "saveBatch")
    BY <1>4 DEF Gives
<1> HIDE DEF old, hashed, gives
<1>6. me = [at |-> "saveBatch", st |-> ShareOf(At(n), r), grads |-> old.grads,
            loss |-> old.loss, due |-> Stops(n), shardState |-> old.shardState,
            stamp |-> Canonical(n), lastCkpt |-> Course[n - 1].last, sigterm |-> old.sigterm]
    BY <1>4
<1>7. MemInv(me, r, n, "saveBatch")
    <2>1. HeldAt(n, "saveBatch") = At(n)
        BY DEF HeldAt, Starting, Taking, Hashing
    <2> HIDE DEF me
    <2>2. IsMe(me)
        BY <1>6 DEF IsMe
    <2> QED BY <1>4, <1>6, <2>1, <2>2
            DEF MemInv, Stands, Starting, Stepping, Taking, Decided, Hashing, Saving
<1>8. PaceInv(n, "saveBatch") /\ PutInv(r, n, "saveBatch")
    BY <1>2, <1>4 DEF PaceInv, PutInv, PutIs, Starting, Decided, Hashing, Saving
<1> HIDE DEF me
<1>9. Follows("batch", "saveBatch")
    BY DEF Follows
<1>10. /\ \A c \in Comms : Made(c, "saveBatch") =
             IF c = CommOf("saveBatch") THEN Made(c, "batch") + 1 ELSE Made(c, "batch")
       /\ "batch" \in Places /\ "saveBatch" \in Named /\ "saveBatch" \notin Starting
    BY <1>9, NextCall
<1> QED BY <1>2, <1>3, <1>5, <1>7, <1>8, <1>10, Entered

-----------------------------------------------------------------------------
(* The directory *)

LEMMA DirOf ==
    ASSUME LockInv, NEW n \in Nat \ {0}
    PROVE  DirInv(n, Dir(n))
<1>1. CASE n \in DOMAIN dirs
    BY <1>1 DEF LockInv, Shape, Dir
<1>2. CASE n \notin DOMAIN dirs
    <2>1. << >> = [r \in {} |-> TensorsAt(n)] /\ DOMAIN << >> = {}
        <3> DEFINE t == TensorsAt(n)
                   f == [i \in 1 .. 0 |-> t]
        <3>1. f \in Seq({t}) /\ Len(f) = 0
            OBVIOUS
        <3>2. f = << >>
            BY <3>1
        <3>3. 1 .. 0 = {}
            OBVIOUS
        <3>4. f = [i \in {} |-> t] /\ DOMAIN f = {}
            BY <3>3
        <3> QED BY <3>2, <3>4
    <2>2. /\ EmptyDir.stamp = << >> /\ EmptyDir.shards = << >> /\ EmptyDir.files = << >>
          /\ EmptyDir.sealed = FALSE
          /\ EmptyDir = [stamp |-> EmptyDir.stamp, shards |-> EmptyDir.shards,
                         files |-> EmptyDir.files, sealed |-> EmptyDir.sealed]
        BY DEF EmptyDir
    <2>3. DOMAIN EmptyDir.shards = {}
        BY <2>1, <2>2
    <2>4. EmptyDir.shards = [r \in DOMAIN EmptyDir.shards |-> TensorsAt(n)]
        BY <2>1, <2>2, <2>3
    <2>5. DirInv(n, EmptyDir)
        <3>0. n > 0
            OBVIOUS
        <3>1. /\ EmptyDir.stamp \in {<< >>, Canonical(n)}
              /\ EmptyDir.files \in {<< >>, FilesAt(n)} /\ EmptyDir.sealed \in BOOLEAN
            BY <2>2, Zenon
        <3>2. DOMAIN EmptyDir.shards \subseteq {r \in Ranks : Writes(r)}
            BY <2>3
        <3> QED BY <2>2, <2>4, <3>0, <3>1, <3>2, Zenon DEF DirInv
    <2> QED BY <1>2, <2>5 DEF Dir
<1> QED BY <1>1, <1>2

\* A write that keeps what the directory holds keeps the volume.
LEMMA Stored ==
    ASSUME LockInv, NEW n \in Nat \ {0}, NEW d, DirInv(n, d),
           \A p \in Ranks : HasPut(Dir(n), p, n) => HasPut(d, p, n),
           Dir(n).files = FilesAt(n) => d.files = FilesAt(n),
           NEW ds, ds = [t \in (DOMAIN dirs) \cup {n} |-> IF t = n THEN d ELSE dirs[t]]
    PROVE  Keeps(ds) /\ n \in DOMAIN ds /\ ds[n] = d
<1>1. n \in DOMAIN ds /\ ds[n] = d
    OBVIOUS
<1>2. \A m \in DOMAIN dirs : m \in DOMAIN ds /\ (m # n => ds[m] = dirs[m])
    OBVIOUS
<1>3. \A m \in DOMAIN ds : m = n \/ m \in DOMAIN dirs
    OBVIOUS
<1>4. n \in DOMAIN dirs => Dir(n) = dirs[n]
    BY DEF Dir
<1>5. \A m \in DOMAIN dirs : m \in Nat /\ DirInv(m, dirs[m])
    BY DEF LockInv, Shape
<1>6. \A m \in DOMAIN ds : m \in Nat /\ DirInv(m, ds[m])
    BY <1>1, <1>2, <1>3, <1>5
<1>7. ASSUME NEW m \in DOMAIN dirs
      PROVE  /\ m \in DOMAIN ds
             /\ \A p \in Ranks : HasPut(dirs[m], p, m) => HasPut(ds[m], p, m)
             /\ dirs[m].files = FilesAt(m) => ds[m].files = FilesAt(m)
    <2>1. CASE m = n
        BY <1>1, <1>4, <2>1
    <2>2. CASE m # n
        BY <1>2, <2>2
    <2> QED BY <2>1, <2>2
<1> QED BY <1>1, <1>6, <1>7 DEF Keeps

LEMMA PutKept ==
    ASSUME NEW ds, Keeps(ds), NEW r \in Ranks, NEW n, NEW place, PutIs(dirs, r, n, place)
    PROVE  PutIs(ds, r, n, place)
BY DEF PutIs, Keeps

LEMMA PutShard ==
    ASSUME NEW n \in Nat \ {0}, NEW r \in Ranks, NEW old, DirInv(n, old), NEW d,
           d = [stamp |-> IF r = 0 THEN Canonical(n) ELSE old.stamp,
                shards |-> IF Writes(r)
                           THEN [p \in (DOMAIN old.shards) \cup {r} |->
                                    IF p = r THEN TensorsAt(n) ELSE old.shards[p]]
                           ELSE old.shards,
                files |-> old.files, sealed |-> old.sealed]
    PROVE  /\ DirInv(n, d) /\ HasPut(d, r, n) /\ d.files = old.files
           /\ \A p \in Ranks : HasPut(old, p, n) => HasPut(d, p, n)
<1>1. /\ d = [stamp |-> d.stamp, shards |-> d.shards, files |-> d.files, sealed |-> d.sealed]
      /\ d.stamp = IF r = 0 THEN Canonical(n) ELSE old.stamp
      /\ d.files = old.files /\ d.sealed = old.sealed
    OBVIOUS
<1>2. /\ old.stamp \in {<< >>, Canonical(n)}
      /\ DOMAIN old.shards \subseteq {p \in Ranks : Writes(p)}
      /\ old.shards = [p \in DOMAIN old.shards |-> TensorsAt(n)]
      /\ old.files \in {<< >>, FilesAt(n)} /\ old.sealed \in BOOLEAN
      /\ old.sealed => /\ \A p \in Ranks : HasPut(old, p, n)
                       /\ old.files = FilesAt(n)
    BY DEF DirInv
<1>3. /\ DOMAIN d.shards = IF Writes(r) THEN (DOMAIN old.shards) \cup {r} ELSE DOMAIN old.shards
      /\ d.shards = [p \in DOMAIN d.shards |-> TensorsAt(n)]
    <2>1. CASE Writes(r)
        <3>1. d.shards = [p \in (DOMAIN old.shards) \cup {r} |->
                             IF p = r THEN TensorsAt(n) ELSE old.shards[p]]
            BY <2>1
        <3>2. \A p \in (DOMAIN old.shards) \cup {r} :
                 (IF p = r THEN TensorsAt(n) ELSE old.shards[p]) = TensorsAt(n)
            BY <1>2
        <3>3. d.shards = [p \in (DOMAIN old.shards) \cup {r} |-> TensorsAt(n)]
            BY <3>1, <3>2
        <3> QED BY <2>1, <3>3
    <2>2. CASE ~Writes(r)
        BY <1>2, <2>2
    <2> QED BY <2>1, <2>2
<1>4. HasPut(d, r, n) /\ \A p \in Ranks : HasPut(old, p, n) => HasPut(d, p, n)
    BY <1>1, <1>3 DEF HasPut
<1>5. DOMAIN d.shards \subseteq {p \in Ranks : Writes(p)}
    BY <1>2, <1>3
<1>6. d.sealed => (\A p \in Ranks : HasPut(d, p, n)) /\ d.files = FilesAt(n)
    BY <1>1, <1>2, <1>4
<1>7. d.stamp \in {<< >>, Canonical(n)} /\ d.files \in {<< >>, FilesAt(n)} /\ d.sealed \in BOOLEAN
    BY <1>1, <1>2
<1>8. DirInv(n, d)
    BY <1>1, <1>3, <1>5, <1>6, <1>7 DEF DirInv
<1> QED BY <1>1, <1>4, <1>8

\* A rank's share of a step's final state.
LEMMA Savable ==
    ASSUME NEW n \in Nat \ {0}, NEW r, NEW st, st = ShareOf(At(n), r)
    PROVE  /\ st.step = n /\ st.consumed = At(n).consumed /\ st.data = DataAt(r, n)
           /\ st.weights = At(n).weights /\ st.moments = At(n).moments /\ st.rng = At(n).rng
<1> DEFINE a == At(n)
<1>1. IsState(a) /\ a.step = n
    BY HeldFacts
<1>2. ShareOf(a, r) =
         [step |-> a.step, consumed |-> a.consumed, weights |-> a.weights,
          moments |-> a.moments, lr |-> a.lr, rng |-> a.rng, pos |-> a.pos,
          data |-> RankShare(a.data, r), chain |-> a.chain, spike |-> a.spike,
          anchor |-> a.anchor]
    <2> HIDE DEF a
    <2> QED BY <1>1, ShareFields
<1>3. st = ShareOf(a, r)
    OBVIOUS
<1> HIDE DEF a
<1>4. /\ st.step = n /\ st.consumed = a.consumed /\ st.data = RankShare(a.data, r)
      /\ st.weights = a.weights /\ st.moments = a.moments /\ st.rng = a.rng
    BY <1>1, <1>2, <1>3
<1> QED BY <1>4 DEF a, DataAt

LEMMA SaveShardStep == ASSUME LockInv, NEW r \in Ranks, SaveShard(r) PROVE LockInv'
<1>1. rank[r].at = "saveBatch" /\ Completed(r, "saveBatch")
    BY DEF SaveShard, Completed
<1>2. PICK n \in Nat \ {0} :
         /\ RankInv(r, n, "saveBatch") /\ LogInv(r, n, "saveBatch") /\ PaceInv(n, "saveBatch")
         /\ PutInv(r, n, "saveBatch") /\ MemInv(rank[r], r, n, "saveBatch") /\ IsMe(rank[r])
         /\ n \in Nat /\ n # 0 /\ rank[r].st = ShareOf(HeldAt(n, "saveBatch"), r)
    BY <1>1, InStep DEF Named, Starting
<1>3. /\ rank[r].due = Stops(n) /\ rank[r].stamp = Canonical(n)
      /\ rank[r].lastCkpt = Course[n - 1].last /\ rank[r].sigterm \in BOOLEAN
    BY <1>1, <1>2 DEF MemInv, Stepping, Saving, Decided
<1>4. rank[r].st = ShareOf(At(n), r)
    BY <1>2 DEF HeldAt, Starting, Taking, Hashing
<1> DEFINE st == rank[r].st
           old == Dir(n)
           me == [rank[r] EXCEPT !.at = "shards"]
           d == [stamp |-> IF r = 0 THEN Canonical(n) ELSE old.stamp,
                 shards |-> IF Writes(r)
                            THEN [p \in (DOMAIN old.shards) \cup {r} |->
                                     IF p = r THEN TensorsAt(n) ELSE old.shards[p]]
                            ELSE old.shards,
                 files |-> old.files, sealed |-> old.sealed]
           ds == [t \in (DOMAIN dirs) \cup {n} |-> IF t = n THEN d ELSE dirs[t]]
           log == Added(calls[r], "shards", << >>)
<1>5. st.step = n /\ [weights |-> st.weights, moments |-> st.moments] = TensorsAt(n)
    <2>1. st.step = n /\ st.weights = At(n).weights /\ st.moments = At(n).moments
        BY <1>4, Savable
    <2> QED BY <2>1 DEF TensorsAt
<1>6. DirInv(n, old)
    BY DirOf
<1>7. dirs' = ds
    <2> DEFINE new == [old EXCEPT
                          !.stamp = IF r = 0 THEN rank[r].stamp ELSE @,
                          !.shards = IF Writes(r)
                                     THEN [p \in (DOMAIN @) \cup {r} |->
                                              IF p = r THEN [weights |-> st.weights,
                                                             moments |-> st.moments]
                                              ELSE @[p]]
                                     ELSE @]
    <2>1. Stores(st.step, [Dir(st.step) EXCEPT
                      !.stamp = IF r = 0 THEN rank[r].stamp ELSE @,
                      !.shards = IF Writes(r)
                                 THEN [p \in DOMAIN @ \cup {r} |->
                                          IF p = r THEN [weights |-> st.weights,
                                                         moments |-> st.moments]
                                          ELSE @[p]]
                                 ELSE @])
        BY DEF SaveShard
    <2>2. Stores(n, new)
        BY <1>5, <2>1
    <2>3. new = d
        <3>1. old = [stamp |-> old.stamp, shards |-> old.shards, files |-> old.files,
                     sealed |-> old.sealed]
            BY <1>6 DEF DirInv
        <3> DEFINE tensors == [weights |-> st.weights, moments |-> st.moments]
                   shards == IF Writes(r)
                             THEN [p \in (DOMAIN old.shards) \cup {r} |->
                                      IF p = r THEN tensors ELSE old.shards[p]]
                             ELSE old.shards
                   stamp == IF r = 0 THEN rank[r].stamp ELSE old.stamp
        <3>2. new = [old EXCEPT !.stamp = stamp, !.shards = shards]
            OBVIOUS
        <3>3. /\ shards = IF Writes(r)
                          THEN [p \in (DOMAIN old.shards) \cup {r} |->
                                   IF p = r THEN TensorsAt(n) ELSE old.shards[p]]
                          ELSE old.shards
              /\ stamp = IF r = 0 THEN Canonical(n) ELSE old.stamp
            BY <1>3, <1>5
        <3> HIDE DEF old, st, new, shards, stamp
        <3>4. new = [stamp |-> stamp, shards |-> shards, files |-> old.files,
                     sealed |-> old.sealed]
            BY <3>1, <3>2
        <3> QED BY <3>3, <3>4
    <2> HIDE DEF new, d
    <2> QED BY <2>2, <2>3 DEF Stores
<1>8. /\ DirInv(n, d) /\ HasPut(d, r, n) /\ d.files = old.files
      /\ \A p \in Ranks : HasPut(old, p, n) => HasPut(d, p, n)
    <2> HIDE DEF old
    <2> QED BY <1>6, PutShard
<1> HIDE DEF d
<1>9. Keeps(ds) /\ n \in DOMAIN ds /\ ds[n] = d
    BY <1>8, Stored
<1> HIDE DEF ds, old
<1>10. PutIs(ds, r, n, "shards")
    <2>1. PutIs(ds, r, n, "saveBatch")
        BY <1>2, <1>9, PutKept DEF PutInv
    <2> QED BY <1>8, <1>9, <2>1 DEF PutIs
<1>11. /\ rank' = [rank EXCEPT ![r] = me] /\ Calls(r, "shards", << >>)
       /\ UNCHANGED <<surface, seen>>
    BY DEF SaveShard, Moves
<1>12. MemInv(me, r, n, "shards")
    <2>1. HeldAt(n, "shards") = At(n)
        BY DEF HeldAt, Starting, Taking, Hashing
    <2>2. /\ IsMe(me) /\ me.at = "shards" /\ me.st = rank[r].st /\ me.due = rank[r].due
          /\ me.lastCkpt = rank[r].lastCkpt /\ me.sigterm = rank[r].sigterm
          /\ me.stamp = rank[r].stamp
        BY <1>2, Relocated
    <2> HIDE DEF me
    <2> QED BY <1>3, <1>4, <2>1, <2>2
            DEF MemInv, Stands, Starting, Stepping, Taking, Decided, Hashing, Saving
<1>13. PaceInv(n, "shards")
    BY <1>2 DEF PaceInv, Starting, Decided, Hashing, Saving
<1> HIDE DEF me, st
<1>14. /\ LogIs(log, r, n, "shards") /\ log = [c \in Comms |-> log[c]]
       /\ Continues(log, calls[r]) /\ "shards" \in Places
    <2> DEFINE before == calls[r]
    <2>1. LogTyped(before) /\ LogIs(before, r, n, "saveBatch")
        BY <1>2, CallsTyped DEF LogInv
    <2>2. Follows("saveBatch", "shards")
        BY DEF Follows
    <2>3. /\ \A c \in Comms : Made(c, "shards") =
                IF c = CommOf("shards") THEN Made(c, "saveBatch") + 1 ELSE Made(c, "saveBatch")
          /\ "saveBatch" \in Places /\ "shards" \in Named /\ "shards" \notin Starting
        BY <2>2, NextCall
    <2>4. << >> = Gives(r, n, "shards")
        BY DEF Gives
    <2> HIDE DEF before
    <2>5. /\ LogIs(Added(before, "shards", << >>), r, n, "shards")
          /\ LogTyped(Added(before, "shards", << >>))
          /\ Continues(Added(before, "shards", << >>), before)
        BY <1>2, <2>1, <2>3, <2>4, AddedIs
    <2>6. "shards" \in Places
        BY DEF Places, Stepping, Decided, Saving
    <2> QED BY <2>5, <2>6 DEF before, LogTyped
<1>15. Becomes(r, me, log, ds)
    <2>1. "shards" \in Named
        BY DEF Named
    <2>2. rank = [p \in Ranks |-> rank[p]]
        BY DEF LockInv, Shape
    <2>3. rank' = [p \in Ranks |-> IF p = r THEN me ELSE rank[p]]
        BY <1>11, <2>2
    <2>4. calls' = [p \in Ranks |-> IF p = r THEN log ELSE calls[p]]
        BY <1>11, <2>1, CallsAre
    <2> QED BY <1>7, <1>11, <2>3, <2>4 DEF Becomes
<1> HIDE DEF log
<1>16. Settled(r, n, "shards", me, log, ds)
    BY <1>2, <1>10, <1>12, <1>13, <1>14 DEF Settled
<1> QED BY <1>9, <1>14, <1>15, <1>16, RankMoves

\* Nobody is past a save before every rank has put its part down.
LEMMA EveryonePut ==
    ASSUME LockInv, NEW r \in Ranks, NEW n \in Nat \ {0}, RankInv(r, n, "shards"),
           Completed(r, "shards")
    PROVE  n \in DOMAIN dirs /\ \A p \in Ranks : HasPut(dirs[n], p, n)
<1>1. \A p \in Ranks : \E m \in Nat, pl \in Places : RankInv(p, m, pl)
    BY DEF LockInv
<1>2. /\ "shards" \in Named /\ "ckpt" = CommOf("shards") /\ 1 = Made("ckpt", "shards")
      /\ n \in Nat /\ n # 0 /\ Peers("ckpt", r) = Ranks /\ "ckpt" \in Comms
    BY DEF Named, CommOf, Made, Peers, Comms
<1>3. \A p \in Peers("ckpt", r) : Len(calls[p]["ckpt"]) >= Base("ckpt", n) + 1
    <2> DEFINE kind == "shards"
               c == "ckpt"
               i == 1
    <2>1. /\ kind \in Named /\ RankInv(r, n, kind) /\ Completed(r, kind)
          /\ c = CommOf(kind) /\ i = Made(c, kind) /\ n \in Nat
        BY <1>2
    <2> HIDE DEF kind, c, i
    <2>2. \A p \in Peers(c, r) : Len(calls[p][c]) >= Base(c, n) + i
        BY <1>1, <2>1, GatheredIs
    <2> QED BY <2>2 DEF c, i
<1>4. PaceInv(n, "shards")
    BY DEF RankInv
<1>5. (\A j \in 1 .. n - 1 : ~Stops(j)) /\ (SavesAt(n) \/ Stops(n))
    BY <1>4 DEF PaceInv, Saving
<1>6. n = 0 \/ ~Stops(n) => 1 <= Count("ckpt", n)
    <2>1. "shards" \in Places
        BY DEF Places, Stepping, Decided, Saving
    <2> QED BY <1>2, <1>4, <2>1, Within
<1>7. ASSUME NEW p \in Ranks
      PROVE  n \in DOMAIN dirs /\ HasPut(dirs[n], p, n)
    <2>1. PICK m \in Nat, pl \in Places : RankInv(p, m, pl)
        BY <1>1
    <2>2. Len(calls[p]["ckpt"]) >= Base("ckpt", n) + 1 /\ 1 \in Nat \ {0}
        BY <1>2, <1>3
    <2>3. /\ m = n => 1 <= Made("ckpt", pl)
          /\ m >= n
          /\ m > n => n = 0 \/ ~Stops(n)
        BY <1>2, <1>5, <1>6, <2>1, <2>2, Lookup
    <2>4. PutIs(dirs, p, m, pl)
        BY <2>1 DEF RankInv, PutInv
    <2>5. CASE m = n
        <3>1. pl \in {"shards", "files", "seal", "exited"}
            BY <2>3, <2>5 DEF Made
        <3> QED BY <2>4, <2>5, <3>1 DEF PutIs
    <2>6. CASE m > n
        <3>1. SavesAt(n) /\ n \in 1 .. m - 1
            BY <1>2, <1>5, <2>3, <2>6
        <3> QED BY <2>4, <3>1 DEF PutIs
    <2> QED BY <2>3, <2>5, <2>6
<1> QED BY <1>7, Sizes

\* A save that is over takes a rank to the next step, or out of the job.
LEMMA SaveOver ==
    ASSUME NEW r \in Ranks, NEW n \in Nat \ {0}, NEW old, IsMe(old),
           old.st = ShareOf(At(n), r), old.due = Stops(n), old.sigterm \in BOOLEAN,
           NEW me, me = Ended([old EXCEPT !.lastCkpt = old.st.consumed]),
           NEW place \in Saving, PaceInv(n, place),
           NEW last \in {"files", "seal"}, NEW log, LogIs(log, r, n, last),
           NEW put \in {"shards", "files", "seal"}, NEW ds, PutIs(ds, r, n, put)
    PROVE  \E m, pl : Settled(r, m, pl, me, log, ds)
<1>1. me = [at |-> IF Stops(n) THEN "exited" ELSE "top", st |-> old.st, grads |-> << >>,
            loss |-> "calm", due |-> Stops(n), shardState |-> << >>, stamp |-> << >>,
            lastCkpt |-> At(n).consumed, sigterm |-> old.sigterm]
    <2>1. PICK a, b, c, d, e, f, g, h, k :
             old = [at |-> a, st |-> b, grads |-> c, loss |-> d, due |-> e,
                    shardState |-> f, stamp |-> g, lastCkpt |-> h, sigterm |-> k]
        BY DEF IsMe
    <2>2. old.st.consumed = At(n).consumed
        BY Savable
    <2> DEFINE noted == [old EXCEPT !.lastCkpt = old.st.consumed]
    <2>3. noted = [at |-> a, st |-> b, grads |-> c, loss |-> d, due |-> e,
                   shardState |-> f, stamp |-> g, lastCkpt |-> At(n).consumed, sigterm |-> k]
        BY <2>1, <2>2
    <2>4. me = Ended(noted)
        OBVIOUS
    <2> HIDE DEF noted
    <2>5. Ended(noted) =
              [at |-> IF e THEN "exited" ELSE "top", st |-> b, grads |-> << >>,
               loss |-> "calm", due |-> e, shardState |-> << >>, stamp |-> << >>,
               lastCkpt |-> At(n).consumed, sigterm |-> k]
        BY <2>3, EndedIs
    <2>6. b = old.st /\ e = old.due /\ k = old.sigterm
        BY <2>1
    <2> QED BY <2>4, <2>5, <2>6
<1>2. AllPassed(n) /\ (SavesAt(n) \/ Stops(n)) /\ n \in Nat /\ n # 0 /\ Stops(n) \in BOOLEAN
    BY DEF PaceInv, Decided, Stops
<1>3. CASE Stops(n)
    <2>1. PaceInv(n, "exited")
        BY <1>2, <1>3 DEF PaceInv, Starting, Decided, Hashing, Saving
    <2>2. MemInv(me, r, n, "exited")
        <3>1. HeldAt(n, "exited") = At(n)
            BY DEF HeldAt, Starting, Taking, Hashing
        <3>2. IsMe(me)
            BY <1>1 DEF IsMe
        <3>3. me.at = "exited" /\ me.st = ShareOf(At(n), r) /\ me.sigterm \in BOOLEAN
            BY <1>1, <1>3
        <3> QED BY <3>1, <3>2, <3>3
                DEF MemInv, Stands, Starting, Stepping, Taking, Decided, Hashing, Saving
    <2>3. LogIs(log, r, n, "exited")
        <3>1. \A c \in Comms : Made(c, last) = Made(c, "exited")
            BY DEF Comms, Made, Decided, Hashing, Saving
        <3> QED BY <3>1 DEF LogIs
    <2>4. PutIs(ds, r, n, "exited")
        BY DEF PutIs
    <2>5. "exited" \in Places
        BY DEF Places, Stepping, Decided
    <2> QED BY <1>2, <2>1, <2>2, <2>3, <2>4, <2>5 DEF Settled
<1>4. CASE ~Stops(n)
    <2>1. SavesAt(n)
        BY <1>2, <1>4
    <2>2. PaceInv(n + 1, "top")
        BY <1>2, <1>4, PaceTop
    <2>3. MemInv(me, r, n + 1, "top")
        <3>1. Course[n].last = At(n).consumed
            BY <2>1, CourseLast
        <3>2. Stops(n) = FALSE
            BY <1>2, <1>4
        <3>3. /\ IsMe(me) /\ me.at = "top" /\ me.st = ShareOf(At(n), r) /\ me.due = FALSE
              /\ me.lastCkpt = Course[n].last /\ me.sigterm \in BOOLEAN
            BY <1>1, <3>1, <3>2 DEF IsMe
        <3> QED BY <3>3, MemTop
    <2>4. LogIs(log, r, n + 1, "top")
        <3>1. \A c \in Comms : Made(c, last) = Count(c, n)
            BY <2>1, AllMade
        <3>2. last \in Places /\ n \in Nat
            BY DEF Places, Stepping, Decided, Saving
        <3> QED BY <3>1, <3>2, LogAdvances
    <2>5. PutIs(ds, r, n + 1, "top")
        BY PutTop
    <2>6. "top" \in Places /\ n + 1 \in Nat
        BY DEF Places, Stepping
    <2> QED BY <2>2, <2>3, <2>4, <2>5, <2>6 DEF Settled
<1> QED BY <1>3, <1>4

LEMMA SendFilesStep == ASSUME LockInv, NEW r \in Ranks, SendFiles(r) PROVE LockInv'
<1>1. rank[r].at = "shards" /\ Completed(r, "shards")
    BY DEF SendFiles, Completed
<1>2. PICK n \in Nat \ {0} :
         /\ RankInv(r, n, "shards") /\ LogInv(r, n, "shards") /\ PaceInv(n, "shards")
         /\ PutInv(r, n, "shards") /\ MemInv(rank[r], r, n, "shards") /\ IsMe(rank[r])
         /\ n \in Nat /\ n # 0 /\ rank[r].st = ShareOf(HeldAt(n, "shards"), r)
    BY <1>1, InStep DEF Named, Starting
<1>3. /\ rank[r].due = Stops(n) /\ rank[r].stamp = Canonical(n)
      /\ rank[r].lastCkpt = Course[n - 1].last /\ rank[r].sigterm \in BOOLEAN
    BY <1>1, <1>2 DEF MemInv, Stepping, Saving, Decided
<1>4. rank[r].st = ShareOf(At(n), r)
    BY <1>2 DEF HeldAt, Starting, Taking, Hashing
<1> DEFINE gives == [step |-> rank[r].st.step, rng |-> rank[r].st.rng,
                     data |-> rank[r].st.data]
           log == Added(calls[r], "files", gives)
<1>5. gives = Gives(r, n, "files")
    <2>1. rank[r].st.step = n /\ rank[r].st.rng = At(n).rng /\ rank[r].st.data = DataAt(r, n)
        BY <1>4, Savable
    <2> QED BY <2>1 DEF Gives
<1>6. Calls(r, "files", gives) /\ UNCHANGED <<surface, seen, dirs>>
    BY DEF SendFiles
<1> HIDE DEF gives
<1>7. Follows("shards", "files")
    BY DEF Follows
<1>8. /\ \A c \in Comms : Made(c, "files") =
            IF c = CommOf("files") THEN Made(c, "shards") + 1 ELSE Made(c, "shards")
      /\ "shards" \in Places /\ "files" \in Named /\ "files" \notin Starting
    BY <1>7, NextCall
<1>9. CASE r = 0
    <2> DEFINE me == [rank[r] EXCEPT !.at = "files"]
    <2>1. rank' = [rank EXCEPT ![r] = me]
        BY <1>9 DEF SendFiles
    <2>2. MemInv(me, r, n, "files")
        <3>1. HeldAt(n, "files") = At(n)
            BY DEF HeldAt, Starting, Taking, Hashing
        <3>2. /\ IsMe(me) /\ me.at = "files" /\ me.st = rank[r].st /\ me.due = rank[r].due
              /\ me.lastCkpt = rank[r].lastCkpt /\ me.sigterm = rank[r].sigterm
              /\ me.stamp = rank[r].stamp
            BY <1>2, Relocated
        <3> HIDE DEF me
        <3> QED BY <1>3, <1>4, <3>1, <3>2
                DEF MemInv, Stands, Starting, Stepping, Taking, Decided, Hashing, Saving
    <2>3. PaceInv(n, "files")
        BY <1>2 DEF PaceInv, Starting, Decided, Hashing, Saving
    <2>4. PutInv(r, n, "files")
        <3>1. \A p \in Ranks : HasPut(dirs[n], p, n)
            BY <1>1, <1>2, EveryonePut
        <3> QED BY <1>2, <1>9, <3>1 DEF PutInv, PutIs
    <2> HIDE DEF me
    <2> QED BY <1>2, <1>5, <1>6, <1>8, <2>1, <2>2, <2>3, <2>4, Entered
<1>10. CASE r # 0
    <2> DEFINE old == rank[r]
               me == Ended([old EXCEPT !.lastCkpt = old.st.consumed])
    <2>1. rank' = [rank EXCEPT ![r] = me]
        BY <1>10 DEF SendFiles
    <2>2. IsMe(old) /\ old.st = ShareOf(At(n), r) /\ old.due = Stops(n) /\ old.sigterm \in BOOLEAN
        BY <1>2, <1>3, <1>4
    <2>3. /\ LogIs(log, r, n, "files") /\ log = [c \in Comms |-> log[c]]
          /\ Continues(log, calls[r])
        <3> DEFINE before == calls[r]
        <3>1. LogTyped(before) /\ LogIs(before, r, n, "shards")
            BY <1>2, CallsTyped DEF LogInv
        <3> HIDE DEF before
        <3>2. /\ LogIs(Added(before, "files", gives), r, n, "files")
              /\ LogTyped(Added(before, "files", gives))
              /\ Continues(Added(before, "files", gives), before)
            BY <1>2, <1>5, <1>8, <3>1, AddedIs
        <3> QED BY <3>2 DEF before, LogTyped
    <2>4. Becomes(r, me, log, dirs)
        <3>1. rank = [p \in Ranks |-> rank[p]]
            BY DEF LockInv, Shape
        <3> HIDE DEF me
        <3>2. rank' = [p \in Ranks |-> IF p = r THEN me ELSE rank[p]]
            BY <2>1, <3>1
        <3>3. calls' = [p \in Ranks |-> IF p = r THEN log ELSE calls[p]]
            BY <1>6, <1>8, CallsAre
        <3> QED BY <1>6, <3>2, <3>3 DEF Becomes
    <2>5. "shards" \in Saving /\ PutIs(dirs, r, n, "shards")
        BY <1>2 DEF Saving, PutInv
    <2>6. me = Ended([old EXCEPT !.lastCkpt = old.st.consumed])
        OBVIOUS
    <2> HIDE DEF me, old, log
    <2>7. PICK m, pl : Settled(r, m, pl, me, log, dirs)
        <3>1. "files" \in {"files", "seal"} /\ "shards" \in {"shards", "files", "seal"}
            OBVIOUS
        <3> QED BY <1>2, <2>2, <2>3, <2>5, <2>6, <3>1, SaveOver
    <2> QED BY <2>3, <2>4, <2>7, DirsKept, RankMoves
<1> QED BY <1>9, <1>10

\* A write to the directory that keeps its shards and its stamp.
LEMMA PutMarks ==
    ASSUME NEW n \in Nat \ {0}, NEW old, DirInv(n, old), \A p \in Ranks : HasPut(old, p, n),
           NEW d, NEW sealed \in BOOLEAN,
           d = [stamp |-> old.stamp, shards |-> old.shards, files |-> FilesAt(n),
                sealed |-> sealed]
    PROVE  DirInv(n, d) /\ \A p \in Ranks : HasPut(d, p, n)
<1>1. /\ d = [stamp |-> d.stamp, shards |-> d.shards, files |-> d.files, sealed |-> d.sealed]
      /\ d.stamp = old.stamp /\ d.shards = old.shards /\ d.files = FilesAt(n)
      /\ d.sealed \in BOOLEAN
    OBVIOUS
<1>2. \A p \in Ranks : HasPut(d, p, n)
    BY <1>1 DEF HasPut
<1> QED BY <1>1, <1>2 DEF DirInv

LEMMA WriteFilesStep == ASSUME LockInv, WriteFiles PROVE LockInv'
<1>0. 0 \in Ranks
    BY Sizes
<1>1. rank[0].at = "files" /\ Completed(0, "files")
    BY DEF WriteFiles, GatherReturns, Completed
<1>2. PICK n \in Nat \ {0} :
         /\ RankInv(0, n, "files") /\ LogInv(0, n, "files") /\ PaceInv(n, "files")
         /\ PutInv(0, n, "files") /\ MemInv(rank[0], 0, n, "files") /\ IsMe(rank[0])
         /\ n \in Nat /\ n # 0 /\ rank[0].st = ShareOf(HeldAt(n, "files"), 0)
    BY <1>0, <1>1, InStep DEF Named, Starting
<1>3. /\ rank[0].due = Stops(n) /\ rank[0].stamp = Canonical(n)
      /\ rank[0].lastCkpt = Course[n - 1].last /\ rank[0].sigterm \in BOOLEAN
    BY <1>1, <1>2 DEF MemInv, Stepping, Saving, Decided
<1>4. rank[0].st = ShareOf(At(n), 0) /\ rank[0].st.step = n
    <2>1. rank[0].st = ShareOf(At(n), 0)
        BY <1>2 DEF HeldAt, Starting, Taking, Hashing
    <2> QED BY <2>1, Savable
<1> DEFINE old == Dir(n)
           me == [rank[0] EXCEPT !.at = "seal"]
           d == [stamp |-> old.stamp, shards |-> old.shards, files |-> FilesAt(n),
                 sealed |-> old.sealed]
           ds == [t \in (DOMAIN dirs) \cup {n} |-> IF t = n THEN d ELSE dirs[t]]
           log == calls[0]
<1>5. DirInv(n, old) /\ old.sealed \in BOOLEAN
    BY DirOf DEF DirInv
<1>6. old = dirs[n] /\ \A p \in Ranks : HasPut(old, p, n)
    BY <1>2 DEF PutInv, PutIs, Dir
<1>7. Gathered(0, "files") = FilesAt(n)
    <2>1. "files" \in Named \ {"exit"} /\ Peers(CommOf("files"), 0) = Ranks
        BY DEF Named, CommOf, Peers
    <2> QED BY <1>0, <1>1, <1>2, <2>1, Brought DEF FilesAt
<1>8. dirs' = ds
    <2> DEFINE new == [old EXCEPT !.files = FilesAt(n)]
    <2>1. Stores(n, new)
        BY <1>4, <1>7 DEF WriteFiles
    <2>2. new = d
        <3>1. old = [stamp |-> old.stamp, shards |-> old.shards, files |-> old.files,
                     sealed |-> old.sealed]
            BY <1>5 DEF DirInv
        <3> HIDE DEF old
        <3> QED BY <3>1
    <2> HIDE DEF new, d
    <2> QED BY <2>1, <2>2 DEF Stores
<1>9. DirInv(n, d) /\ (\A p \in Ranks : HasPut(d, p, n)) /\ d.files = FilesAt(n)
    <2>1. d.files = FilesAt(n)
        OBVIOUS
    <2> HIDE DEF old
    <2> QED BY <1>5, <1>6, <2>1, PutMarks
<1> HIDE DEF d
<1>10. Keeps(ds) /\ n \in DOMAIN ds /\ ds[n] = d
    BY <1>9, Stored
<1> HIDE DEF ds, old
<1>11. PutIs(ds, 0, n, "seal")
    <2>1. PutIs(ds, 0, n, "files")
        BY <1>0, <1>2, <1>10, PutKept DEF PutInv
    <2> QED BY <1>9, <1>10, <2>1 DEF PutIs
<1>12. MemInv(me, 0, n, "seal")
    <2>1. HeldAt(n, "seal") = At(n)
        BY DEF HeldAt, Starting, Taking, Hashing
    <2>2. /\ IsMe(me) /\ me.at = "seal" /\ me.st = rank[0].st /\ me.due = rank[0].due
          /\ me.lastCkpt = rank[0].lastCkpt /\ me.sigterm = rank[0].sigterm
          /\ me.stamp = rank[0].stamp
        BY <1>2, Relocated
    <2> HIDE DEF me
    <2> QED BY <1>3, <1>4, <2>1, <2>2
            DEF MemInv, Stands, Starting, Stepping, Taking, Decided, Hashing, Saving
<1>13. PaceInv(n, "seal")
    BY <1>2 DEF PaceInv, Starting, Decided, Hashing, Saving
<1>14. LogIs(log, 0, n, "seal")
    <2>1. \A c \in Comms : Made(c, "files") = Made(c, "seal")
        BY DEF Comms, Made, Decided, Hashing, Saving
    <2> QED BY <1>2, <2>1 DEF LogIs, LogInv
<1>15. log = [c \in Comms |-> log[c]] /\ Continues(log, calls[0])
    <2>1. LogTyped(log)
        BY <1>0, CallsTyped
    <2> QED BY <2>1 DEF LogTyped, Continues, Comms
<1>16. Becomes(0, me, log, ds)
    <2>1. rank = [p \in Ranks |-> rank[p]] /\ calls = [p \in Ranks |-> calls[p]]
        BY DEF LockInv, Shape
    <2>2. rank' = [rank EXCEPT ![0] = me] /\ UNCHANGED <<surface, seen, calls>>
        BY DEF WriteFiles, Moves
    <2> HIDE DEF me
    <2>3. rank' = [p \in Ranks |-> IF p = 0 THEN me ELSE rank[p]]
        BY <2>1, <2>2
    <2>4. calls' = [p \in Ranks |-> IF p = 0 THEN log ELSE calls[p]]
        BY <2>1, <2>2
    <2> QED BY <1>8, <2>2, <2>3, <2>4 DEF Becomes
<1> HIDE DEF me, log
<1>17. "seal" \in Places
    BY DEF Places, Stepping, Decided, Saving
<1>18. Settled(0, n, "seal", me, log, ds)
    BY <1>2, <1>11, <1>12, <1>13, <1>14, <1>17 DEF Settled
<1> QED BY <1>0, <1>10, <1>15, <1>16, <1>18, RankMoves

LEMMA SealStep == ASSUME LockInv, Seal PROVE LockInv'
<1>0. 0 \in Ranks
    BY Sizes
<1>1. rank[0].at = "seal"
    BY DEF Seal
<1>2. PICK n \in Nat \ {0} :
         /\ RankInv(0, n, "seal") /\ LogInv(0, n, "seal") /\ PaceInv(n, "seal")
         /\ PutInv(0, n, "seal") /\ MemInv(rank[0], 0, n, "seal") /\ IsMe(rank[0])
         /\ n \in Nat /\ n # 0 /\ rank[0].st = ShareOf(HeldAt(n, "seal"), 0)
    BY <1>0, <1>1, InStep DEF Named, Starting
<1>3. rank[0].due = Stops(n) /\ rank[0].sigterm \in BOOLEAN
    BY <1>1, <1>2 DEF MemInv, Stepping, Saving, Decided
<1>4. rank[0].st = ShareOf(At(n), 0) /\ rank[0].st.step = n
    <2>1. rank[0].st = ShareOf(At(n), 0)
        BY <1>2 DEF HeldAt, Starting, Taking, Hashing
    <2> QED BY <2>1, Savable
<1> DEFINE old == Dir(n)
           mem == rank[0]
           me == Ended([mem EXCEPT !.lastCkpt = mem.st.consumed])
           d == [stamp |-> old.stamp, shards |-> old.shards, files |-> FilesAt(n),
                 sealed |-> TRUE]
           ds == [t \in (DOMAIN dirs) \cup {n} |-> IF t = n THEN d ELSE dirs[t]]
           log == calls[0]
<1>5. DirInv(n, old)
    BY DirOf DEF DirInv
<1>6. old = dirs[n] /\ (\A p \in Ranks : HasPut(old, p, n)) /\ old.files = FilesAt(n)
    BY <1>2 DEF PutInv, PutIs, Dir
<1>7. dirs' = ds
    <2> DEFINE new == [old EXCEPT !.sealed = TRUE]
    <2>1. Stores(n, new)
        BY <1>4 DEF Seal
    <2>2. new = d
        <3>1. old = [stamp |-> old.stamp, shards |-> old.shards, files |-> old.files,
                     sealed |-> old.sealed]
            BY <1>5 DEF DirInv
        <3> DEFINE files == FilesAt(n)
        <3>2. old.files = files
            BY <1>6
        <3> HIDE DEF old, files
        <3>3. \A flag : [old EXCEPT !.sealed = flag] =
                 [stamp |-> old.stamp, shards |-> old.shards, files |-> old.files,
                  sealed |-> flag]
            BY <3>1
        <3> QED BY <3>2, <3>3, Zenon DEF files
    <2> HIDE DEF new, d
    <2> QED BY <2>1, <2>2 DEF Stores
<1>8. DirInv(n, d) /\ (\A p \in Ranks : HasPut(d, p, n)) /\ d.files = FilesAt(n)
    <2>1. d.files = FilesAt(n) /\ TRUE \in BOOLEAN
        OBVIOUS
    <2> HIDE DEF old
    <2> QED BY <1>5, <1>6, <2>1, PutMarks
<1> HIDE DEF d
<1>9. Keeps(ds)
    BY <1>8, Stored
<1> HIDE DEF ds, old
<1>10. PutIs(ds, 0, n, "seal")
    BY <1>0, <1>2, <1>9, PutKept DEF PutInv
<1>11. LogIs(log, 0, n, "seal")
    BY <1>2 DEF LogInv
<1>12. log = [c \in Comms |-> log[c]] /\ Continues(log, calls[0])
    <2>1. LogTyped(log)
        BY <1>0, CallsTyped
    <2> QED BY <2>1 DEF LogTyped, Continues, Comms
<1>13. Becomes(0, me, log, ds)
    <2>1. rank = [p \in Ranks |-> rank[p]] /\ calls = [p \in Ranks |-> calls[p]]
        BY DEF LockInv, Shape
    <2>2. rank' = [rank EXCEPT ![0] = me] /\ UNCHANGED <<surface, seen, calls>>
        BY DEF Seal
    <2> HIDE DEF me
    <2>3. rank' = [p \in Ranks |-> IF p = 0 THEN me ELSE rank[p]]
        BY <2>1, <2>2
    <2>4. calls' = [p \in Ranks |-> IF p = 0 THEN log ELSE calls[p]]
        BY <2>1, <2>2
    <2> QED BY <1>7, <2>2, <2>3, <2>4 DEF Becomes
<1>14. IsMe(mem) /\ mem.st = ShareOf(At(n), 0) /\ mem.due = Stops(n) /\ mem.sigterm \in BOOLEAN
    BY <1>2, <1>3, <1>4
<1>15. me = Ended([mem EXCEPT !.lastCkpt = mem.st.consumed])
    OBVIOUS
<1>16. "seal" \in Saving /\ "seal" \in {"files", "seal"} /\ "seal" \in {"shards", "files", "seal"}
    BY DEF Saving
<1> HIDE DEF me, mem, log
<1>17. PICK m, pl : Settled(0, m, pl, me, log, ds)
    BY <1>0, <1>2, <1>10, <1>11, <1>14, <1>15, <1>16, SaveOver
<1> QED BY <1>0, <1>9, <1>12, <1>13, <1>17, RankMoves

-----------------------------------------------------------------------------
(* The world around the ranks *)

LEMMA SigtermStep == ASSUME LockInv, NEW r \in Ranks, Sigterm(r) PROVE LockInv'
<1>1. PICK n \in Nat, place \in Places : RankInv(r, n, place)
    BY DEF LockInv
<1>2. LogInv(r, n, place) /\ PaceInv(n, place) /\ PutInv(r, n, place)
      /\ MemInv(rank[r], r, n, place)
    BY <1>1 DEF RankInv
<1> DEFINE old == rank[r]
           me == [old EXCEPT !.sigterm = TRUE]
<1>3. rank' = [rank EXCEPT ![r] = me] /\ UNCHANGED <<surface, seen, calls, dirs>>
    BY DEF Sigterm
<1>4. IsMe(old)
    BY <1>2 DEF MemInv
<1> HIDE DEF old
<1>5. /\ IsMe(me) /\ me.at = old.at /\ me.st = old.st /\ me.grads = old.grads
      /\ me.loss = old.loss /\ me.due = old.due /\ me.shardState = old.shardState
      /\ me.stamp = old.stamp /\ me.lastCkpt = old.lastCkpt /\ me.sigterm \in BOOLEAN
    <2>1. ASSUME NEW flag \in BOOLEAN, NEW new, new = [old EXCEPT !.sigterm = flag]
          PROVE  /\ IsMe(new) /\ new.at = old.at /\ new.st = old.st /\ new.grads = old.grads
                 /\ new.loss = old.loss /\ new.due = old.due
                 /\ new.shardState = old.shardState /\ new.stamp = old.stamp
                 /\ new.lastCkpt = old.lastCkpt /\ new.sigterm \in BOOLEAN
        <3>1. new = [at |-> old.at, st |-> old.st, grads |-> old.grads, loss |-> old.loss,
                     due |-> old.due, shardState |-> old.shardState, stamp |-> old.stamp,
                     lastCkpt |-> old.lastCkpt, sigterm |-> flag]
            BY <1>4, <2>1 DEF IsMe
        <3> QED BY <2>1, <3>1 DEF IsMe
    <2> QED BY <2>1
<1>6. MemInv(me, r, n, place)
    <2>1. MemInv(old, r, n, place)
        BY <1>2 DEF old
    <2> HIDE DEF me
    <2> QED BY <1>5, <2>1 DEF MemInv
<1> HIDE DEF me
<1> QED BY <1>2, <1>3, <1>6, Moved

\* A rank that is killed or gives up leaves its calls and its writes behind.
LEMMA LostStep ==
    ASSUME LockInv, NEW r \in Ranks, NEW at \in {"dead", "aborted"}, Moves(r, at),
           UNCHANGED <<surface, seen, calls, dirs>>
    PROVE  LockInv'
<1>1. PICK n \in Nat, place \in Places : RankInv(r, n, place)
    BY DEF LockInv
<1>2. LogInv(r, n, place) /\ PaceInv(n, place) /\ PutInv(r, n, place)
      /\ MemInv(rank[r], r, n, place)
    BY <1>1 DEF RankInv
<1> DEFINE me == [rank[r] EXCEPT !.at = at]
<1>3. rank' = [rank EXCEPT ![r] = me]
    BY DEF Moves
<1>4. IsMe(rank[r]) /\ rank[r].sigterm \in BOOLEAN
    BY <1>2 DEF MemInv
<1>5. IsMe(me) /\ me.at = at /\ me.sigterm = rank[r].sigterm
    BY <1>4, Relocated
<1> HIDE DEF me
<1>6. MemInv(me, r, n, place)
    BY <1>4, <1>5 DEF MemInv
<1> QED BY <1>2, <1>3, <1>6, Moved

-----------------------------------------------------------------------------
(* The invariant *)

LEMMA LockInit == Init => LockInv
<1> SUFFICES ASSUME Init PROVE LockInv
    OBVIOUS
<1>1. /\ rank = [r \in Ranks |-> Process] /\ dirs = [s \in {} |-> << >>]
      /\ calls = [r \in Ranks |-> [c \in Comms |-> << >>]]
    BY DEF Init
<1>2. Shape
    <2>1. rank = [r \in Ranks |-> rank[r]]
        BY <1>1
    <2>2. calls = [r \in Ranks |-> [c \in Comms |-> calls[r][c]]]
        BY <1>1
    <2>3. DOMAIN dirs = {}
        BY <1>1
    <2> QED BY <2>1, <2>2, <2>3 DEF Shape
<1>3. ASSUME NEW r \in Ranks
      PROVE  RankInv(r, 0, "start")
    <2>1. LogInv(r, 0, "start")
        <3> SUFFICES ASSUME NEW c \in Comms
                     PROVE  /\ calls[r][c] = [i \in 1 .. Len(calls[r][c]) |-> calls[r][c][i]]
                            /\ Len(calls[r][c]) = Base(c, 0) + Made(c, "start")
                            /\ \A m \in 0 .. 0 - 1 : \A i \in 1 .. Count(c, m) :
                                  IsCall(calls[r][c][Base(c, m) + i], c, r, m, i)
                            /\ \A i \in 1 .. Made(c, "start") :
                                  IsCall(calls[r][c][Base(c, 0) + i], c, r, 0, i)
            BY DEF LogInv, LogIs
        <3>1. calls[r][c] = << >>
            BY <1>1
        <3>2. Base(c, 0) = 0 /\ Made(c, "start") = 0
            BY DEF Base, Made, Comms, Decided, Hashing, Saving
        <3> QED BY <3>1, <3>2
    <2>2. PaceInv(0, "start")
        BY DEF PaceInv, Starting, Decided, Hashing, Saving
    <2>3. MemInv(rank[r], r, 0, "start")
        <3>1. rank[r] = Process
            BY <1>1
        <3>2. /\ IsMe(Process) /\ Process.sigterm \in BOOLEAN /\ Process.at = "start"
              /\ Process.st = FreshState /\ Process.lastCkpt = 0 /\ Process.due = FALSE
            BY DEF IsMe, Process
        <3>3. FreshState = ShareOf(HeldAt(0, "start"), r)
            <4>1. HeldAt(0, "start") = FreshState
                BY DEF HeldAt, Starting
            <4>2. ShareOf(FreshState, r) = FreshState
                <5>1. RankShare(<< >>, r) = << >>
                    <6> DEFINE none == << >>
                               f == [k \in 1 .. 0 |-> none[k] + r]
                    <6>1. none \in Seq(Nat) /\ Len(none) = 0 /\ DOMAIN none = 1 .. 0
                        OBVIOUS
                    <6>2. RankShare(none, r) = f
                        BY <6>1 DEF RankShare
                    <6>3. 1 .. 0 = {}
                        OBVIOUS
                    <6>4. \A k \in 1 .. 0 : none[k] + r \in Int
                        BY <6>3
                    <6> HIDE DEF none
                    <6>5. f \in Seq(Int) /\ Len(f) = 0
                        BY <6>4
                    <6>6. f = << >>
                        BY <6>5
                    <6> QED BY <6>2, <6>6 DEF none
                <5>2. ShareOf(FreshState, r) =
                         [FreshState EXCEPT !.data = RankShare(FreshState.data, r)]
                    BY DEF ShareOf
                <5>3. FreshState.data = << >>
                    BY DEF FreshState
                <5>4. ShareOf(FreshState, r) = [FreshState EXCEPT !.data = << >>]
                    BY <5>1, <5>2, <5>3
                <5>5. IsState(FreshState)
                    BY DEF IsState, FreshState
                <5> QED BY <5>3, <5>4, <5>5 DEF IsState
            <4> QED BY <4>1, <4>2
        <3> QED BY <3>1, <3>2, <3>3
                DEF MemInv, Stands, Starting, Stepping, Taking, Decided, Hashing, Saving
    <2>4. PutInv(r, 0, "start")
        BY DEF PutInv, PutIs
    <2>5. "start" \in Places
        BY DEF Places, Starting
    <2> QED BY <2>1, <2>2, <2>3, <2>4, <2>5 DEF RankInv
<1>4. "start" \in Places
    BY DEF Places, Starting
<1> QED BY <1>2, <1>3, <1>4 DEF LockInv

LEMMA LockNext == LockInv /\ [Next]_vars => LockInv'
<1> SUFFICES ASSUME LockInv, [Next]_vars PROVE LockInv'
    OBVIOUS
<1>1. ASSUME NEW r \in Ranks, Train(r) PROVE LockInv'
    <2>1. \/ AskGuard(r) \/ Refuse(r) \/ HashInit(r) \/ EnterLoop(r) \/ Finish(r)
          \/ Backward(r) \/ Flush(r) \/ FoldNorm(r) \/ HaltRank(r) \/ UpdateWeights(r)
          \/ AskExit(r) \/ HashShard(r) \/ NextStep(r) \/ HashBatches(r) \/ EndStep(r)
          \/ BeginSave(r) \/ SaveShard(r) \/ SendFiles(r)
        BY <1>1 DEF Train
    <2>2. CASE AskGuard(r) \/ Refuse(r) \/ HashInit(r) \/ EnterLoop(r) \/ Finish(r)
        BY <2>2, AskGuardStep, RefuseStep, HashInitStep, EnterLoopStep, FinishStep
    <2>3. CASE Backward(r) \/ Flush(r) \/ FoldNorm(r) \/ HaltRank(r) \/ UpdateWeights(r)
        BY <2>3, BackwardStep, FlushStep, FoldNormStep, HaltRankStep, UpdateWeightsStep
    <2>4. CASE AskExit(r) \/ HashShard(r) \/ NextStep(r) \/ HashBatches(r) \/ EndStep(r)
        BY <2>4, AskExitStep, HashShardStep, NextStepStep, HashBatchesStep, EndStepStep
    <2>5. CASE BeginSave(r) \/ SaveShard(r) \/ SendFiles(r)
        BY <2>5, BeginSaveStep, SaveShardStep, SendFilesStep
    <2> QED BY <2>1, <2>2, <2>3, <2>4, <2>5
<1>2. ASSUME NEW r \in Ranks, Abort(r) \/ Die(r) PROVE LockInv'
    <2>1. CASE Abort(r)
        <3>1. Moves(r, "aborted") /\ UNCHANGED <<surface, seen, calls, dirs>>
            BY <2>1 DEF Abort
        <3> QED BY <3>1, LostStep
    <2>2. CASE Die(r)
        <3>1. Moves(r, "dead") /\ UNCHANGED <<surface, seen, calls, dirs>>
            BY <2>2 DEF Die
        <3> QED BY <3>1, LostStep
    <2> QED BY <1>2, <2>1, <2>2
<1>3. ASSUME NEW r \in Ranks, Sigterm(r) PROVE LockInv'
    BY <1>3, SigtermStep
<1>4. CASE Next
    <2>1. CASE Work
        BY <1>1, <1>2, <2>1, WriteFilesStep, SealStep DEF Work
    <2>2. CASE Fault
        BY <1>2, <1>3, <2>2 DEF Fault
    <2> QED BY <1>4, <2>1, <2>2 DEF Next
<1>5. CASE UNCHANGED vars
    <2>1. 0 \in Ranks
        BY Sizes
    <2> DEFINE me == rank[0]
    <2>2. PICK n \in Nat, place \in Places : RankInv(0, n, place)
        BY <2>1 DEF LockInv
    <2>3. LogInv(0, n, place) /\ PaceInv(n, place) /\ PutInv(0, n, place)
          /\ MemInv(me, 0, n, place)
        BY <2>2 DEF RankInv
    <2>4. rank' = [rank EXCEPT ![0] = me] /\ UNCHANGED <<surface, seen, calls, dirs>>
        BY <1>5 DEF vars, LockInv, Shape
    <2> HIDE DEF me
    <2> QED BY <2>1, <2>3, <2>4, Moved
<1> QED BY <1>4, <1>5

\* Every rank's log, memory and writes are those of the place it stands at in
\* the course of the job, wherever the others stand (loop.py:431-1262).
THEOREM LockInvHolds == Spec => []LockInv
<1> QED BY LockInit, LockNext, PTL DEF Spec

-----------------------------------------------------------------------------
(* What the ranks owe each other *)

\* A call belongs to an iteration.
LEMMA Located ==
    ASSUME NEW c \in Comms, NEW n \in Nat, NEW i \in 1 .. Base(c, n)
    PROVE  \E m \in 0 .. n - 1 : \E j \in 1 .. Count(c, m) : i = Base(c, m) + j
<1> DEFINE Beyond == {k \in Nat : i <= Base(c, k)}
<1>1. n \in Beyond
    <2>1. Base(c, n) \in Nat
        BY Bases
    <2> QED BY <2>1
<1>2. PICK k \in Beyond : \A l \in Beyond : k <= l
    <2>1. Beyond \in SUBSET Nat /\ Beyond # {}
        BY <1>1
    <2> HIDE DEF Beyond
    <2> QED BY <2>1, LeastNat
<1>3. k # 0
    <2>1. Base(c, 0) = 0
        BY DEF Base
    <2> QED BY <1>2, <2>1
<1>4. k - 1 \in Nat /\ k - 1 \notin Beyond /\ (k - 1) + 1 = k /\ k <= n
    BY <1>1, <1>2, <1>3
<1>5. /\ Base(c, k) = Base(c, k - 1) + Count(c, k - 1) /\ Base(c, k - 1) \in Nat
      /\ Count(c, k - 1) \in {0, 1, 2, 3}
    <2> DEFINE l == k - 1
    <2>1. l \in Nat /\ l + 1 = k
        BY <1>4
    <2> HIDE DEF l
    <2>2. /\ Base(c, l + 1) = Base(c, l) + Count(c, l) /\ Base(c, l) \in Nat
          /\ Count(c, l) \in {0, 1, 2, 3}
        BY <2>1, Bases
    <2> QED BY <2>1, <2>2 DEF l
<1>6. i > Base(c, k - 1) /\ i <= Base(c, k) /\ i \in Nat
    <2>1. Base(c, n) \in Nat
        BY Bases
    <2> QED BY <1>2, <1>4, <1>5, <2>1
<1> DEFINE j == i - Base(c, k - 1)
<1>7. j \in 1 .. Count(c, k - 1) /\ i = Base(c, k - 1) + j
    BY <1>5, <1>6
<1>8. k - 1 \in 0 .. n - 1
    BY <1>4
<1> HIDE DEF j
<1> QED BY <1>7, <1>8

LEMMA KindsAgree ==
    ASSUME LockInv, NEW r \in Ranks, NEW p \in Ranks, NEW c \in Comms,
           NEW i \in (DOMAIN calls[r][c]) \cap DOMAIN calls[p][c]
    PROVE  calls[r][c][i].kind = calls[p][c][i].kind
<1>1. PICK n \in Nat, place \in Places : RankInv(r, n, place)
    BY DEF LockInv
<1>2. PICK l \in Nat, pl \in Places : RankInv(p, l, pl)
    BY DEF LockInv
<1>3. LogIs(calls[r], r, n, place) /\ PaceInv(n, place)
    BY <1>1 DEF RankInv, LogInv
<1>4. i \in 1 .. Len(calls[r][c]) /\ i \in 1 .. Len(calls[p][c])
      /\ Len(calls[r][c]) \in Nat /\ Len(calls[p][c]) \in Nat
    <2>1. LogTyped(calls[r]) /\ LogTyped(calls[p])
        BY CallsTyped
    <2> QED BY <2>1 DEF LogTyped
<1>5. \E m \in 0 .. n : \E j \in Nat \ {0} :
         /\ i = Base(c, m) + j
         /\ m = 0 \/ ~Stops(m) => j <= Count(c, m)
         /\ calls[r][c][i].kind = Kinds(c, m)[j]
    <2>1. /\ Len(calls[r][c]) = Base(c, n) + Made(c, place)
          /\ \A m \in 0 .. n - 1 : \A j \in 1 .. Count(c, m) :
                IsCall(calls[r][c][Base(c, m) + j], c, r, m, j)
          /\ \A j \in 1 .. Made(c, place) : IsCall(calls[r][c][Base(c, n) + j], c, r, n, j)
        BY <1>3 DEF LogIs
    <2>2. Base(c, n) \in Nat /\ Made(c, place) \in {0, 1, 2, 3}
        BY Bases, MadeType
    <2>3. CASE i <= Base(c, n)
        <3>1. i \in 1 .. Base(c, n)
            BY <1>4, <2>2, <2>3
        <3>2. PICK m \in 0 .. n - 1 : \E j \in 1 .. Count(c, m) : i = Base(c, m) + j
            BY <3>1, Located
        <3>3. PICK j \in 1 .. Count(c, m) : i = Base(c, m) + j
            BY <3>2
        <3>4. m \in Nat /\ m \in 0 .. n /\ Count(c, m) \in {0, 1, 2, 3}
            BY Bases
        <3>5. j \in Nat \ {0} /\ j <= Count(c, m)
            BY <3>4
        <3>6. calls[r][c][i].kind = Kinds(c, m)[j]
            BY <2>1, <3>3 DEF IsCall
        <3> QED BY <3>3, <3>4, <3>5, <3>6
    <2>4. CASE ~(i <= Base(c, n))
        <3> DEFINE j == i - Base(c, n)
        <3>1. j \in 1 .. Made(c, place) /\ i = Base(c, n) + j /\ j \in Nat \ {0}
            BY <1>4, <2>1, <2>2, <2>4
        <3> HIDE DEF j
        <3>2. n = 0 \/ ~Stops(n) => j <= Count(c, n)
            <4>1. n = 0 \/ ~Stops(n) => Made(c, place) <= Count(c, n)
                BY <1>3, Within
            <4>2. Count(c, n) \in {0, 1, 2, 3}
                BY Bases
            <4> QED BY <2>2, <3>1, <4>1, <4>2
        <3>3. calls[r][c][i].kind = Kinds(c, n)[j]
            BY <2>1, <3>1 DEF IsCall
        <3>4. n \in 0 .. n
            OBVIOUS
        <3> QED BY <3>1, <3>2, <3>3, <3>4
    <2> QED BY <2>3, <2>4
<1>6. PICK m \in 0 .. n : \E j \in Nat \ {0} :
         /\ i = Base(c, m) + j
         /\ m = 0 \/ ~Stops(m) => j <= Count(c, m)
         /\ calls[r][c][i].kind = Kinds(c, m)[j]
    BY <1>5
<1>7. PICK j \in Nat \ {0} :
         /\ i = Base(c, m) + j
         /\ m = 0 \/ ~Stops(m) => j <= Count(c, m)
         /\ calls[r][c][i].kind = Kinds(c, m)[j]
    BY <1>6
<1>8. m \in Nat /\ \A k \in 1 .. m - 1 : ~Stops(k)
    BY <1>3 DEF PaceInv
<1>9. Len(calls[p][c]) >= Base(c, m) + j
    BY <1>4, <1>7
<1>10. IsCall(calls[p][c][Base(c, m) + j], c, p, m, j)
    BY <1>2, <1>7, <1>8, <1>9, Lookup
<1> QED BY <1>7, <1>10 DEF IsCall

LEMMA SharesOfTheRun ==
    ASSUME LockInv, NEW r \in Ranks
    PROVE  /\ rank[r].at \in {"top", "done", "exited"} =>
                 rank[r].st = ShareOf(LockstepAt(rank[r].st.step), r)
           /\ rank[r].at = "halted" =>
                 RaisesHalt(LockstepAt(rank[r].st.step).spike,
                            StepClass(surface, LockstepAt(rank[r].st.step)),
                            rank[r].st.step)
<1>1. PICK n \in Nat, place \in Places : RankInv(r, n, place)
    BY DEF LockInv
<1>2. MemInv(rank[r], r, n, place) /\ PaceInv(n, place)
    BY <1>1 DEF RankInv
<1>3. \A k \in Nat : LockstepAt(k) = At(k)
    BY RunIsCourse DEF LockstepAt
<1>4. CASE rank[r].at \in {"top", "done"}
    <2>1. place = "top" /\ rank[r].st = ShareOf(HeldAt(n, place), r)
        BY <1>2, <1>4 DEF MemInv, Stands
    <2>2. n # 0 /\ n - 1 \in Nat /\ n \in Nat \ {0}
        BY <1>2, <2>1 DEF PaceInv, Starting
    <2>3. HeldAt(n, place) = At(n - 1)
        BY <2>1 DEF HeldAt, Starting
    <2> DEFINE a == At(n - 1)
    <2>4. IsState(a) /\ a.step = n - 1
        BY <2>2, HeldFacts
    <2>5. rank[r].st = ShareOf(a, r)
        BY <2>1, <2>3
    <2> HIDE DEF a
    <2>6. ShareOf(a, r).step = a.step
        <3>1. ShareOf(a, r) = [a EXCEPT !.data = RankShare(a.data, r)]
            BY DEF ShareOf
        <3> QED BY <2>4, <3>1 DEF IsState
    <2>7. rank[r].st.step = n - 1
        BY <2>4, <2>5, <2>6
    <2> QED BY <1>3, <1>4, <2>2, <2>5, <2>7 DEF a
<1>5. CASE rank[r].at = "exited"
    <2>1. place = "exited" /\ rank[r].st = ShareOf(HeldAt(n, place), r)
        BY <1>2, <1>5 DEF MemInv, Stands
    <2>2. n \in Nat \ {0}
        BY <1>2, <2>1 DEF PaceInv, Starting
    <2>3. HeldAt(n, place) = At(n)
        BY <2>1 DEF HeldAt, Starting, Taking, Hashing
    <2>4. rank[r].st = ShareOf(At(n), r)
        BY <2>1, <2>3
    <2>5. rank[r].st.step = n
        BY <2>2, <2>4, Savable
    <2> QED BY <1>3, <1>5, <2>4, <2>5
<1>6. CASE rank[r].at = "halted"
    <2>1. /\ place = "norm" /\ rank[r].st = ShareOf(HeldAt(n, place), r)
          /\ RaisesHalt(At(n - 1).spike, ClassAt(n), n - 1)
        BY <1>2, <1>6 DEF MemInv, Stands
    <2>2. n # 0 /\ n - 1 \in Nat /\ n \in Nat \ {0}
        BY <1>2, <2>1 DEF PaceInv, Starting
    <2> DEFINE b == BegunAt(n)
    <2>3. rank[r].st = ShareOf(b, r)
        BY <2>1 DEF HeldAt, Starting, Taking
    <2>4. IsState(b) /\ b.step = n - 1
        BY <2>2, HeldFacts
    <2> HIDE DEF b
    <2>5. ShareOf(b, r).step = b.step
        <3>1. ShareOf(b, r) = [b EXCEPT !.data = RankShare(b.data, r)]
            BY DEF ShareOf
        <3> QED BY <2>4, <3>1 DEF IsState
    <2>6. rank[r].st.step = n - 1
        BY <2>3, <2>4, <2>5
    <2>7. LockstepAt(n - 1) = At(n - 1) /\ ClassAt(n) = StepClass(surface, At(n - 1))
        BY <1>3, <2>2 DEF ClassAt
    <2> QED BY <1>6, <2>1, <2>6, <2>7
<1> QED BY <1>4, <1>5, <1>6

\* For any number of ranks, shards, signals and deaths: ranks answer each
\* other's calls and nothing else, and each holds its share of the state
\* TrainStep computes, so no rank skips, halts, hashes or saves a step its
\* peers do not (loop.py:992-996, 1097-1105).
THEOREM RanksAgree == Spec => []RanksStayInStep
<1>1. LockInv => RanksStayInStep
    <2> SUFFICES ASSUME LockInv PROVE RanksStayInStep
        OBVIOUS
    <2>1. ASSUME NEW r \in Ranks, NEW c \in Comms, NEW p \in Peers(c, r),
                 NEW i \in (DOMAIN calls[r][c]) \cap DOMAIN calls[p][c]
          PROVE  calls[r][c][i].kind = calls[p][c][i].kind
        <3>1. p \in Ranks
            BY PeersAre
        <3> QED BY <3>1, KindsAgree
    <2>2. \A r \in Ranks :
             /\ rank[r].at \in {"top", "done", "exited"} =>
                   rank[r].st = ShareOf(LockstepAt(rank[r].st.step), r)
             /\ rank[r].at = "halted" =>
                   RaisesHalt(LockstepAt(rank[r].st.step).spike,
                              StepClass(surface, LockstepAt(rank[r].st.step)),
                              rank[r].st.step)
        BY SharesOfTheRun
    <2> QED BY <2>1, <2>2 DEF RanksStayInStep
<1> QED BY <1>1, LockInvHolds, PTL

\* For any number of ranks and replicas, whichever rank dies in between: a
\* directory with the marker holds the step's canonical digest, every shard and
\* every rank's files of that step (checkpoint.py:271-326, 687-741).
THEOREM SealedDirectoriesAreWhole == Spec => []SealedMeansWhole
<1>1. LockInv => SealedMeansWhole
    <2> SUFFICES ASSUME LockInv, NEW s \in DOMAIN dirs, dirs[s].sealed
                 PROVE  /\ dirs[s].stamp = Canonical(s)
                        /\ dirs[s].shards =
                              [p \in 0 .. Shards - 1 |->
                                  [weights |-> LockstepAt(s).weights,
                                   moments |-> LockstepAt(s).moments]]
                        /\ dirs[s].files =
                              [r \in Ranks |-> [step |-> s, rng |-> LockstepAt(s).rng,
                                                data |-> RankShare(LockstepAt(s).data, r)]]
        BY DEF SealedMeansWhole
    <2> DEFINE d == dirs[s]
    <2>1. s \in Nat /\ DirInv(s, d) /\ LockstepAt(s) = At(s)
        BY RunIsCourse DEF LockInv, Shape, LockstepAt
    <2> HIDE DEF d
    <2>2. (\A r \in Ranks : HasPut(d, r, s)) /\ d.files = FilesAt(s)
        BY <2>1 DEF DirInv, d
    <2>3. d.stamp = Canonical(s)
        BY <2>2, Sizes DEF HasPut
    <2>4. DOMAIN d.shards = 0 .. Shards - 1
        <3>1. {r \in Ranks : Writes(r)} = 0 .. Shards - 1
            BY Sizes DEF Ranks, Writes
        <3>2. {r \in Ranks : Writes(r)} \subseteq DOMAIN d.shards
            BY <2>2 DEF HasPut
        <3> QED BY <2>1, <3>1, <3>2 DEF DirInv
    <2>5. d.shards = [p \in 0 .. Shards - 1 |-> TensorsAt(s)]
        BY <2>1, <2>4 DEF DirInv
    <2>6. FilesAt(s) = [r \in Ranks |-> [step |-> s, rng |-> At(s).rng,
                                         data |-> RankShare(At(s).data, r)]]
        BY DEF FilesAt, Gives, DataAt
    <2> QED BY <2>1, <2>2, <2>3, <2>5, <2>6 DEF d, TensorsAt
<1> QED BY <1>1, LockInvHolds, PTL
=============================================================================
