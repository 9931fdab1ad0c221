------------------------- MODULE CorpusBuildProofs -------------------------
(***************************************************************************)
(* What a crash may cost a resumable pull: no row of the upstream, and at  *)
(* most one chunk of repeats.  That a pull of concurrent fetches writes    *)
(* what it submitted, in that order.  And what the workers that tokenise a *)
(* pulled file make of it: every line is read by exactly one of them.      *)
(***************************************************************************)
EXTENDS CorpusBuildMC, FiniteSetTheorems, SequenceTheorems, TLAPS

-----------------------------------------------------------------------------
(* Whole chunks *)

\* Products of naturals are monotone.
LEMMA ProductMonotone ==
    ASSUME NEW n \in Nat, NEW a \in Int, NEW b \in Int, a <= b
    PROVE  n * a <= n * b
  BY Z3

\* A number without a remainder is a multiple.
LEMMA Multiple ==
    ASSUME NEW n \in Nat, NEW c \in Nat \ {0}, n % c = 0
    PROVE  \E q \in Nat : n = c * q
<1>1. n \div c \in Nat /\ n = c * (n \div c)
  BY Z3
<1> QED
  BY <1>1

\* A length in whole chunks, and fewer lines than a chunk beyond it.
LEMMA FloorOfWholeChunks ==
    ASSUME NEW n \in Nat, NEW c \in Nat \ {0}, NEW r \in Nat, n % c = 0, r < c
    PROVE  ((n + r) \div c) * c = n
<1>1. PICK q \in Nat : n = c * q
  BY Multiple
<1>2. (n + r) \div c = q
  BY <1>1, Z3
<1> QED
  BY <1>1, <1>2, Z3

\* The floor to whole chunks is a length in whole chunks.
LEMMA FloorIsWholeChunks ==
    ASSUME NEW n \in Nat, NEW c \in Nat \ {0}
    PROVE  /\ (n \div c) * c \in 0 .. n
           /\ ((n \div c) * c) % c = 0
<1>1. n \div c \in Nat /\ c * (n \div c) <= n
  BY Z3
<1> DEFINE q == n \div c
<1> HIDE DEF q
<1>2. (q * c) % c = 0 /\ q * c \in Nat /\ q * c = c * q
  BY <1>1, Z3 DEF q
<1> QED
  BY <1>1, <1>2 DEF q

\* The length after one more chunk.
LEMMA ChunkFull ==
    ASSUME NEW n \in Nat, NEW c \in Nat \ {0}, n % c = 0
    PROVE  (n + c) % c = 0
<1>1. PICK q \in Nat : n = c * q
  BY Multiple
<1>2. n + c = (q + 1) * c
  BY <1>1, Z3
<1>3. \A k \in Nat : (k * c) % c = 0
  BY Z3
<1>4. q + 1 \in Nat
  BY <1>1
<1> QED
  BY <1>2, <1>3, <1>4

\* One more chunk of allowance.
LEMMA Allowance ==
    ASSUME NEW c \in Nat, NEW n \in Nat
    PROVE  /\ c * n \in Nat /\ c * (n + 1) = (c * n) + c
           /\ c * n <= c * (n + 1)
  BY Z3

-----------------------------------------------------------------------------
(* Rows and their texts *)

Usable(items, n) == {i \in 1 .. n : items[i] > 0}
TextsUpTo(items, n) == {<<i, 1>> : i \in Usable(items, n)}

LEMMA UsableFacts ==
    ASSUME NEW items, NEW n \in Nat
    PROVE  /\ IsFiniteSet(Usable(items, n)) /\ Cardinality(Usable(items, n)) \in Nat
           /\ \A m \in n .. n + 1 : Usable(items, n) \subseteq Usable(items, m)
<1>1. IsFiniteSet(1 .. n) /\ Usable(items, n) \in SUBSET (1 .. n)
  BY FS_Interval DEF Usable
<1>2. IsFiniteSet(Usable(items, n))
  BY <1>1, FS_Subset
<1>3. \A m \in n .. n + 1 : Usable(items, n) \subseteq Usable(items, m)
  BY DEF Usable
<1> QED
  BY <1>2, <1>3, FS_CardinalityType

\* Fewer rows hold no more texts.
LEMMA UsableMonotone ==
    ASSUME NEW items, NEW m \in Nat, NEW n \in 0 .. m
    PROVE  Cardinality(Usable(items, n)) <= Cardinality(Usable(items, m))
<1>1. Usable(items, n) \in SUBSET Usable(items, m) /\ IsFiniteSet(Usable(items, m))
  BY UsableFacts DEF Usable
<1> QED
  BY <1>1, FS_Subset

\* A row adds its text to the count.
LEMMA UsableStep ==
    ASSUME NEW items \in Seq({0, 1}), NEW n \in 0 .. Len(items) - 1
    PROVE  /\ items[n + 1] \in {0, 1}
           /\ Usable(items, n + 1) =
                Usable(items, n) \cup (IF items[n + 1] = 1 THEN {n + 1} ELSE {})
           /\ Cardinality(Usable(items, n + 1)) =
                Cardinality(Usable(items, n)) + items[n + 1]
<1>1. n \in Nat /\ n + 1 \in 1 .. Len(items) /\ items[n + 1] \in {0, 1}
  OBVIOUS
<1>2. Usable(items, n + 1) =
        Usable(items, n) \cup (IF items[n + 1] = 1 THEN {n + 1} ELSE {})
  BY <1>1 DEF Usable
<1>3. IsFiniteSet(Usable(items, n)) /\ Cardinality(Usable(items, n)) \in Nat
  BY <1>1, UsableFacts
<1>4. n + 1 \notin Usable(items, n)
  BY DEF Usable
<1>5. CASE items[n + 1] = 1
  <2>1. Cardinality(Usable(items, n) \cup {n + 1}) = Cardinality(Usable(items, n)) + 1
    BY <1>3, <1>4, FS_AddElement
  <2> QED
    BY <1>1, <1>2, <1>5, <2>1
<1>6. CASE items[n + 1] = 0
  <2>1. Usable(items, n + 1) = Usable(items, n)
    BY <1>2, <1>6
  <2> QED
    BY <1>1, <1>2, <1>3, <1>6, <2>1
<1> QED
  BY <1>1, <1>5, <1>6

\* Rows and their texts are as many.
LEMMA TextsCounted ==
    ASSUME NEW items, NEW n \in Nat
    PROVE  /\ IsFiniteSet(TextsUpTo(items, n))
           /\ Cardinality(TextsUpTo(items, n)) = Cardinality(Usable(items, n))
<1> DEFINE rows == Usable(items, n)
           texts == TextsUpTo(items, n)
           text == [i \in rows |-> <<i, 1>>]
<1>1. text \in [rows -> texts]
  BY DEF TextsUpTo
<1>2. \A i, j \in rows : text[i] = text[j] => i = j
  OBVIOUS
<1>3. \A t \in texts : \E i \in rows : text[i] = t
  BY DEF TextsUpTo
<1> HIDE DEF text, rows, texts
<1>4. text \in Bijection(rows, texts)
  BY <1>1, <1>2, <1>3 DEF Bijection, Injection, Surjection, IsInjective
<1>5. ExistsBijection(rows, texts)
  BY <1>4 DEF ExistsBijection
<1>6. IsFiniteSet(rows)
  BY UsableFacts DEF rows
<1> QED
  BY <1>5, <1>6, FS_Bijection DEF rows, texts

\* A sequence has no more members than places.
LEMMA MembersCounted ==
    ASSUME NEW S, NEW lines \in Seq(S)
    PROVE  IsFiniteSet(ToSet(lines)) /\ Cardinality(ToSet(lines)) <= Len(lines)
<1>1. Len(lines) \in Nat /\ DOMAIN lines = 1 .. Len(lines)
  OBVIOUS
<1>2. IsFiniteSet(1 .. Len(lines)) /\ Cardinality(1 .. Len(lines)) = Len(lines)
  BY <1>1, FS_Interval
<1>3. lines \in [1 .. Len(lines) -> ToSet(lines)]
  BY <1>1 DEF ToSet
<1>4. \A x \in ToSet(lines) : \E i \in 1 .. Len(lines) : lines[i] = x
  BY <1>1 DEF ToSet
<1>5. lines \in Surjection(1 .. Len(lines), ToSet(lines))
  BY <1>3, <1>4 DEF Surjection
<1> QED
  BY <1>2, <1>5, FS_Surjection

-----------------------------------------------------------------------------
(* Lines that back a cursor *)

\* The lines of a stream: the one text of each row.
Texts == {<<i, 1>> : i \in Nat}

\* A stream a pull can complete: one pod, a text or none in every row, and
\* enough of them for a target that is a whole number of chunks.
Fillable(s) ==
    /\ s.pods = 1
    /\ s.items \in Seq({0, 1})
    /\ s.target \in Nat \ {0} /\ s.target % Chunk = 0
    /\ s.target <= Cardinality(Usable(s.items, Len(s.items)))
StreamsFill == \A s \in Sources : s.puller = "stream" => Fillable(s)

\* The lines hold exactly the rows up to one at or beyond the cursor, and the
\* lines a pull from that cursor would repeat, or has repeated, are at most a
\* chunk for each of tries interruptions.
Covers(items, lines, at) ==
    \E m \in at .. Len(items) : ToSet(lines) = TextsUpTo(items, m)
Backed(items, lines, at, tries) ==
    /\ at \in 0 .. Len(items)
    /\ Covers(items, lines, at)
    /\ Len(lines) - Cardinality(Usable(items, at)) <= Chunk * tries

LEMMA RowText ==
    ASSUME NEW i \in Nat, NEW c \in {0, 1}
    PROVE  /\ DocsOf(i, c) \in Seq(Texts) /\ Len(DocsOf(i, c)) = c
           /\ c = 0 => DocsOf(i, c) = << >>
           /\ c = 1 => DocsOf(i, c) = <<<<i, 1>>>>
<1>1. CASE c = 0
  BY <1>1 DEF DocsOf
<1>2. CASE c = 1
  <2> DEFINE text == <<i, 1>>
  <2>1. DocsOf(i, c) = [j \in 1 .. 1 |-> <<i, j>>]
    BY <1>2 DEF DocsOf
  <2>2. [j \in 1 .. 1 |-> <<i, j>>] = [j \in 1 .. 1 |-> text]
    OBVIOUS
  <2>3. text \in Texts
    BY DEF Texts
  <2> HIDE DEF text
  <2>4. <<text>> = [j \in 1 .. 1 |-> text]
    OBVIOUS
  <2>5. DocsOf(i, c) = <<text>>
    BY <2>1, <2>2, <2>4
  <2>6. <<text>> \in Seq(Texts) /\ Len(<<text>>) = 1
    BY <2>3
  <2>7. DocsOf(i, c) \in Seq(Texts) /\ Len(DocsOf(i, c)) = c
    BY <1>2, <2>5, <2>6
  <2>8. DocsOf(i, c) = <<<<i, 1>>>>
    BY <2>5 DEF text
  <2> QED
    BY <1>2, <2>7, <2>8
<1> QED
  BY <1>1, <1>2

LEMMA BackedLonger ==
    ASSUME NEW items, NEW lines, NEW at, NEW n \in Nat, NEW k \in Nat, n <= k,
           Len(lines) \in Nat, Backed(items, lines, at, n)
    PROVE  Backed(items, lines, at, k)
<1>1. Chunk * n \in Nat /\ Chunk * k \in Nat /\ Chunk * n <= Chunk * k
  BY CorpusBuildAssumption, ProductMonotone
<1>2. Cardinality(Usable(items, at)) \in Nat
  BY UsableFacts DEF Backed
<1> QED
  BY <1>1, <1>2 DEF Backed

\* A row without a text is passed over.
LEMMA BackedSkip ==
    ASSUME NEW items \in Seq({0, 1}), NEW lines \in Seq(Texts), NEW n \in Nat,
           NEW at \in 0 .. Len(items) - 1, Backed(items, lines, at, n),
           items[at + 1] = 0
    PROVE  Backed(items, lines, at + 1, n)
<1>1. PICK m \in at .. Len(items) : ToSet(lines) = TextsUpTo(items, m)
  BY DEF Backed, Covers
<1>2. /\ Usable(items, at + 1) = Usable(items, at)
      /\ Cardinality(Usable(items, at + 1)) = Cardinality(Usable(items, at))
  <2>1. Usable(items, at + 1) =
            Usable(items, at) \cup (IF items[at + 1] = 1 THEN {at + 1} ELSE {})
    BY UsableStep
  <2> QED
    BY <2>1
<1>3. Covers(items, lines, at + 1)
  <2>1. CASE m = at
    <3>1. ToSet(lines) = TextsUpTo(items, at + 1)
      BY <1>1, <1>2, <2>1 DEF TextsUpTo
    <3> QED
      BY <3>1 DEF Covers
  <2>2. CASE m # at
    <3>1. m \in at + 1 .. Len(items)
      BY <1>1, <2>2
    <3> QED
      BY <1>1, <3>1 DEF Covers
  <2> QED
    BY <2>1, <2>2
<1> QED
  BY <1>2, <1>3 DEF Backed

\* The members of a sequence with one more line.
LEMMA MembersWithOneMore ==
    ASSUME NEW S, NEW lines \in Seq(S), NEW x \in S
    PROVE  ToSet(lines \o <<x>>) = ToSet(lines) \cup {x}
<1>1. /\ lines \o <<x>> \in Seq(S) /\ Len(lines \o <<x>>) = Len(lines) + 1
      /\ \A i \in 1 .. Len(lines) + 1 :
            (lines \o <<x>>)[i] = IF i <= Len(lines) THEN lines[i] ELSE x
  OBVIOUS
<1>2. DOMAIN lines = 1 .. Len(lines) /\ Len(lines) \in Nat
  OBVIOUS
<1>3. DOMAIN (lines \o <<x>>) = 1 .. Len(lines) + 1
  BY <1>1
<1> QED
  BY <1>1, <1>2, <1>3 DEF ToSet

\* The text of a row is written.
LEMMA BackedRead ==
    ASSUME NEW items \in Seq({0, 1}), NEW lines \in Seq(Texts), NEW n \in Nat,
           NEW at \in 0 .. Len(items) - 1, Backed(items, lines, at, n),
           items[at + 1] = 1
    PROVE  Backed(items, lines \o <<<<at + 1, 1>>>>, at + 1, n)
<1> DEFINE text == <<at + 1, 1>>
<1>1. PICK m \in at .. Len(items) : ToSet(lines) = TextsUpTo(items, m)
  BY DEF Backed, Covers
<1>2. /\ Usable(items, at + 1) = Usable(items, at) \cup {at + 1}
      /\ Cardinality(Usable(items, at + 1)) = Cardinality(Usable(items, at)) + 1
  <2>1. Usable(items, at + 1) =
            Usable(items, at) \cup (IF items[at + 1] = 1 THEN {at + 1} ELSE {})
    BY UsableStep
  <2>2. Cardinality(Usable(items, at + 1)) = Cardinality(Usable(items, at)) + items[at + 1]
    BY UsableStep
  <2> QED
    BY <2>1, <2>2
<1>3. text \in Texts
  <2>1. at + 1 \in Nat
    OBVIOUS
  <2> QED
    BY <2>1 DEF Texts
<1> HIDE DEF text
<1>4. ToSet(lines \o <<text>>) = ToSet(lines) \cup {text}
  BY <1>3, MembersWithOneMore
<1>5. Covers(items, lines \o <<text>>, at + 1)
  <2>1. CASE m = at
    <3>1. TextsUpTo(items, at + 1) = TextsUpTo(items, at) \cup {text}
      BY <1>2 DEF TextsUpTo, text
    <3>2. ToSet(lines \o <<text>>) = TextsUpTo(items, at + 1)
      BY <1>1, <1>4, <2>1, <3>1
    <3> QED
      BY <3>2 DEF Covers
  <2>2. CASE m # at
    <3>1. m \in at + 1 .. Len(items)
      BY <1>1, <2>2
    <3>2. at + 1 \in Usable(items, m)
      BY <3>1 DEF Usable
    <3>3. text \in TextsUpTo(items, m)
      BY <3>2 DEF TextsUpTo, text
    <3> QED
      BY <1>1, <1>4, <3>1, <3>3 DEF Covers
  <2> QED
    BY <2>1, <2>2
<1>6. Len(lines \o <<text>>) = Len(lines) + 1
  BY <1>3
<1>7. Cardinality(Usable(items, at)) \in Nat /\ Chunk * n \in Nat
  BY UsableFacts, CorpusBuildAssumption, Allowance
<1>8. Backed(items, lines \o <<text>>, at + 1, n)
  BY <1>2, <1>5, <1>6, <1>7 DEF Backed
<1> QED
  BY <1>8 DEF text

\* A crash before the cursor of the last chunk is saved costs one more chunk.
LEMMA BackedBehind ==
    ASSUME NEW items \in Seq({0, 1}), NEW lines \in Seq(Texts), NEW at, NEW n \in Nat,
           Backed(items, lines, at, n),
           NEW old \in Seq(Texts), NEW c, c <= at, Backed(items, old, c, n),
           Len(lines) <= Len(old) + Chunk
    PROVE  Backed(items, lines, c, n + 1)
<1>1. Covers(items, lines, c)
  BY DEF Backed, Covers
<1>2. Cardinality(Usable(items, c)) \in Nat
  BY UsableFacts DEF Backed
<1>3. Chunk * (n + 1) = Chunk * n + Chunk /\ Chunk * n \in Nat
  BY CorpusBuildAssumption, Allowance
<1> QED
  BY <1>1, <1>2, <1>3, CorpusBuildAssumption DEF Backed

\* At the end of the rows there is a line for every text.
LEMMA BackedToTheEnd ==
    ASSUME NEW items \in Seq({0, 1}), NEW lines \in Seq(Texts), NEW n,
           Backed(items, lines, Len(items), n)
    PROVE  Cardinality(Usable(items, Len(items))) <= Len(lines)
<1>1. ToSet(lines) = TextsUpTo(items, Len(items))
  BY DEF Backed, Covers
<1>2. Cardinality(TextsUpTo(items, Len(items))) = Cardinality(Usable(items, Len(items)))
  BY TextsCounted
<1> QED
  BY <1>1, <1>2, MembersCounted

\* What backing says of the lines alone.
LEMMA BackedLines ==
    ASSUME NEW items \in Seq({0, 1}), NEW lines \in Seq(Texts), NEW at, NEW n \in Nat,
           Backed(items, lines, at, n)
    PROVE  /\ Len(lines) - Cardinality(ToSet(lines)) <= Chunk * n
           /\ \E m \in 0 .. Len(items) : ToSet(lines) = TextsUpTo(items, m)
<1>1. PICK m \in at .. Len(items) : ToSet(lines) = TextsUpTo(items, m)
  BY DEF Backed, Covers
<1>2. at \in 0 .. m /\ m \in Nat /\ m \in 0 .. Len(items)
  BY <1>1 DEF Backed
<1>3. Cardinality(ToSet(lines)) = Cardinality(Usable(items, m))
  BY <1>1, <1>2, TextsCounted
<1>4. /\ Cardinality(Usable(items, at)) <= Cardinality(Usable(items, m))
      /\ Cardinality(Usable(items, at)) \in Nat /\ Cardinality(Usable(items, m)) \in Nat
  BY <1>2, UsableMonotone, UsableFacts
<1>5. Chunk * n \in Nat
  BY CorpusBuildAssumption, Allowance
<1> QED
  BY <1>1, <1>2, <1>3, <1>4, <1>5 DEF Backed

-----------------------------------------------------------------------------
(* The inductive invariant of a stream *)

\* Resuming keeps whole chunks, and drops what a crash left of the next one.
LEMMA ResumedFacts ==
    ASSUME NEW S, NEW lines \in Seq(S)
    PROVE  /\ Resumed(lines) \in Seq(S) /\ Len(Resumed(lines)) <= Len(lines)
           /\ Len(Resumed(lines)) % Chunk = 0
<1> DEFINE n == (Len(lines) \div Chunk) * Chunk
<1>1. n \in 0 .. Len(lines) /\ n % Chunk = 0
  <2>1. Len(lines) \in Nat /\ Chunk \in Nat \ {0}
    BY CorpusBuildAssumption
  <2> QED
    BY <2>1, FloorIsWholeChunks
<1>2. Resumed(lines) = SubSeq(lines, 1, n)
  BY DEF Resumed
<1> HIDE DEF n
<1> QED
  BY <1>1, <1>2

LEMMA ResumedDropsTheRest ==
    ASSUME NEW S, NEW lines \in Seq(S), NEW rest \in Seq(S),
           Len(lines) % Chunk = 0, Len(rest) < Chunk
    PROVE  Resumed(lines \o rest) = lines
<1>1. lines \o rest \in Seq(S) /\ Len(lines \o rest) = Len(lines) + Len(rest)
  OBVIOUS
<1>2. (Len(lines \o rest) \div Chunk) * Chunk = Len(lines)
  <2>1. Len(lines) \in Nat /\ Len(rest) \in Nat /\ Chunk \in Nat \ {0}
    BY CorpusBuildAssumption
  <2>2. ((Len(lines) + Len(rest)) \div Chunk) * Chunk = Len(lines)
    BY <2>1, FloorOfWholeChunks
  <2> QED
    BY <1>1, <2>2
<1>3. Resumed(lines \o rest) = SubSeq(lines \o rest, 1, Len(lines))
  BY <1>2 DEF Resumed
<1>4. SubSeq(lines \o rest, 1, Len(lines)) = lines
  OBVIOUS
<1> QED
  BY <1>3, <1>4

LEMMA ResumedWhole ==
    ASSUME NEW S, NEW lines \in Seq(S), Len(lines) % Chunk = 0
    PROVE  Resumed(lines) = lines
<1>1. << >> \in Seq(S) /\ Len(<< >>) < Chunk /\ lines \o << >> = lines
  BY CorpusBuildAssumption
<1>2. Resumed(lines \o << >>) = lines
  BY <1>1, ResumedDropsTheRest
<1> QED
  BY <1>1, <1>2

Streaming == source \in Sources /\ source.puller = "stream" /\ Fillable(source)

StreamShape ==
    /\ job \in [Pods -> [phase : Phases, at : Nat, buffer : Seq(Texts)]]
    /\ part \in [Pods -> [there : BOOLEAN, lines : Seq(Texts)]]
    /\ cursor \in [Pods -> Nat] /\ launches \in [Pods -> Nat]
    /\ pulled \in [Pods -> Seq(Texts)]
    /\ raw = [p \in Pods |-> [there |-> raw[p].there, lines |-> raw[p].lines]]
    /\ window = [p \in Pods |-> window[p]]
    /\ \A p \in Pods : raw[p].there \in BOOLEAN /\ window[p].inflight = {}

Lines(p) == part[p].lines \o job[p].buffer
Pulling == {"down", "open", "pull", "cursor", "tail", "last", "rename"}
Pulled == {"down", "unlink", "shuffle", "mark", "shard", "join", "merge", "seal",
           "cleanup", "done"}

\* The interruptions that may have cost a chunk: a crash between the flush of
\* a chunk and its cursor counts before the next launch.
Interruptions(p) ==
    IF job[p].phase \in {"down", "cursor"} THEN launches[p] ELSE launches[p] - 1

\* Until the raw file is there, the durable lines and the durable cursor agree
\* whatever crashes next, and a running pull agrees with its own cursor.
Pull(p) ==
    /\ job[p].phase \in Pulling
    /\ job[p].phase # "down" => launches[p] >= 1
    /\ Backed(source.items, Resumed(part[p].lines), cursor[p], Interruptions(p))
    /\ job[p].phase \in {"pull", "cursor", "tail", "last"} =>
            /\ cursor[p] <= job[p].at
            /\ Backed(source.items, Lines(p), job[p].at, launches[p] - 1)
    /\ job[p].phase \notin {"down", "open"} => Len(part[p].lines) % Chunk = 0
    /\ job[p].phase = "pull" =>
            Len(job[p].buffer) < Chunk /\ Len(Lines(p)) < source.target
    /\ job[p].phase \in {"tail", "last", "rename"} =>
            Len(part[p].lines) = source.target /\ part[p].there

\* What was renamed stays a completed pull.
Renamed(p) ==
    raw[p].there \/ pulled[p] # << >> =>
        /\ Len(pulled[p]) = source.target
        /\ launches[p] >= 1
        /\ \E at \in Nat : Backed(source.items, pulled[p], at, launches[p] - 1)

StreamPod(p) ==
    /\ job[p].phase # "pull" => job[p].buffer = << >>
    /\ Len(part[p].lines) <= source.target
    /\ part[p].there \/ (part[p].lines = << >> /\ job[p].buffer = << >>)
    /\ raw[p].there => job[p].phase \in Pulled
    /\ ~raw[p].there /\ job[p].phase # "done" => Pull(p)
    /\ Renamed(p)

StreamInv == StreamShape /\ \A p \in Pods : StreamPod(p)

LEMMA OnePod == ASSUME Streaming PROVE Pods = {1} /\ Target(1) = source.target
<1>1. source.pods = 1 /\ source.target \in Nat
  BY DEF Streaming, Fillable
<1>2. source.target \div 1 = source.target
  BY <1>1
<1> QED
  BY <1>1, <1>2 DEF Pods, Target, Quota

LEMMA NothingYet ==
    ASSUME NEW items \in Seq({0, 1})
    PROVE  Backed(items, << >>, 0, 0)
<1>1. Usable(items, 0) = {}
  BY DEF Usable
<1>2. ToSet(<< >>) = {} /\ TextsUpTo(items, 0) = {}
  BY <1>1 DEF ToSet, TextsUpTo
<1>3. Len(items) \in Nat /\ Chunk * 0 = 0 /\ Len(<< >>) = 0
  BY CorpusBuildAssumption
<1>4. Cardinality(Usable(items, 0)) = 0
  BY <1>1, FS_EmptySet
<1>5. Covers(items, << >>, 0)
  BY <1>2, <1>3 DEF Covers
<1> QED
  BY <1>3, <1>4, <1>5 DEF Backed

LEMMA StreamInit ==
    ASSUME Streaming, Init
    PROVE  StreamInv
<1>1. Pods = {1} /\ Target(1) = source.target /\ source.target \in Nat \ {0}
      /\ source.items \in Seq({0, 1})
  BY OnePod DEF Streaming, Fillable
<1>2. << >> \in Seq(Texts) /\ Len(<< >>) = 0
  OBVIOUS
<1>3. StreamShape
  <2>1. Idle \in [phase : Phases, at : Nat, buffer : Seq(Texts)]
    BY <1>2 DEF Idle, Phases
  <2>2. Missing \in [there : BOOLEAN, lines : Seq(Texts)]
        /\ Missing = [there |-> Missing.there, lines |-> Missing.lines]
        /\ Missing.there \in BOOLEAN
    BY <1>2 DEF Missing
  <2>3. NoWindow.inflight = {}
    BY DEF NoWindow
  <2>4. job \in [Pods -> [phase : Phases, at : Nat, buffer : Seq(Texts)]]
    BY <2>1 DEF Init
  <2>5. part \in [Pods -> [there : BOOLEAN, lines : Seq(Texts)]]
    BY <2>2 DEF Init
  <2>6. cursor \in [Pods -> Nat] /\ launches \in [Pods -> Nat]
        /\ pulled \in [Pods -> Seq(Texts)]
    BY <1>2 DEF Init
  <2>7. raw = [p \in Pods |-> [there |-> raw[p].there, lines |-> raw[p].lines]]
        /\ \A p \in Pods : raw[p].there \in BOOLEAN
    BY <2>2 DEF Init
  <2>8. window = [p \in Pods |-> window[p]] /\ \A p \in Pods : window[p].inflight = {}
    BY <2>3 DEF Init
  <2> QED
    BY <2>4, <2>5, <2>6, <2>7, <2>8 DEF StreamShape
<1>4. ASSUME NEW p \in Pods PROVE StreamPod(p)
  <2>1. /\ job[p].phase = "down" /\ job[p].buffer = << >> /\ launches[p] = 0
        /\ cursor[p] = 0 /\ part[p].lines = << >> /\ pulled[p] = << >>
        /\ ~raw[p].there
    BY DEF Init, Idle, Missing
  <2>2. Resumed(<< >>) = << >>
    <3>1. Len(<< >>) % Chunk = 0
      BY CorpusBuildAssumption, Z3
    <3> QED
      BY <1>2, <3>1, ResumedWhole
  <2>3. Backed(source.items, << >>, 0, 0)
    BY <1>1, NothingYet
  <2>4. Pull(p)
    BY <2>1, <2>2, <2>3 DEF Pull, Pulling, Interruptions
  <2>5. Renamed(p)
    BY <2>1 DEF Renamed
  <2> QED
    BY <1>1, <2>1, <2>4, <2>5 DEF StreamPod
<1> QED
  BY <1>3, <1>4 DEF StreamInv

-----------------------------------------------------------------------------
(* Steps that leave the pull alone *)

JobRecords == [phase : Phases, at : Nat, buffer : Seq(Texts)]
PartRecords == [there : BOOLEAN, lines : Seq(Texts)]

LEMMA StreamFrame ==
    ASSUME StreamInv,
           UNCHANGED <<source, job, window, part, cursor, raw, launches, pulled>>
    PROVE  StreamInv'
<1>1. Pods' = Pods
  BY DEF Pods
<1>2. StreamShape'
  BY <1>1 DEF StreamInv, StreamShape
<1>3. ASSUME NEW p \in Pods PROVE StreamPod(p)'
  <2>1. StreamPod(p)
    BY DEF StreamInv
  <2>2. Interruptions(p)' = Interruptions(p) /\ Lines(p)' = Lines(p)
    BY DEF Interruptions, Lines
  <2>3. Pull(p) => Pull(p)'
    BY <2>2 DEF Pull
  <2>4. Renamed(p) => Renamed(p)'
    BY DEF Renamed
  <2> QED
    BY <2>1, <2>3, <2>4 DEF StreamPod
<1> QED
  BY <1>1, <1>2, <1>3 DEF StreamInv

LEMMA GotoJob ==
    ASSUME NEW p \in Pods, NEW phase \in Phases, job \in [Pods -> JobRecords],
           Goto(p, phase)
    PROVE  /\ job' \in [Pods -> JobRecords]
           /\ job'[p].phase = phase /\ job'[p].at = job[p].at
           /\ job'[p].buffer = job[p].buffer
  BY DEF Goto, JobRecords

\* Once the raw file is there, nothing touches what the pull left.
LEMMA AfterRenameStep ==
    ASSUME Streaming, StreamInv, NEW p \in Pods, raw[p].there,
           UNCHANGED <<source, part, launches, pulled>>,
           job' \in [Pods -> JobRecords], cursor' \in [Pods -> Nat],
           job'[p].phase \in Pulled, job'[p].buffer = << >>,
           raw' = [q \in Pods |-> [there |-> raw'[q].there, lines |-> raw'[q].lines]],
           raw'[p].there \in BOOLEAN, raw'[p].there \/ job'[p].phase = "done",
           window' = [q \in Pods |-> window'[q]], window'[p].inflight = {}
    PROVE  StreamInv'
<1>1. Pods = {1} /\ Pods' = Pods /\ p = 1
  BY OnePod DEF Pods
<1>2. StreamShape'
  BY <1>1 DEF StreamInv, StreamShape, JobRecords
<1>3. StreamPod(1)'
  <2>1. StreamPod(1)
    BY <1>1 DEF StreamInv
  <2>2. Renamed(1)'
    BY <1>1, <2>1 DEF StreamPod, Renamed
  <2> QED
    BY <1>1, <2>1, <2>2 DEF StreamPod
<1> QED
  BY <1>1, <1>2, <1>3 DEF StreamInv

LEMMA StreamLaunch ==
    ASSUME Streaming, StreamInv, NEW p \in Pods, Launch(p)
    PROVE  StreamInv'
<1>1. Pods = {1} /\ Pods' = Pods /\ p = 1
  BY OnePod DEF Pods, Launch
<1>2. StreamShape /\ StreamPod(1)
  BY <1>1 DEF StreamInv
<1> DEFINE next == IF manifest.there \/ (source.pods > 1 /\ parts[p][1].there) THEN "done"
                   ELSE IF raw[p].there THEN AfterRaw(p, marker[p]) ELSE "open"
<1>3. /\ job' = [job EXCEPT ![p] = [Idle EXCEPT !.phase = next]]
      /\ launches' = [launches EXCEPT ![p] = launches[p] + 1]
      /\ job[p].phase = "down"
      /\ UNCHANGED <<source, window, part, cursor, raw, pulled>>
  BY DEF Launch, durable
<1>4. next \in Phases /\ next \in {"done", "shard", "shuffle", "open"}
      /\ (raw[p].there => next # "open") /\ (~raw[p].there => next \in {"done", "open"})
  BY DEF AfterRaw, Phases
<1> HIDE DEF next
<1>5. /\ job'[1].phase = next /\ job'[1].buffer = << >> /\ job'[1].at = 0
      /\ job' \in [Pods -> JobRecords]
      /\ launches'[1] = launches[1] + 1 /\ launches' \in [Pods -> Nat]
      /\ launches[1] \in Nat
  <2> DEFINE record == [phase |-> next, at |-> 0, buffer |-> << >>]
  <2>1. [Idle EXCEPT !.phase = next] = record
    BY DEF Idle
  <2>2. record \in JobRecords /\ record.phase = next /\ record.buffer = << >> /\ record.at = 0
    BY <1>4 DEF JobRecords
  <2> HIDE DEF record
  <2>3. job' = [job EXCEPT ![1] = record] /\ job \in [Pods -> JobRecords]
    BY <1>1, <1>2, <1>3, <2>1 DEF StreamShape, JobRecords
  <2>4. job'[1] = record /\ job' \in [Pods -> JobRecords]
    BY <1>1, <2>2, <2>3
  <2>5. launches \in [Pods -> Nat] /\ launches' = [launches EXCEPT ![1] = launches[1] + 1]
    BY <1>1, <1>2, <1>3 DEF StreamShape
  <2>6. launches'[1] = launches[1] + 1 /\ launches' \in [Pods -> Nat] /\ launches[1] \in Nat
    BY <1>1, <2>5
  <2> QED
    BY <2>2, <2>4, <2>6
<1>6. StreamShape'
  BY <1>1, <1>2, <1>3, <1>5 DEF StreamShape, JobRecords
<1>7. part[1].lines \in Seq(Texts) /\ pulled[1] \in Seq(Texts)
  BY <1>1, <1>2 DEF StreamShape
<1>8. Renamed(1)'
  <2>1. ASSUME raw[1].there \/ pulled[1] # << >>
        PROVE  \E at \in Nat : Backed(source.items, pulled[1], at, launches[1])
    <3>1. PICK at \in Nat : Backed(source.items, pulled[1], at, launches[1] - 1)
      BY <1>2, <2>1 DEF StreamPod, Renamed
    <3>2. launches[1] - 1 \in Nat /\ launches[1] - 1 <= launches[1] /\ Len(pulled[1]) \in Nat
      BY <1>2, <1>5, <1>7, <2>1 DEF StreamPod, Renamed
    <3> QED
      BY <1>5, <3>1, <3>2, BackedLonger
  <2>2. launches'[1] - 1 = launches[1] /\ launches'[1] >= 1
    BY <1>5
  <2> QED
    BY <1>2, <1>3, <2>1, <2>2 DEF StreamPod, Renamed
<1>9. ~raw[1].there /\ next # "done" => Pull(1)'
  <2> SUFFICES ASSUME ~raw[1].there, next = "open" PROVE Pull(1)'
    BY <1>1, <1>4
  <2>1. Pull(1) /\ job[1].phase = "down"
    BY <1>1, <1>2, <1>3 DEF StreamPod
  <2>2. Backed(source.items, Resumed(part[1].lines), cursor[1], launches[1])
    BY <2>1 DEF Pull, Interruptions
  <2>3. Interruptions(1)' = launches[1]
    BY <1>5 DEF Interruptions
  <2>4. Resumed(part[1].lines)' = Resumed(part[1].lines)
    BY <1>3 DEF Resumed
  <2> QED
    BY <1>3, <1>5, <2>2, <2>3, <2>4 DEF Pull, Pulling
<1>10. StreamPod(1)'
  BY <1>2, <1>3, <1>4, <1>5, <1>8, <1>9 DEF StreamPod, Pulled
<1> QED
  BY <1>1, <1>6, <1>10 DEF StreamInv

-----------------------------------------------------------------------------
(* Crashes and the steps of a pull *)

\* What a crash may leave of buffered lines behind the durable ones.
LEMMA TornLines ==
    ASSUME NEW S, NEW durableLines \in Seq(S), NEW buffer \in Seq(S),
           NEW n \in 0 .. Len(buffer)
    PROVE  /\ SubSeq(buffer, 1, n) \in Seq(S) /\ Len(SubSeq(buffer, 1, n)) = n
           /\ durableLines \o SubSeq(buffer, 1, n) \in Seq(S)
           /\ Len(durableLines \o SubSeq(buffer, 1, n)) = Len(durableLines) + n
           /\ n = 0 => /\ SubSeq(buffer, 1, n) = << >>
                       /\ durableLines \o SubSeq(buffer, 1, n) = durableLines
<1>1. SubSeq(buffer, 1, n) \in Seq(S) /\ Len(SubSeq(buffer, 1, n)) = n
  OBVIOUS
<1> DEFINE rest == SubSeq(buffer, 1, n)
<1> HIDE DEF rest
<1>2. rest \in Seq(S) /\ Len(rest) = n
  BY <1>1 DEF rest
<1>3. durableLines \o rest \in Seq(S) /\ Len(durableLines \o rest) = Len(durableLines) + n
  BY <1>2
<1>4. n = 0 => rest = << >>
  BY <1>2
<1>5. n = 0 => durableLines \o rest = durableLines
  BY <1>4
<1> QED
  BY <1>2, <1>3, <1>4, <1>5 DEF rest

\* A crash leaves what was durable, and part of a chunk that resuming drops.
LEMMA StreamDie ==
    ASSUME Streaming, StreamInv, NEW p \in Pods, Die(p)
    PROVE  StreamInv'
<1>1. Pods = {1} /\ Pods' = Pods /\ p = 1
  BY OnePod DEF Pods, Die
<1>2. StreamShape /\ StreamPod(1)
  BY <1>1 DEF StreamInv
<1>3. PICK n \in 0 .. Len(job[1].buffer) :
         part' = [part EXCEPT ![1].lines = @ \o SubSeq(job[1].buffer, 1, n)]
  BY <1>1 DEF Die
<1>4. /\ job' = [job EXCEPT ![1] = Idle] /\ window' = [window EXCEPT ![1] = NoWindow]
      /\ job[1].phase \notin {"down", "done"}
      /\ UNCHANGED <<source, cursor, raw, launches, pulled>>
  BY <1>1 DEF Die
<1>5. /\ job \in [Pods -> JobRecords] /\ part \in [Pods -> PartRecords]
      /\ job[1] \in JobRecords /\ part[1] \in PartRecords
      /\ part[1].lines \in Seq(Texts) /\ job[1].buffer \in Seq(Texts)
      /\ part[1].there \in BOOLEAN /\ launches[1] \in Nat
  BY <1>1, <1>2 DEF StreamShape, JobRecords, PartRecords
<1> DEFINE rest == SubSeq(job[1].buffer, 1, n)
           lines == part[1].lines \o rest
<1>6. /\ rest \in Seq(Texts) /\ Len(rest) = n
      /\ lines \in Seq(Texts) /\ Len(lines) = Len(part[1].lines) + n
      /\ n \in 0 .. Len(job[1].buffer) /\ Len(part[1].lines) \in Nat
      /\ n = 0 => rest = << >> /\ lines = part[1].lines
  <2>1. n \in 0 .. Len(job[1].buffer) /\ Len(part[1].lines) \in Nat
    BY <1>5
  <2> DEFINE file == part[1].lines
             buffer == job[1].buffer
  <2>2. file \in Seq(Texts) /\ buffer \in Seq(Texts) /\ n \in 0 .. Len(buffer)
    BY <1>5, <2>1
  <2> HIDE DEF file, buffer
  <2>3. /\ SubSeq(buffer, 1, n) \in Seq(Texts) /\ Len(SubSeq(buffer, 1, n)) = n
        /\ file \o SubSeq(buffer, 1, n) \in Seq(Texts)
        /\ Len(file \o SubSeq(buffer, 1, n)) = Len(file) + n
        /\ n = 0 => /\ SubSeq(buffer, 1, n) = << >>
                    /\ file \o SubSeq(buffer, 1, n) = file
    BY <2>2, TornLines
  <2> QED
    BY <2>1, <2>3 DEF file, buffer
<1>7. /\ part' \in [Pods -> PartRecords]
      /\ part'[1].lines = lines /\ part'[1].there = part[1].there
  <2>1. part' = [part EXCEPT ![1].lines = lines]
    BY <1>3
  <2> HIDE DEF lines
  <2> QED
    BY <1>1, <1>5, <1>6, <2>1 DEF PartRecords
<1> HIDE DEF lines, rest
<1>8. /\ job' \in [Pods -> JobRecords] /\ job'[1].phase = "down" /\ job'[1].buffer = << >>
  <2>1. Idle \in JobRecords /\ Idle.phase = "down" /\ Idle.buffer = << >>
    BY DEF Idle, JobRecords, Phases
  <2> QED
    BY <1>1, <1>4, <1>5, <2>1
<1>9. window' = [q \in Pods |-> window'[q]] /\ window'[1].inflight = {}
  <2>1. NoWindow.inflight = {}
    BY DEF NoWindow
  <2> QED
    BY <1>1, <1>2, <1>4, <2>1 DEF StreamShape
<1>10. StreamShape'
  BY <1>1, <1>2, <1>4, <1>7, <1>8, <1>9 DEF StreamShape, JobRecords, PartRecords
<1>11. job[1].phase # "pull" => n = 0
  BY <1>2, <1>6 DEF StreamPod
<1>12. Len(lines) <= source.target
  <2>1. source.target \in Nat
    BY DEF Streaming, Fillable
  <2>2. CASE job[1].phase = "pull"
    <3>1. raw[1].there \in BOOLEAN
      BY <1>1, <1>2 DEF StreamShape
    <3>2. Pull(1)
      BY <1>2, <2>2, <3>1 DEF StreamPod, Pulled
    <3>3. Len(Lines(1)) < source.target
      BY <2>2, <3>2 DEF Pull
    <3>4. Len(Lines(1)) = Len(part[1].lines) + Len(job[1].buffer)
      BY <1>5 DEF Lines
    <3>5. Len(job[1].buffer) \in Nat
      BY <1>5
    <3>6. Len(lines) <= Len(part[1].lines) + Len(job[1].buffer) /\ Len(lines) \in Nat
      BY <1>6, <3>5
    <3>7. Len(part[1].lines) + Len(job[1].buffer) < source.target
      BY <3>3, <3>4
    <3>8. Len(part[1].lines) \in Nat
      BY <1>5
    <3> QED
      <4> DEFINE a == Len(lines)
                 b == Len(part[1].lines)
                 c == Len(job[1].buffer)
                 t == source.target
      <4>1. a \in Nat /\ b \in Nat /\ c \in Nat /\ t \in Nat /\ a <= b + c /\ b + c < t
        BY <2>1, <3>5, <3>6, <3>7, <3>8
      <4> HIDE DEF a, b, c, t
      <4>2. a <= t
        BY <4>1
      <4> QED
        BY <4>2 DEF a, t
  <2>3. CASE job[1].phase # "pull"
    BY <1>2, <1>6, <1>11, <2>3 DEF StreamPod
  <2> QED
    BY <2>2, <2>3
<1>13. part[1].there \/ lines = << >>
  BY <1>2, <1>6 DEF StreamPod
<1>14. ~raw[1].there => Pull(1)'
  <2> SUFFICES ASSUME ~raw[1].there PROVE Pull(1)'
    OBVIOUS
  <2>1. Pull(1)
    BY <1>2, <1>4 DEF StreamPod
  <2>2. Resumed(lines) = Resumed(part[1].lines)
    <3>1. CASE job[1].phase = "pull"
      <4>1. Len(part[1].lines) % Chunk = 0 /\ Len(job[1].buffer) < Chunk
        BY <2>1, <3>1 DEF Pull
      <4>2. Len(rest) < Chunk
        BY <1>5, <1>6, <4>1, CorpusBuildAssumption
      <4>3. Resumed(part[1].lines \o rest) = part[1].lines
        BY <1>5, <1>6, <4>1, <4>2, ResumedDropsTheRest
      <4>4. Resumed(part[1].lines) = part[1].lines
        BY <1>5, <4>1, ResumedWhole
      <4> QED
        BY <4>3, <4>4 DEF lines
    <3>2. CASE job[1].phase # "pull"
      BY <1>6, <1>11, <3>2
    <3> QED
      BY <3>1, <3>2
  <2>3. Interruptions(1) \in Nat /\ Interruptions(1) <= launches[1]
    BY <1>4, <1>5, <2>1 DEF Pull, Interruptions
  <2>4. Len(Resumed(part[1].lines)) \in Nat
    BY <1>5, ResumedFacts
  <2>5. Backed(source.items, Resumed(part[1].lines), cursor[1], launches[1])
    BY <1>5, <2>1, <2>3, <2>4, BackedLonger DEF Pull
  <2>6. Interruptions(1)' = launches[1]
    BY <1>4, <1>8 DEF Interruptions
  <2>7. Resumed(part[1].lines)' = Resumed(lines)
    BY <1>7 DEF Resumed
  <2> QED
    BY <1>4, <1>8, <2>2, <2>5, <2>6, <2>7 DEF Pull, Pulling
<1>15. Renamed(1)'
  BY <1>2, <1>4 DEF StreamPod, Renamed
<1>16. StreamPod(1)'
  BY <1>4, <1>7, <1>8, <1>12, <1>13, <1>14, <1>15 DEF StreamPod, Pulled
<1> QED
  BY <1>1, <1>10, <1>16 DEF StreamInv

\* What a step of a running pull has to establish.
LEMMA PullStep ==
    ASSUME Streaming, StreamInv, ~raw[1].there,
           UNCHANGED <<source, window, raw, launches, pulled>>,
           job' \in [Pods -> JobRecords], part' \in [Pods -> PartRecords],
           cursor' \in [Pods -> Nat],
           job'[1].phase # "pull" => job'[1].buffer = << >>,
           Len(part'[1].lines) <= source.target,
           part'[1].there \/ (part'[1].lines = << >> /\ job'[1].buffer = << >>),
           Pull(1)'
    PROVE  StreamInv'
<1>1. Pods = {1} /\ Pods' = Pods
  BY OnePod DEF Pods
<1>2. StreamShape /\ StreamPod(1)
  BY <1>1 DEF StreamInv
<1>3. StreamShape'
  BY <1>1, <1>2 DEF StreamShape, JobRecords, PartRecords
<1>4. Renamed(1)'
  BY <1>2 DEF StreamPod, Renamed
<1>5. StreamPod(1)'
  BY <1>4 DEF StreamPod
<1> QED
  BY <1>1, <1>3, <1>5 DEF StreamInv

\* What the invariant says of a pull that is running.
LEMMA PullRunning ==
    ASSUME Streaming, StreamInv, NEW p \in Pods, job[p].phase \in Pulling \ {"down"}
    PROVE  /\ p = 1 /\ Pods = {1} /\ Pull(1) /\ StreamPod(1) /\ ~raw[1].there
           /\ job \in [Pods -> JobRecords] /\ part \in [Pods -> PartRecords]
           /\ cursor \in [Pods -> Nat] /\ cursor[1] \in Nat /\ launches[1] \in Nat \ {0}
           /\ job[1] = [phase |-> job[1].phase, at |-> job[1].at, buffer |-> job[1].buffer]
           /\ job[1].at \in Nat /\ job[1].buffer \in Seq(Texts)
           /\ part[1].lines \in Seq(Texts) /\ part[1].there \in BOOLEAN
           /\ source.items \in Seq({0, 1}) /\ Len(source.items) \in Nat
           /\ source.target \in Nat \ {0} /\ source.target % Chunk = 0
           /\ Target(1) = source.target
<1>1. p = 1 /\ Pods = {1} /\ Target(1) = source.target
  BY OnePod
<1>2. StreamShape /\ StreamPod(1)
  BY <1>1 DEF StreamInv
<1>3. /\ job \in [Pods -> JobRecords] /\ part \in [Pods -> PartRecords]
      /\ cursor \in [Pods -> Nat] /\ launches \in [Pods -> Nat] /\ raw[1].there \in BOOLEAN
  BY <1>1, <1>2 DEF StreamShape, JobRecords, PartRecords
<1>4. job[1] \in JobRecords /\ part[1] \in PartRecords
      /\ cursor[1] \in Nat /\ launches[1] \in Nat
  BY <1>1, <1>3
<1>5. ~raw[1].there /\ Pull(1)
  BY <1>1, <1>2, <1>3 DEF StreamPod, Pulled, Pulling
<1>6. launches[1] \in Nat \ {0}
  BY <1>1, <1>4, <1>5 DEF Pull
<1>7. /\ source.items \in Seq({0, 1}) /\ Len(source.items) \in Nat
      /\ source.target \in Nat \ {0} /\ source.target % Chunk = 0
  BY DEF Streaming, Fillable
<1>8. /\ job[1] = [phase |-> job[1].phase, at |-> job[1].at, buffer |-> job[1].buffer]
      /\ job[1].at \in Nat /\ job[1].buffer \in Seq(Texts)
      /\ part[1].lines \in Seq(Texts) /\ part[1].there \in BOOLEAN
  BY <1>4 DEF JobRecords, PartRecords
<1> QED
  BY <1>1, <1>2, <1>3, <1>4, <1>5, <1>6, <1>7, <1>8

LEMMA StreamOpen ==
    ASSUME Streaming, StreamInv, NEW p \in Pods, OpenPart(p)
    PROVE  StreamInv'
<1>1. job[p].phase = "open"
  BY DEF OpenPart
<1>2. /\ p = 1 /\ Pods = {1} /\ Pull(1) /\ StreamPod(1) /\ ~raw[1].there
      /\ job \in [Pods -> JobRecords] /\ part \in [Pods -> PartRecords]
      /\ cursor \in [Pods -> Nat] /\ cursor[1] \in Nat /\ launches[1] \in Nat \ {0}
      /\ job[1] = [phase |-> job[1].phase, at |-> job[1].at, buffer |-> job[1].buffer]
      /\ job[1].at \in Nat /\ job[1].buffer = << >>
      /\ part[1].lines \in Seq(Texts) /\ part[1].there \in BOOLEAN
      /\ source.target \in Nat \ {0} /\ Target(1) = source.target
  <2>1. job[p].phase \in Pulling \ {"down"}
    BY <1>1 DEF Pulling
  <2>2. p = 1 /\ StreamPod(1)
    BY <2>1, PullRunning
  <2>3. job[1].buffer = << >>
    BY <1>1, <2>2 DEF StreamPod
  <2> QED
    BY <2>1, <2>3, PullRunning
<1> DEFINE kept == Resumed(part[1].lines)
           full == Len(kept) >= source.target
           record == [phase |-> IF full THEN "rename" ELSE "pull",
                      at |-> IF full THEN job[1].at ELSE cursor[1],
                      buffer |-> << >>]
           file == [there |-> part[1].there, lines |-> kept]
<1>3. /\ kept \in Seq(Texts) /\ Len(kept) \in Nat /\ Len(kept) <= Len(part[1].lines)
      /\ Len(kept) % Chunk = 0 /\ Resumed(kept) = kept
  <2>1. kept \in Seq(Texts) /\ Len(kept) <= Len(part[1].lines) /\ Len(kept) % Chunk = 0
    BY <1>2, ResumedFacts
  <2>2. Resumed(kept) = kept
    BY <2>1, ResumedWhole
  <2> QED
    BY <2>1, <2>2
<1>4. /\ part' = [part EXCEPT ![1] = IF part[1].there THEN Holding(kept) ELSE part[1]]
      /\ job' = [job EXCEPT ![1] = IF full THEN [job[1] EXCEPT !.phase = "rename"]
                                   ELSE [job[1] EXCEPT !.phase = "pull", !.at = cursor[1]]]
      /\ UNCHANGED <<source, window, cursor, raw, launches, pulled>>
  BY <1>2 DEF OpenPart, Streaming
<1>5. ~part[1].there => part[1].lines = << >> /\ kept = << >>
  <2>1. ~part[1].there => part[1].lines = << >>
    BY <1>2 DEF StreamPod
  <2>2. ~part[1].there => Len(kept) = 0
    BY <1>3, <2>1
  <2> QED
    BY <1>3, <2>1, <2>2
<1>6. (IF part[1].there THEN Holding(kept) ELSE part[1]) = file
  <2>1. part[1] = [there |-> part[1].there, lines |-> part[1].lines]
    BY <1>2 DEF PartRecords
  <2> QED
    BY <1>2, <1>5, <2>1 DEF Holding
<1>7. (IF full THEN [job[1] EXCEPT !.phase = "rename"]
       ELSE [job[1] EXCEPT !.phase = "pull", !.at = cursor[1]]) = record
  BY <1>2
<1>8. /\ file \in PartRecords /\ file.lines = kept /\ file.there = part[1].there
      /\ record \in JobRecords /\ record.buffer = << >>
      /\ record.phase = (IF full THEN "rename" ELSE "pull")
      /\ ~full => record.at = cursor[1]
  BY <1>2, <1>3 DEF PartRecords, JobRecords, Phases
<1> HIDE DEF file, record
<1>9. /\ part' \in [Pods -> PartRecords] /\ part'[1] = file
      /\ job' \in [Pods -> JobRecords] /\ job'[1] = record
  BY <1>2, <1>4, <1>6, <1>7, <1>8
<1> HIDE DEF kept
<1>10. Len(part[1].lines) <= source.target /\ Len(part[1].lines) \in Nat
  BY <1>2 DEF StreamPod
<1>11. Pull(1)'
  <2>1. Backed(source.items, kept, cursor[1], launches[1] - 1)
    BY <1>1, <1>2 DEF Pull, Interruptions, kept
  <2>2. Interruptions(1)' = launches[1] - 1
    BY <1>4, <1>8, <1>9 DEF Interruptions
  <2>3. Resumed(part[1].lines)' = kept /\ Lines(1)' = kept
    <3>1. kept \o << >> = kept
      BY <1>3
    <3> QED
      BY <1>3, <1>8, <1>9, <3>1 DEF Resumed, Lines
  <2>4. full => Len(kept) = source.target /\ part[1].there
    <3>1. full => Len(kept) = source.target
      BY <1>2, <1>3, <1>10
    <3>2. full => kept # << >>
      BY <1>2, <3>1
    <3> QED
      BY <1>5, <3>1, <3>2
  <2>5. 0 < Chunk /\ Len(<< >>) = 0
    BY CorpusBuildAssumption
  <2>6. ~full => Len(kept) < source.target
    BY <1>2, <1>3
  <2> QED
    BY <1>2, <1>3, <1>4, <1>8, <1>9, <2>1, <2>2, <2>3, <2>4, <2>5, <2>6 DEF Pull, Pulling
<1>12. Len(kept) <= source.target
  BY <1>2, <1>3, <1>10
<1> QED
  BY <1>2, <1>4, <1>5, <1>8, <1>9, <1>11, <1>12, PullStep

LEMMA ThreeParts ==
    ASSUME NEW S, NEW a \in Seq(S), NEW b \in Seq(S), NEW c \in Seq(S)
    PROVE  /\ b \o c \in Seq(S) /\ Len(b \o c) = Len(b) + Len(c)
           /\ a \o b \in Seq(S) /\ Len(a \o b) = Len(a) + Len(b)
           /\ (a \o b) \o c = a \o (b \o c)
           /\ a \o (b \o c) \in Seq(S)
           /\ Len(a \o (b \o c)) = Len(a) + Len(b \o c)
           /\ a \o << >> = a
<1>1. b \o c \in Seq(S) /\ Len(b \o c) = Len(b) + Len(c)
  OBVIOUS
<1>2. a \o b \in Seq(S) /\ Len(a \o b) = Len(a) + Len(b)
  OBVIOUS
<1>3. (a \o b) \o c = a \o (b \o c)
  BY ConcatAssociative
<1>4. a \o (b \o c) \in Seq(S) /\ Len(a \o (b \o c)) = Len(a) + Len(b \o c)
  BY <1>1
<1>5. a \o << >> = a
  OBVIOUS
<1> QED
  BY <1>1, <1>2, <1>3, <1>4, <1>5

LEMMA NextRow ==
    ASSUME NEW at \in Nat, NEW n \in Nat, at < n
    PROVE  at + 1 \in 1 .. n /\ at + 1 \in Nat /\ at \in 0 .. n - 1
  OBVIOUS

\* A row read: nothing, a line into the buffer, or the flush of a whole chunk.
LEMMA StreamRead ==
    ASSUME Streaming, StreamInv, NEW p \in Pods, ReadRow(p)
    PROVE  StreamInv'
<1>1. job[p].phase = "pull"
  BY DEF ReadRow
<1>2. /\ p = 1 /\ Pods = {1} /\ Pull(1) /\ StreamPod(1) /\ ~raw[1].there
      /\ job \in [Pods -> JobRecords] /\ part \in [Pods -> PartRecords]
      /\ cursor \in [Pods -> Nat] /\ cursor[1] \in Nat /\ launches[1] \in Nat \ {0}
      /\ job[1].at \in Nat /\ job[1].buffer \in Seq(Texts)
      /\ part[1].lines \in Seq(Texts)
      /\ source.items \in Seq({0, 1}) /\ Len(source.items) \in Nat
      /\ source.target \in Nat \ {0} /\ source.target % Chunk = 0
      /\ Target(1) = source.target
  BY <1>1, PullRunning DEF Pulling
<1> DEFINE i == job[1].at + 1
           kept == part[1].lines
           buffer == job[1].buffer
           docs == DocsOf(i, source.items[i])
           lines == buffer \o docs
           total == Len(kept) + Len(lines)
           boundary == lines # buffer /\ total % Chunk = 0
           out == IF boundary THEN Flushed(lines) ELSE Buffered(lines)
           record == [phase |-> IF boundary THEN "cursor"
                                ELSE IF total >= Target(1) THEN "tail" ELSE "pull",
                      at |-> i, buffer |-> out.buffer]
           file == Holding(kept \o out.file)
<1>3. /\ part' = [part EXCEPT ![1] = file] /\ job' = [job EXCEPT ![1] = record]
      /\ UNCHANGED <<source, window, cursor, raw, launches, pulled>>
      /\ job[1].at < Len(source.items)
  BY <1>2 DEF ReadRow
<1>4. /\ out.file = (IF boundary THEN lines ELSE << >>)
      /\ out.buffer = (IF boundary THEN << >> ELSE lines)
  BY DEF Flushed, Buffered
<1>5. /\ kept \in Seq(Texts) /\ buffer \in Seq(Texts) /\ Len(kept) \in Nat
      /\ Len(buffer) \in Nat /\ i \in 1 .. Len(source.items) /\ i \in Nat
      /\ source.items[i] \in {0, 1} /\ job[1].at \in 0 .. Len(source.items) - 1
  <2>1. kept \in Seq(Texts) /\ buffer \in Seq(Texts)
    BY <1>2
  <2>2. i \in 1 .. Len(source.items) /\ i \in Nat /\ job[1].at \in 0 .. Len(source.items) - 1
    BY <1>2, <1>3, NextRow
  <2>3. source.items[i] \in {0, 1}
    BY <1>2, <2>2
  <2> QED
    BY <2>1, <2>2, <2>3
<1>6. /\ docs \in Seq(Texts) /\ Len(docs) = source.items[i]
      /\ source.items[i] = 0 => docs = << >>
      /\ source.items[i] = 1 => docs = <<<<i, 1>>>>
  BY <1>5, RowText
<1>7. /\ cursor[1] <= job[1].at /\ Len(buffer) < Chunk /\ Len(kept) % Chunk = 0
      /\ Backed(source.items, Lines(1), job[1].at, launches[1] - 1)
      /\ Backed(source.items, Resumed(kept), cursor[1], launches[1] - 1)
      /\ Len(Lines(1)) < source.target
  BY <1>1, <1>2 DEF Pull, Interruptions
<1>8. Lines(1) = kept \o buffer
  BY DEF Lines
<1>9. Resumed(kept) = kept
  BY <1>5, <1>7, ResumedWhole
<1> DEFINE before == kept \o buffer
           items == source.items
           at == job[1].at
           tries == launches[1] - 1
<1> HIDE DEF out, kept, buffer, docs
<1>10. /\ lines \in Seq(Texts) /\ Len(lines) = Len(buffer) + Len(docs)
       /\ kept \o buffer \in Seq(Texts) /\ Len(kept \o buffer) = Len(kept) + Len(buffer)
       /\ (kept \o buffer) \o docs = kept \o lines
       /\ Len(kept \o lines) = Len(kept) + Len(lines) /\ kept \o lines \in Seq(Texts)
       /\ kept \o << >> = kept
  <2>1. kept \in Seq(Texts) /\ buffer \in Seq(Texts) /\ docs \in Seq(Texts)
    BY <1>5, <1>6
  <2> QED
    BY <2>1, ThreeParts
<1>11. Backed(source.items, kept \o lines, i, launches[1] - 1)
  <2>1. /\ items \in Seq({0, 1}) /\ before \in Seq(Texts) /\ tries \in Nat
        /\ at \in 0 .. Len(items) - 1 /\ Backed(items, before, at, tries)
        /\ i = at + 1
    <3>1. items \in Seq({0, 1}) /\ tries \in Nat
      BY <1>2
    <3>2. Backed(items, before, at, tries)
      BY <1>7, <1>8
    <3>3. before \in Seq(Texts)
      BY <1>10
    <3> QED
      BY <1>5, <3>1, <3>2, <3>3
  <2>2. before \o docs = kept \o lines
    BY <1>10
  <2>3. before \o << >> = before
    BY <2>1
  <2> HIDE DEF items, before, tries, at, i, lines
  <2>4. CASE items[i] = 0
    <3>1. docs = << >>
      BY <1>6, <2>4 DEF items
    <3>2. items[at + 1] = 0
      BY <2>1, <2>4
    <3>3. Backed(items, before, at + 1, tries)
      BY <2>1, <3>2, BackedSkip
    <3> QED
      BY <2>1, <2>2, <2>3, <3>1, <3>3 DEF items, tries
  <2>5. CASE items[i] = 1
    <3>1. docs = <<<<at + 1, 1>>>>
      BY <1>6, <2>1, <2>5 DEF items
    <3>2. items[at + 1] = 1
      BY <2>1, <2>5
    <3>3. Backed(items, before \o <<<<at + 1, 1>>>>, at + 1, tries)
      BY <2>1, <3>2, BackedRead
    <3>4. Backed(items, before \o docs, at + 1, tries)
      BY <3>1, <3>3
    <3>5. Backed(items, kept \o lines, i, tries)
      BY <2>1, <2>2, <3>4
    <3> QED
      BY <3>5 DEF items, tries
  <2> QED
    BY <1>5, <2>4, <2>5 DEF items
<1>12. /\ source.items[i] = 0 => lines = buffer
       /\ source.items[i] = 1 => Len(lines) = Len(buffer) + 1
       /\ Len(lines) \in Nat /\ Len(kept \o buffer) < source.target
       /\ total <= source.target /\ total \in Nat
  <2>1. source.items[i] = 0 => lines = buffer
    BY <1>5, <1>6
  <2> HIDE DEF lines, i
  <2>2. source.items[i] = 1 => Len(lines) = Len(buffer) + 1
    BY <1>6, <1>10
  <2>3. Len(lines) = Len(buffer) + source.items[i]
    BY <1>6, <1>10
  <2>4. Len(kept) + Len(buffer) < source.target /\ Len(kept \o buffer) < source.target
    BY <1>7, <1>8, <1>10
  <2>5. Len(lines) \in Nat /\ total \in Nat /\ total <= source.target
    <3>1. /\ source.target \in Nat /\ Len(kept) \in Nat /\ Len(buffer) \in Nat
          /\ source.items[i] \in {0, 1}
      BY <1>2, <1>5 DEF i
    <3> QED
      BY <2>3, <2>4, <3>1
  <2> QED
    BY <2>1, <2>2, <2>4, <2>5
<1>13. /\ file = [there |-> TRUE, lines |-> kept \o (IF boundary THEN lines ELSE << >>)]
       /\ record = [phase |-> IF boundary THEN "cursor" ELSE "pull", at |-> i,
                    buffer |-> IF boundary THEN << >> ELSE lines]
  <2>1. ~boundary => total < source.target
    <3>1. CASE source.items[i] = 0
      <4>1. total = Len(kept) + Len(buffer)
        BY <1>12, <3>1
      <4> QED
        BY <1>10, <1>12, <4>1
    <3>2. CASE source.items[i] = 1
      <4>1. lines # buffer
        BY <1>5, <1>12, <3>2
      <4>2. ~boundary => total # source.target
        BY <1>2, <4>1
      <4>3. source.target \in Nat
        BY <1>2
      <4> QED
        BY <1>12, <4>2, <4>3
    <3> QED
      BY <1>5, <3>1, <3>2
  <2>2. ~boundary => ~(total >= Target(1))
    BY <1>2, <1>12, <2>1
  <2>3. file = [there |-> TRUE, lines |-> kept \o (IF boundary THEN lines ELSE << >>)]
    BY <1>4 DEF Holding
  <2> QED
    BY <1>4, <2>2, <2>3
<1>14. cursor[1] <= i
  BY <1>2, <1>7
<1> HIDE DEF record, file
<1>15. CASE boundary
  <2>1. /\ file = [there |-> TRUE, lines |-> kept \o lines]
        /\ record = [phase |-> "cursor", at |-> i, buffer |-> << >>]
    BY <1>13, <1>15
  <2>2. file \in PartRecords /\ record \in JobRecords
    BY <1>5, <1>10, <2>1 DEF PartRecords, JobRecords, Phases
  <2>3. /\ part' \in [Pods -> PartRecords] /\ job' \in [Pods -> JobRecords]
        /\ part'[1] = file /\ job'[1] = record
    BY <1>2, <1>3, <2>2
  <2>4. /\ part'[1].lines = kept \o lines /\ part'[1].there = TRUE
        /\ job'[1].phase = "cursor" /\ job'[1].at = i /\ job'[1].buffer = << >>
    BY <2>1, <2>3
  <2> DEFINE all == kept \o lines
  <2>5. all \in Seq(Texts) /\ Len(all) = total /\ total % Chunk = 0
    BY <1>10, <1>15
  <2>6. Backed(source.items, all, i, launches[1] - 1)
    BY <1>11
  <2> HIDE DEF all
  <2>7. Resumed(all) = all /\ all \o << >> = all
    <3>1. Resumed(all) = all
      BY <2>5, ResumedWhole
    <3>2. all \o << >> = all
      BY <2>5
    <3> QED
      BY <3>1, <3>2
  <2>8. Len(all) <= Len(kept) + Chunk
    <3>1. Len(lines) <= Chunk
      BY <1>5, <1>7, <1>12, CorpusBuildAssumption
    <3> QED
      BY <1>5, <1>12, <2>5, <3>1, CorpusBuildAssumption
  <2>9. Backed(source.items, kept, cursor[1], launches[1] - 1)
    BY <1>7, <1>9
  <2>10. Backed(source.items, all, cursor[1], launches[1])
    <3>1. launches[1] - 1 \in Nat /\ (launches[1] - 1) + 1 = launches[1]
      BY <1>2
    <3>2. Backed(source.items, all, cursor[1], (launches[1] - 1) + 1)
      BY <1>2, <1>5, <1>14, <2>5, <2>6, <2>8, <2>9, <3>1, BackedBehind
    <3> QED
      BY <3>1, <3>2
  <2>11. /\ Resumed(part[1].lines)' = all /\ Lines(1)' = all
         /\ Interruptions(1)' = launches[1]
    <3>1. part'[1].lines = all
      BY <2>4 DEF all
    <3> QED
      BY <1>3, <2>4, <2>7, <3>1 DEF Resumed, Lines, Interruptions
  <2>12. part'[1].lines = all
    BY <2>4 DEF all
  <2>13. Pull(1)'
    <3>1. launches'[1] >= 1 /\ job'[1].phase \in Pulling
      BY <1>2, <1>3, <2>4 DEF Pulling
    <3>2. Backed(source'.items, Resumed(part[1].lines)', cursor'[1], Interruptions(1)')
      BY <1>3, <2>10, <2>11
    <3>3. cursor'[1] <= job'[1].at
          /\ Backed(source'.items, Lines(1)', job'[1].at, launches'[1] - 1)
      BY <1>3, <1>14, <2>4, <2>6, <2>11
    <3>4. Len(part'[1].lines) % Chunk = 0
      BY <2>5, <2>12
    <3> QED
      BY <2>4, <3>1, <3>2, <3>3, <3>4 DEF Pull
  <2> QED
    BY <1>2, <1>3, <1>12, <2>3, <2>4, <2>5, <2>12, <2>13, PullStep
<1>16. CASE ~boundary
  <2>1. /\ file = [there |-> TRUE, lines |-> kept]
        /\ record = [phase |-> "pull", at |-> i, buffer |-> lines]
    BY <1>10, <1>13, <1>16
  <2>2. file \in PartRecords /\ record \in JobRecords
    BY <1>5, <1>10, <2>1 DEF PartRecords, JobRecords, Phases
  <2>3. /\ part' \in [Pods -> PartRecords] /\ job' \in [Pods -> JobRecords]
        /\ part'[1] = file /\ job'[1] = record
    BY <1>2, <1>3, <2>2
  <2>4. /\ part'[1].lines = kept /\ part'[1].there = TRUE
        /\ job'[1].phase = "pull" /\ job'[1].at = i /\ job'[1].buffer = lines
    BY <2>1, <2>3
  <2>5. Len(lines) < Chunk /\ Len(kept \o lines) < source.target
    <3>1. CASE source.items[i] = 0
      BY <1>7, <1>10, <1>12, <3>1
    <3>2. CASE source.items[i] = 1
      <4>1. lines # buffer
        BY <1>5, <1>12, <3>2
      <4>2. total % Chunk # 0
        BY <1>16, <4>1
      <4>3. total # source.target
        BY <1>2, <4>2
      <4>4. Len(lines) # Chunk
        <5>1. (Len(kept) + Chunk) % Chunk = 0
          BY <1>5, <1>7, ChunkFull, CorpusBuildAssumption
        <5> QED
          BY <4>2, <5>1
      <4>5. Len(lines) <= Chunk
        BY <1>5, <1>7, <1>12, <3>2, CorpusBuildAssumption
      <4> QED
        <5>1. source.target \in Nat /\ Len(kept \o lines) = total
          BY <1>2, <1>10
        <5>2. total < source.target
          BY <1>12, <4>3, <5>1
        <5>3. Len(lines) < Chunk
          BY <1>12, <4>4, <4>5, CorpusBuildAssumption
        <5> QED
          BY <5>1, <5>2, <5>3
    <3> QED
      BY <1>5, <3>1, <3>2
  <2>6. /\ Resumed(part[1].lines)' = kept /\ Lines(1)' = kept \o lines
        /\ Interruptions(1)' = launches[1] - 1
    BY <1>3, <1>9, <2>4 DEF Resumed, Lines, Interruptions
  <2>7. Len(kept) <= source.target
    BY <1>2 DEF StreamPod, kept
  <2>8. Pull(1)'
    <3>1. launches'[1] >= 1 /\ job'[1].phase \in Pulling
      BY <1>2, <1>3, <2>4 DEF Pulling
    <3>2. Backed(source'.items, Resumed(part[1].lines)', cursor'[1], Interruptions(1)')
      BY <1>3, <1>7, <1>9, <2>6
    <3>3. cursor'[1] <= job'[1].at
          /\ Backed(source'.items, Lines(1)', job'[1].at, launches'[1] - 1)
      BY <1>3, <1>11, <1>14, <2>4, <2>6
    <3>4. Len(part'[1].lines) % Chunk = 0 /\ Len(job'[1].buffer) < Chunk
          /\ Len(Lines(1)') < source'.target
      BY <1>3, <1>7, <2>4, <2>5, <2>6
    <3> QED
      BY <2>4, <3>1, <3>2, <3>3, <3>4 DEF Pull
  <2> QED
    BY <1>2, <1>3, <2>3, <2>4, <2>7, <2>8, PullStep
<1> QED
  BY <1>15, <1>16

\* The last flush has nothing left to write: the rows hold enough texts, so
\* the target, a whole number of chunks, was met at a boundary.
LEMMA StreamLastFlush ==
    ASSUME Streaming, StreamInv, NEW p \in Pods, LastFlush(p)
    PROVE  StreamInv'
<1>1. job[p].phase \in {"tail", "pull"}
  BY DEF LastFlush
<1>2. /\ p = 1 /\ Pods = {1} /\ Pull(1) /\ StreamPod(1) /\ ~raw[1].there
      /\ job \in [Pods -> JobRecords] /\ part \in [Pods -> PartRecords]
      /\ cursor \in [Pods -> Nat] /\ launches[1] \in Nat \ {0}
      /\ job[1] = [phase |-> job[1].phase, at |-> job[1].at, buffer |-> job[1].buffer]
      /\ job[1].at \in Nat /\ job[1].buffer \in Seq(Texts)
      /\ part[1].lines \in Seq(Texts)
      /\ source.items \in Seq({0, 1}) /\ Len(source.items) \in Nat
      /\ source.target \in Nat
  BY <1>1, PullRunning DEF Pulling
<1>3. /\ part' = [part EXCEPT ![1] = Holding(part[1].lines \o job[1].buffer)]
      /\ job' = [job EXCEPT ![1].phase = "last", ![1].buffer = << >>]
      /\ UNCHANGED <<source, window, cursor, raw, launches, pulled>>
  BY <1>2 DEF LastFlush
<1> DEFINE items == source.items
           lines == part[1].lines
           all == Lines(1)
           at == job[1].at
           tries == launches[1] - 1
<1>4. job[1].phase = "tail"
  <2> SUFFICES ASSUME job[1].phase = "pull" PROVE FALSE
    BY <1>1, <1>2
  <2>1. at >= Len(items)
    BY <1>2 DEF LastFlush
  <2>2. Backed(items, all, at, tries) /\ Len(all) < source.target
    BY <1>2 DEF Pull
  <2>3. at = Len(items)
    BY <1>2, <2>1, <2>2 DEF Backed
  <2>4. all \in Seq(Texts) /\ items \in Seq({0, 1})
    BY <1>2 DEF Lines
  <2>5. source.target <= Cardinality(Usable(items, Len(items)))
    BY DEF Streaming, Fillable
  <2>6. Cardinality(Usable(items, Len(items))) \in Nat /\ Len(all) \in Nat
    BY <1>2, <2>4, UsableFacts
  <2> HIDE DEF items, all, at, tries
  <2>7. Backed(items, all, Len(items), tries)
    BY <2>2, <2>3
  <2>8. Cardinality(Usable(items, Len(items))) <= Len(all)
    BY <2>4, <2>7, BackedToTheEnd
  <2> QED
    BY <1>2, <2>2, <2>5, <2>6, <2>8
<1>5. /\ Len(lines) = source.target /\ job[1].buffer = << >>
      /\ Len(lines) % Chunk = 0 /\ lines \in Seq(Texts) /\ lines \o << >> = lines
      /\ cursor[1] <= at /\ Backed(items, Lines(1), at, tries)
      /\ Backed(items, Resumed(lines), cursor[1], tries)
  BY <1>2, <1>4 DEF Pull, StreamPod, Interruptions
<1> DEFINE record == [phase |-> "last", at |-> at, buffer |-> << >>]
           file == [there |-> TRUE, lines |-> lines]
<1>6. record \in JobRecords /\ file \in PartRecords
  BY <1>2 DEF JobRecords, PartRecords, Phases
<1>7. job' = [job EXCEPT ![1] = record] /\ part' = [part EXCEPT ![1] = file]
  <2>1. job' = [job EXCEPT ![1] = [[job[1] EXCEPT !.phase = "last"] EXCEPT !.buffer = << >>]]
    BY <1>2, <1>3
  <2>2. [[job[1] EXCEPT !.phase = "last"] EXCEPT !.buffer = << >>] = record
    <3> DEFINE mid == [job[1] EXCEPT !.phase = "last"]
    <3>1. mid = [phase |-> "last", at |-> at, buffer |-> job[1].buffer]
      BY <1>2
    <3> HIDE DEF mid
    <3>2. [mid EXCEPT !.buffer = << >>] = record
      BY <3>1
    <3> QED
      BY <3>2 DEF mid
  <2>3. Holding(part[1].lines \o job[1].buffer) = file
    BY <1>5 DEF Holding
  <2> QED
    BY <1>3, <2>1, <2>2, <2>3
<1> HIDE DEF record, file
<1>8. /\ job' \in [Pods -> JobRecords] /\ part' \in [Pods -> PartRecords]
      /\ job'[1] = record /\ part'[1] = file
  BY <1>2, <1>6, <1>7
<1>9. /\ job'[1].phase = "last" /\ job'[1].at = at /\ job'[1].buffer = << >>
      /\ part'[1].lines = lines /\ part'[1].there = TRUE
  BY <1>8 DEF record, file
<1>10. /\ Resumed(part[1].lines)' = Resumed(lines) /\ Lines(1)' = Lines(1)
       /\ Interruptions(1)' = tries
  BY <1>3, <1>5, <1>9 DEF Resumed, Lines, Interruptions
<1>11. Pull(1)'
  BY <1>2, <1>3, <1>5, <1>9, <1>10 DEF Pull, Pulling
<1> QED
  BY <1>2, <1>3, <1>5, <1>8, <1>9, <1>11, PullStep

\* The cursor reaches the lines that were flushed before it.
LEMMA StreamSave ==
    ASSUME Streaming, StreamInv, NEW p \in Pods, SaveCursor(p)
    PROVE  StreamInv'
<1>1. job[p].phase \in {"cursor", "last"}
  BY DEF SaveCursor
<1>2. /\ p = 1 /\ Pods = {1} /\ Pull(1) /\ StreamPod(1) /\ ~raw[1].there
      /\ job \in [Pods -> JobRecords] /\ part \in [Pods -> PartRecords]
      /\ cursor \in [Pods -> Nat] /\ launches[1] \in Nat \ {0}
      /\ job[1].at \in Nat /\ part[1].lines \in Seq(Texts)
      /\ source.target \in Nat \ {0} /\ Target(1) = source.target
  BY <1>1, PullRunning DEF Pulling
<1> DEFINE next == IF job[1].phase = "last" THEN "rename"
                   ELSE IF Written(1) >= Target(1) THEN "tail" ELSE "pull"
           lines == part[1].lines
           at == job[1].at
           tries == launches[1] - 1
<1>3. /\ cursor' = [cursor EXCEPT ![1] = at] /\ Goto(1, next)
      /\ UNCHANGED <<source, window, part, raw, launches, pulled>>
  BY <1>2 DEF SaveCursor
<1>4. /\ job[1].buffer = << >> /\ Len(lines) % Chunk = 0 /\ Len(lines) <= source.target
      /\ Len(lines) \in Nat /\ Backed(source.items, Lines(1), at, tries)
      /\ job[1].phase = "last" => Len(lines) = source.target
      /\ part[1].there \/ lines = << >>
  BY <1>1, <1>2 DEF Pull, StreamPod
<1>5. Lines(1) = lines /\ Resumed(lines) = lines /\ Written(1) = Len(lines)
  <2>1. lines \o << >> = lines /\ Resumed(lines) = lines
    BY <1>2, <1>4, ResumedWhole
  <2>2. Len(<< >>) = 0
    OBVIOUS
  <2> QED
    BY <1>4, <2>1, <2>2 DEF Lines, Written
<1>6. /\ next \in {"rename", "tail", "pull"} /\ next \in Phases /\ next \in Pulling
      /\ next \in {"rename", "tail"} => Len(lines) = source.target
      /\ next = "pull" => Len(lines) < source.target
  BY <1>2, <1>4, <1>5 DEF Phases, Pulling
<1>7. next \in {"rename", "tail"} => part[1].there
  <2>1. Len(lines) = source.target => lines # << >>
    BY <1>2
  <2> QED
    BY <1>4, <1>6, <2>1
<1> HIDE DEF next
<1>8. /\ job' \in [Pods -> JobRecords] /\ job'[1].phase = next
      /\ job'[1].at = at /\ job'[1].buffer = << >>
  BY <1>2, <1>3, <1>4, <1>6, GotoJob
<1>9. cursor' \in [Pods -> Nat] /\ cursor'[1] = at
  BY <1>2, <1>3
<1>10. /\ Resumed(part[1].lines)' = lines /\ Lines(1)' = lines /\ Interruptions(1)' = tries
  <2>1. lines \o << >> = lines
    BY <1>2
  <2> QED
    BY <1>3, <1>5, <1>6, <1>8, <2>1 DEF Resumed, Lines, Interruptions
<1>11. 0 < Chunk /\ Len(<< >>) = 0 /\ at <= at
  BY <1>2, CorpusBuildAssumption
<1>12. Pull(1)'
  BY <1>2, <1>3, <1>4, <1>5, <1>6, <1>7, <1>8, <1>9, <1>10, <1>11 DEF Pull
<1> QED
  BY <1>2, <1>3, <1>4, <1>8, <1>9, <1>12, PullStep

\* The raw file is the completed pull.
LEMMA StreamRename ==
    ASSUME Streaming, StreamInv, NEW p \in Pods, Rename(p)
    PROVE  StreamInv'
<1>1. job[p].phase = "rename"
  BY DEF Rename
<1>2. /\ p = 1 /\ Pods = {1} /\ Pull(1) /\ StreamPod(1) /\ ~raw[1].there
      /\ job \in [Pods -> JobRecords] /\ part \in [Pods -> PartRecords]
      /\ cursor \in [Pods -> Nat] /\ launches[1] \in Nat \ {0}
      /\ part[1].lines \in Seq(Texts) /\ source.target \in Nat
  BY <1>1, PullRunning DEF Pulling
<1>3. /\ raw' = [raw EXCEPT ![1] = part[1]] /\ part' = [part EXCEPT ![1] = Missing]
      /\ pulled' = [pulled EXCEPT ![1] = part[1].lines]
      /\ window' = [window EXCEPT ![1] = NoWindow] /\ Goto(1, "unlink")
      /\ UNCHANGED <<source, cursor, launches>>
  BY <1>2 DEF Rename
<1>4. StreamShape
  BY DEF StreamInv
<1>5. /\ Len(part[1].lines) = source.target /\ part[1].there /\ job[1].buffer = << >>
      /\ Len(part[1].lines) % Chunk = 0
      /\ Backed(source.items, Resumed(part[1].lines), cursor[1], launches[1] - 1)
  BY <1>1, <1>2 DEF Pull, StreamPod, Interruptions
<1>6. Resumed(part[1].lines) = part[1].lines
  BY <1>2, <1>5, ResumedWhole
<1>7. /\ job' \in [Pods -> JobRecords] /\ job'[1].phase = "unlink" /\ job'[1].buffer = << >>
  BY <1>2, <1>3, <1>5, GotoJob DEF Phases
<1>8. /\ Missing \in PartRecords /\ Missing.lines = << >> /\ NoWindow.inflight = {}
  BY DEF Missing, PartRecords, NoWindow
<1>9. /\ part' \in [Pods -> PartRecords] /\ part'[1].lines = << >>
      /\ pulled' \in [Pods -> Seq(Texts)] /\ pulled'[1] = part[1].lines
  BY <1>2, <1>3, <1>4, <1>8 DEF StreamShape
<1>10. /\ raw' = [q \in Pods |-> [there |-> raw'[q].there, lines |-> raw'[q].lines]]
       /\ raw'[1] = part[1] /\ raw'[1].there \in BOOLEAN /\ raw'[1].there
       /\ window' = [q \in Pods |-> window'[q]] /\ window'[1].inflight = {}
  <2>1. raw' = [q \in Pods |-> raw'[q]] /\ raw'[1] = part[1]
    BY <1>2, <1>3, <1>4 DEF StreamShape
  <2>2. part[1] = [there |-> part[1].there, lines |-> part[1].lines] /\ part[1].there \in BOOLEAN
    BY <1>2 DEF PartRecords
  <2>3. window' = [q \in Pods |-> window'[q]] /\ window'[1] = NoWindow
    BY <1>2, <1>3, <1>4 DEF StreamShape
  <2>4. raw'[1] = [there |-> raw'[1].there, lines |-> raw'[1].lines]
    BY <2>1, <2>2
  <2>5. \A q \in Pods : raw'[q] = [there |-> raw'[q].there, lines |-> raw'[q].lines]
    BY <1>2, <2>4
  <2>6. raw' = [q \in Pods |-> [there |-> raw'[q].there, lines |-> raw'[q].lines]]
    <3>1. [q \in Pods |-> raw'[q]] =
            [q \in Pods |-> [there |-> raw'[q].there, lines |-> raw'[q].lines]]
      BY <2>5, Zenon
    <3> QED
      BY <2>1, <3>1, Zenon
  <2> QED
    BY <1>5, <1>8, <2>1, <2>2, <2>3, <2>6
<1>11. Pods' = Pods
  BY <1>3 DEF Pods
<1>12. StreamShape'
  BY <1>2, <1>3, <1>4, <1>7, <1>9, <1>10, <1>11 DEF StreamShape, JobRecords, PartRecords
<1>13. Renamed(1)'
  <2>1. cursor[1] \in Nat
    BY <1>2
  <2> QED
    BY <1>2, <1>3, <1>5, <1>6, <1>9, <2>1 DEF Renamed
<1>14. StreamPod(1)'
  BY <1>2, <1>3, <1>7, <1>9, <1>10, <1>13 DEF StreamPod, Pulled
<1> QED
  BY <1>2, <1>11, <1>12, <1>14 DEF StreamInv

-----------------------------------------------------------------------------
(* The steps after the pull *)

LEMMA RawThere ==
    ASSUME Streaming, StreamInv, NEW p \in Pods,
           job[p].phase \in Pulled \ {"down", "done"}
    PROVE  /\ p = 1 /\ Pods = {1} /\ raw[1].there /\ job[1].buffer = << >>
           /\ job \in [Pods -> JobRecords] /\ cursor \in [Pods -> Nat]
           /\ raw = [q \in Pods |-> [there |-> raw[q].there, lines |-> raw[q].lines]]
           /\ window = [q \in Pods |-> window[q]] /\ window[1].inflight = {}
<1>1. p = 1 /\ Pods = {1}
  BY OnePod
<1>2. StreamShape /\ StreamPod(1)
  BY <1>1 DEF StreamInv
<1>3. raw[1].there
  <2>1. job[1].phase \notin Pulling /\ job[1].phase # "done"
    BY <1>1 DEF Pulled, Pulling
  <2>2. ~Pull(1)
    BY <2>1 DEF Pull
  <2> QED
    BY <1>1, <1>2, <2>1, <2>2 DEF StreamPod
<1>4. job[1].buffer = << >>
  BY <1>1, <1>2 DEF StreamPod, Pulled
<1> QED
  BY <1>1, <1>2, <1>3, <1>4 DEF StreamShape, JobRecords

\* A step that only moves the pod on.
LEMMA StreamMovesOn ==
    ASSUME Streaming, StreamInv, NEW p \in Pods,
           job[p].phase \in Pulled \ {"down", "done"},
           NEW phase \in Pulled, Goto(p, phase),
           UNCHANGED <<source, part, raw, window, launches, pulled>>,
           cursor' \in [Pods -> Nat]
    PROVE  StreamInv'
<1>1. /\ p = 1 /\ raw[1].there /\ job[1].buffer = << >> /\ job \in [Pods -> JobRecords]
      /\ raw = [q \in Pods |-> [there |-> raw[q].there, lines |-> raw[q].lines]]
      /\ window = [q \in Pods |-> window[q]] /\ window[1].inflight = {}
  BY RawThere
<1>2. phase \in Phases
  BY DEF Pulled, Phases
<1>3. /\ job' \in [Pods -> JobRecords] /\ job'[p].phase = phase /\ job'[p].buffer = << >>
  BY <1>1, <1>2, GotoJob
<1>4. raw[p].there \in BOOLEAN
  BY DEF StreamInv, StreamShape
<1> QED
  BY <1>1, <1>3, <1>4, AfterRenameStep

LEMMA StreamDropCursor ==
    ASSUME Streaming, StreamInv, NEW p \in Pods, DropCursor(p)
    PROVE  StreamInv'
<1>1. /\ job[p].phase \in Pulled \ {"down", "done"}
      /\ AfterRaw(p, marker[p]) \in Pulled /\ Goto(p, AfterRaw(p, marker[p]))
      /\ UNCHANGED <<source, part, raw, window, launches, pulled>>
      /\ cursor' = [cursor EXCEPT ![p] = 0]
  BY DEF DropCursor, AfterRaw, Pulled
<1>2. cursor' \in [Pods -> Nat]
  BY <1>1, RawThere
<1> QED
  BY <1>1, <1>2, StreamMovesOn

LEMMA StreamShuffle ==
    ASSUME Streaming, StreamInv, NEW p \in Pods, Shuffle(p)
    PROVE  StreamInv'
<1>1. /\ job[p].phase \in Pulled \ {"down", "done"} /\ Goto(p, "mark")
      /\ raw' = [raw EXCEPT ![p].lines = Shuffled(@)]
      /\ UNCHANGED <<source, part, window, cursor, launches, pulled>>
  BY DEF Shuffle, Pulled
<1>2. /\ p = 1 /\ Pods = {1} /\ raw[1].there /\ job[1].buffer = << >>
      /\ job \in [Pods -> JobRecords] /\ cursor \in [Pods -> Nat]
      /\ raw = [q \in Pods |-> [there |-> raw[q].there, lines |-> raw[q].lines]]
      /\ window = [q \in Pods |-> window[q]] /\ window[1].inflight = {}
  BY <1>1, RawThere
<1>3. /\ job' \in [Pods -> JobRecords] /\ job'[p].phase = "mark" /\ job'[p].buffer = << >>
      /\ "mark" \in Pulled
  BY <1>1, <1>2, GotoJob DEF Phases, Pulled
<1> DEFINE new == [there |-> raw[1].there, lines |-> Shuffled(raw[1].lines)]
<1>4. raw' = [raw EXCEPT ![1] = new]
  <2>1. raw' = [raw EXCEPT ![1] = [raw[1] EXCEPT !.lines = Shuffled(raw[1].lines)]]
    BY <1>1, <1>2
  <2>2. raw[1] = [there |-> raw[1].there, lines |-> raw[1].lines]
    BY <1>2
  <2>3. [raw[1] EXCEPT !.lines = Shuffled(raw[1].lines)] = new
    BY <2>2
  <2> QED
    BY <2>1, <2>3
<1>5. new = [there |-> new.there, lines |-> new.lines] /\ new.there = raw[1].there
  OBVIOUS
<1> HIDE DEF new
<1>6. /\ raw' = [q \in Pods |-> raw'[q]] /\ raw'[1] = new
  BY <1>2, <1>4
<1>7. /\ raw' = [q \in Pods |-> [there |-> raw'[q].there, lines |-> raw'[q].lines]]
      /\ raw'[p].there = raw[p].there
  <2>1. \A q \in Pods : raw'[q] = [there |-> raw'[q].there, lines |-> raw'[q].lines]
    BY <1>2, <1>5, <1>6
  <2>2. [q \in Pods |-> raw'[q]] =
            [q \in Pods |-> [there |-> raw'[q].there, lines |-> raw'[q].lines]]
    BY <2>1, Zenon
  <2>3. raw' = [q \in Pods |-> [there |-> raw'[q].there, lines |-> raw'[q].lines]]
    BY <1>6, <2>2, Zenon
  <2> QED
    BY <1>2, <1>5, <1>6, <2>3
<1>8. raw[p].there \in BOOLEAN
  BY DEF StreamInv, StreamShape
<1> QED
  BY <1>1, <1>2, <1>3, <1>7, <1>8, AfterRenameStep

LEMMA StreamCleanUp ==
    ASSUME Streaming, StreamInv, NEW p \in Pods, CleanUp(p)
    PROVE  StreamInv'
<1>1. /\ job[p].phase \in Pulled \ {"down", "done"} /\ Goto(p, "done")
      /\ raw' = [raw EXCEPT ![p] = IF source.deleteRaw THEN Missing ELSE raw[p]]
      /\ UNCHANGED <<source, part, window, cursor, launches, pulled>>
  BY DEF CleanUp, Pulled
<1>2. /\ p = 1 /\ Pods = {1} /\ raw[1].there /\ job[1].buffer = << >>
      /\ job \in [Pods -> JobRecords] /\ cursor \in [Pods -> Nat]
      /\ raw = [q \in Pods |-> [there |-> raw[q].there, lines |-> raw[q].lines]]
      /\ window = [q \in Pods |-> window[q]] /\ window[1].inflight = {}
  BY <1>1, RawThere
<1>3. /\ job' \in [Pods -> JobRecords] /\ job'[p].phase = "done" /\ job'[p].buffer = << >>
      /\ "done" \in Pulled
  BY <1>1, <1>2, GotoJob DEF Phases, Pulled
<1> DEFINE new == IF source.deleteRaw THEN Missing ELSE raw[1]
<1>4. new = [there |-> new.there, lines |-> new.lines] /\ new.there \in BOOLEAN
  <2>1. raw[1] = [there |-> raw[1].there, lines |-> raw[1].lines]
    BY <1>2
  <2>2. raw[1].there \in BOOLEAN
    BY <1>2 DEF StreamInv, StreamShape
  <2> QED
    BY <2>1, <2>2 DEF Missing
<1>5. raw' = [raw EXCEPT ![1] = new]
  BY <1>1, <1>2
<1> HIDE DEF new
<1>6. raw' = [q \in Pods |-> raw'[q]] /\ raw'[1] = new
  BY <1>2, <1>5
<1>7. raw' = [q \in Pods |-> [there |-> raw'[q].there, lines |-> raw'[q].lines]]
  <2>1. \A q \in Pods : raw'[q] = [there |-> raw'[q].there, lines |-> raw'[q].lines]
    BY <1>2, <1>4, <1>6
  <2>2. [q \in Pods |-> raw'[q]] =
            [q \in Pods |-> [there |-> raw'[q].there, lines |-> raw'[q].lines]]
    BY <2>1, Zenon
  <2> QED
    BY <1>6, <2>2, Zenon
<1>8. raw'[p].there \in BOOLEAN
  BY <1>2, <1>4, <1>6
<1> QED
  BY <1>1, <1>2, <1>3, <1>7, <1>8, AfterRenameStep

LEMMA StreamJoin ==
    ASSUME Streaming, StreamInv, NEW p \in Pods, Join(p)
    PROVE  StreamInv'
<1> DEFINE failed == \E k \in Workers : sharder[p][k] = "failed"
           next == IF source.workers > 1 THEN "merge" ELSE "cleanup"
<1>1. /\ job[p].phase \in Pulled \ {"down", "done"}
      /\ job' = [job EXCEPT ![p] = IF failed THEN Idle ELSE [job[p] EXCEPT !.phase = next]]
      /\ UNCHANGED <<source, part, raw, window, cursor, launches, pulled>>
  BY DEF Join, Pulled, durable
<1>2. /\ p = 1 /\ raw[1].there /\ job[1].buffer = << >> /\ job \in [Pods -> JobRecords]
      /\ cursor \in [Pods -> Nat]
      /\ raw = [q \in Pods |-> [there |-> raw[q].there, lines |-> raw[q].lines]]
      /\ window = [q \in Pods |-> window[q]] /\ window[1].inflight = {}
  BY <1>1, RawThere
<1>3. CASE failed
  <2>1. Idle \in JobRecords /\ Idle.phase = "down" /\ Idle.buffer = << >> /\ "down" \in Pulled
    BY DEF Idle, JobRecords, Phases, Pulled
  <2>2. job' = [job EXCEPT ![p] = Idle]
    BY <1>1, <1>3
  <2>3. job' \in [Pods -> JobRecords] /\ job'[p].phase = "down" /\ job'[p].buffer = << >>
    BY <1>2, <2>1, <2>2
  <2>4. raw'[p].there \in BOOLEAN /\ raw'[p].there
    BY <1>1, <1>2 DEF StreamInv, StreamShape
  <2>5. job'[p].phase \in Pulled
    BY <2>1, <2>3
  <2>6. /\ raw' = [q \in Pods |-> [there |-> raw'[q].there, lines |-> raw'[q].lines]]
        /\ window' = [q \in Pods |-> window'[q]] /\ window'[p].inflight = {}
        /\ cursor' \in [Pods -> Nat] /\ raw[p].there
    BY <1>1, <1>2
  <2> QED
    BY <1>1, <2>3, <2>4, <2>5, <2>6, AfterRenameStep
<1>4. CASE ~failed
  <2>1. next \in Pulled
    BY DEF Pulled
  <2>2. Goto(p, next)
    BY <1>1, <1>4 DEF Goto
  <2> HIDE DEF next
  <2> QED
    BY <1>1, <1>2, <2>1, <2>2, StreamMovesOn
<1> QED
  BY <1>3, <1>4

-----------------------------------------------------------------------------
(* Every step *)

LEMMA StreamPodStep ==
    ASSUME Streaming, StreamInv, NEW p \in Pods, PodStep(p)
    PROVE  StreamInv'
<1>0. ~Windowed /\ source.puller # "listing"
  BY DEF Streaming, Windowed
<1>1. CASE OpenPart(p)
  BY <1>1, StreamOpen
<1>2. CASE ReadRow(p)
  BY <1>2, StreamRead
<1>3. CASE LastFlush(p)
  BY <1>3, StreamLastFlush
<1>4. CASE SaveCursor(p)
  BY <1>4, StreamSave
<1>5. ~(ReadFile(p) \/ EndListing(p))
  BY <1>0 DEF ReadFile, EndListing
<1>6. ~(Submit(p) \/ Harvest(p) \/ EndSubmitting(p) \/ HarvestTail(p))
  BY <1>0 DEF Submit, Harvest, EndSubmitting, HarvestTail
<1>7. CASE Rename(p)
  BY <1>7, StreamRename
<1>8. CASE DropCursor(p)
  BY <1>8, StreamDropCursor
<1>9. CASE Shuffle(p)
  BY <1>9, StreamShuffle
<1>10. CASE MarkShuffled(p) \/ StartSharding(p) \/ Merge(p) \/ Seal(p)
  <2>1. PICK phase \in Pulled : Goto(p, phase)
    BY <1>10 DEF MarkShuffled, StartSharding, Merge, Seal, Pulled
  <2>2. job[p].phase \in Pulled \ {"down", "done"}
    BY <1>10 DEF MarkShuffled, StartSharding, Merge, Seal, Pulled
  <2>3. UNCHANGED <<source, part, raw, window, cursor, launches, pulled>>
    BY <1>10 DEF MarkShuffled, StartSharding, Merge, Seal, durable
  <2>4. cursor' \in [Pods -> Nat]
    BY <2>3 DEF StreamInv, StreamShape
  <2> QED
    BY <2>1, <2>2, <2>3, <2>4, StreamMovesOn
<1>11. CASE Join(p)
  BY <1>11, StreamJoin
<1>12. CASE CleanUp(p)
  BY <1>12, StreamCleanUp
<1> QED
  BY <1>1, <1>2, <1>3, <1>4, <1>5, <1>6, <1>7, <1>8, <1>9, <1>10, <1>11, <1>12 DEF PodStep

\* A build is of one source from start to end.
LEMMA SourceKept ==
    ASSUME [Next]_vars
    PROVE  source' = source
<1>1. CASE UNCHANGED vars
  BY <1>1 DEF vars
<1>2. ASSUME NEW p \in Pods, PodStep(p) PROVE source' = source
  BY <1>2 DEF PodStep, OpenPart, ReadRow, LastFlush, SaveCursor, ReadFile, EndListing,
              Submit, Harvest, EndSubmitting, HarvestTail, Rename, DropCursor, Shuffle,
              MarkShuffled, StartSharding, Join, Merge, Seal, CleanUp
<1>3. ASSUME NEW p \in Pods, Launch(p) \/ Die(p) \/ FetchStep(p) \/ SharderStep(p)
                              \/ \E k \in Workers : FailWorker(p, k)
      PROVE  source' = source
  BY <1>3 DEF Launch, Die, FetchStep, Land, SharderStep, BeginList, EndList, FailWorker
<1>4. CASE MergeManifests
  BY <1>4 DEF MergeManifests
<1> QED
  BY <1>1, <1>2, <1>3, <1>4 DEF Next

LEMMA StreamNext ==
    ASSUME Streaming, StreamInv, [Next]_vars
    PROVE  Streaming' /\ StreamInv'
<1>1. CASE UNCHANGED vars
  <2>1. UNCHANGED <<source, job, window, part, cursor, raw, launches, pulled>>
    BY <1>1 DEF vars, durable
  <2> QED
    BY <2>1, StreamFrame DEF Streaming
<1>2. ASSUME NEW p \in Pods, Launch(p) PROVE Streaming' /\ StreamInv'
  BY <1>2, StreamLaunch DEF Launch, Streaming
<1>3. ASSUME NEW p \in Pods, Die(p) PROVE Streaming' /\ StreamInv'
  BY <1>3, StreamDie DEF Die, Streaming
<1>4. ASSUME NEW p \in Pods, PodStep(p) PROVE Streaming' /\ StreamInv'
  <2>1. UNCHANGED source
    BY SourceKept
  <2> QED
    BY <1>4, <2>1, StreamPodStep DEF Streaming
<1>5. ASSUME NEW p \in Pods PROVE ~FetchStep(p)
  <2>1. window[p].inflight = {}
    BY DEF StreamInv, StreamShape
  <2> QED
    BY <2>1 DEF FetchStep
<1>6. ASSUME NEW p \in Pods, SharderStep(p) \/ \E k \in Workers : FailWorker(p, k)
      PROVE  Streaming' /\ StreamInv'
  <2>1. UNCHANGED <<source, job, window, part, cursor, raw, launches, pulled>>
    BY <1>6 DEF SharderStep, BeginList, EndList, FailWorker, durable
  <2> QED
    BY <2>1, StreamFrame DEF Streaming
<1>7. ASSUME MergeManifests PROVE Streaming' /\ StreamInv'
  <2>1. UNCHANGED <<source, job, window, part, cursor, raw, launches, pulled>>
    BY <1>7 DEF MergeManifests
  <2> QED
    BY <2>1, StreamFrame DEF Streaming
<1> QED
  BY <1>1, <1>2, <1>3, <1>4, <1>5, <1>6, <1>7 DEF Next

\* A stream is pulled as its invariant says; a source of another kind stays one.
LEMMA StreamAlways ==
    ASSUME StreamsFill
    PROVE  Spec => [](source.puller = "stream" => Streaming /\ StreamInv)
<1> DEFINE I == source \in Sources /\ (source.puller = "stream" => Streaming /\ StreamInv)
<1>1. Init => I
  <2> SUFFICES ASSUME Init PROVE I
    OBVIOUS
  <2>1. source \in Sources
    BY DEF Init
  <2>2. ASSUME source.puller = "stream" PROVE Streaming
    BY <2>1, <2>2 DEF Streaming, StreamsFill
  <2> QED
    BY <2>1, <2>2, StreamInit
<1>2. I /\ [Next]_vars => I'
  <2> SUFFICES ASSUME I, [Next]_vars PROVE I'
    OBVIOUS
  <2>1. UNCHANGED source
    BY SourceKept
  <2> QED
    BY <2>1, StreamNext
<1> QED
  BY <1>1, <1>2, PTL DEF Spec

-----------------------------------------------------------------------------
(* What a resumable pull promises *)

\* The completed pull of a stream, as its invariant knows it.
LEMMA CompletedPull ==
    ASSUME Streaming, StreamInv, NEW p \in Pods, raw[p].there \/ pulled[p] # << >>
    PROVE  /\ pulled[p] \in Seq(Texts) /\ Len(pulled[p]) = Target(p)
           /\ Len(pulled[p]) - Cardinality(ToSet(pulled[p])) <= Chunk * (launches[p] - 1)
           /\ \E m \in 0 .. Len(source.items) :
                    ToSet(pulled[p]) = TextsUpTo(source.items, m)
<1>1. Pods = {1} /\ p = 1 /\ Target(1) = source.target /\ source.items \in Seq({0, 1})
  BY OnePod DEF Streaming, Fillable
<1>2. StreamPod(1) /\ pulled[1] \in Seq(Texts) /\ launches[1] \in Nat
  BY <1>1 DEF StreamInv, StreamShape
<1>3. Len(pulled[1]) = source.target /\ launches[1] >= 1
  BY <1>1, <1>2 DEF StreamPod, Renamed
<1>4. PICK at \in Nat : Backed(source.items, pulled[1], at, launches[1] - 1)
  BY <1>1, <1>2 DEF StreamPod, Renamed
<1>5. launches[1] - 1 \in Nat
  BY <1>2, <1>3
<1>6. /\ Len(pulled[1]) - Cardinality(ToSet(pulled[1])) <= Chunk * (launches[1] - 1)
      /\ \E m \in 0 .. Len(source.items) :
                ToSet(pulled[1]) = TextsUpTo(source.items, m)
  BY <1>1, <1>2, <1>4, <1>5, BackedLines
<1> QED
  BY <1>1, <1>2, <1>3, <1>6

\* "so .part and .scanned stay mutually consistent" (_RESUME_CHUNK): whatever
\* the crashes, the raw file of a stream skips no usable row before its last
\* one, for every upstream that can fill a target of whole chunks.
THEOREM NothingSkippedOverAlways ==
    ASSUME StreamsFill
    PROVE  Spec => []NothingSkippedOver
<1>1. (source.puller = "stream" => Streaming /\ StreamInv) => NothingSkippedOver
  <2> SUFFICES ASSUME source.puller = "stream", Streaming, StreamInv,
                      NEW p \in Pods, raw[p].there
               PROVE  LET usable == {i \in DOMAIN source.items : source.items[i] > 0} IN
                      /\ \A i \in usable, j \in RowsOf(p) : i <= j => i \in RowsOf(p)
                      /\ Len(pulled[p]) < Target(p) => RowsOf(p) = usable
    BY DEF NothingSkippedOver
  <2> DEFINE items == source.items
             usable == {i \in DOMAIN items : items[i] > 0}
  <2>1. PICK m \in 0 .. Len(items) : ToSet(pulled[p]) = TextsUpTo(items, m)
    BY CompletedPull
  <2>2. items \in Seq({0, 1}) /\ DOMAIN items = 1 .. Len(items) /\ Len(items) \in Nat
    BY DEF Streaming, Fillable
  <2>3. RowsOf(p) = Usable(items, m)
    <3>1. RowsOf(p) = {d[1] : d \in TextsUpTo(items, m)}
      BY <2>1 DEF RowsOf
    <3>2. {d[1] : d \in TextsUpTo(items, m)} = Usable(items, m)
      <4>1. \A d \in TextsUpTo(items, m) : d[1] \in Usable(items, m)
        BY DEF TextsUpTo
      <4>2. \A i \in Usable(items, m) : \E d \in TextsUpTo(items, m) : d[1] = i
        <5> SUFFICES ASSUME NEW i \in Usable(items, m)
                     PROVE  \E d \in TextsUpTo(items, m) : d[1] = i
          OBVIOUS
        <5> DEFINE text == <<i, 1>>
        <5>1. text \in TextsUpTo(items, m)
          BY DEF TextsUpTo
        <5>2. text[1] = i
          OBVIOUS
        <5> HIDE DEF text
        <5> QED
          BY <5>1, <5>2
      <4> QED
        BY <4>1, <4>2
    <3> QED
      BY <3>1, <3>2
  <2>4. \A i \in usable, j \in RowsOf(p) : i <= j => i \in RowsOf(p)
    BY <2>1, <2>2, <2>3 DEF Usable
  <2>5. Len(pulled[p]) = Target(p) /\ Len(pulled[p]) \in Nat
    BY CompletedPull
  <2> QED
    BY <2>4, <2>5
<1> QED
  BY <1>1, StreamAlways, PTL

\* "capped at sub-percent duplicates on resume" (_RESUME_CHUNK): every
\* interruption of a stream repeats at most one chunk of rows.
THEOREM DuplicatesBoundedOfStreams ==
    ASSUME StreamsFill, \A s \in Sources : s.puller = "stream"
    PROVE  Spec => []DuplicatesBounded
<1>1. Spec => [](source \in Sources)
  <2>1. Init => source \in Sources
    BY DEF Init
  <2>2. source \in Sources /\ [Next]_vars => (source \in Sources)'
    BY SourceKept
  <2> QED
    BY <2>1, <2>2, PTL DEF Spec
<1>2. source \in Sources /\ (source.puller = "stream" => Streaming /\ StreamInv)
            => DuplicatesBounded
  <2> SUFFICES ASSUME source.puller = "stream", Streaming, StreamInv,
                      NEW p \in Pods, pulled[p] # << >>
               PROVE  Len(pulled[p]) - Cardinality(ToSet(pulled[p]))
                        <= Chunk * (launches[p] - 1)
    BY DEF DuplicatesBounded
  <2> QED
    BY CompletedPull
<1> QED
  BY <1>1, <1>2, StreamAlways, PTL

-----------------------------------------------------------------------------
(* The byte ranges of the tokenising workers *)

\* Floor division by a positive divisor, as the two inequalities it satisfies.
LEMMA FloorBounds ==
    ASSUME NEW a \in Nat, NEW n \in Nat \ {0}
    PROVE  /\ a \div n \in Nat
           /\ n * (a \div n) <= a
           /\ a < n * ((a \div n) + 1)
  BY Z3

\* A floor is at most s exactly when the dividend is below the next multiple.
LEMMA FloorAtMost ==
    ASSUME NEW a \in Nat, NEW n \in Nat \ {0}, NEW s \in Nat
    PROVE  a \div n <= s <=> a < n * (s + 1)
<1> DEFINE q == a \div n
<1>1. q \in Nat /\ n * q <= a /\ a < n * (q + 1)
  BY FloorBounds
<1> HIDE DEF q
<1>2. ASSUME q <= s PROVE a < n * (s + 1)
  <2>1. n * (q + 1) <= n * (s + 1)
    BY <1>1, <1>2, ProductMonotone
  <2> QED
    BY <1>1, <2>1, Z3
<1>3. ASSUME a < n * (s + 1) PROVE q <= s
  <2>1. CASE s + 1 <= q
    <3>1. n * (s + 1) <= n * q
      BY <1>1, <2>1, ProductMonotone
    <3> QED
      BY <1>1, <1>3, <3>1, Z3
  <2> QED
    BY <1>1, <2>1
<1> QED
  BY <1>1, <1>2, <1>3 DEF q

\* Worker k owns a line exactly when the line's number of bytes, scaled, lies
\* in the k-th of equal intervals.
LEMMA OwnedInterval ==
    ASSUME NEW size \in Nat, NEW workers \in Nat \ {0}, NEW k \in Nat,
           NEW starts \in SUBSET (0 .. size - 1), NEW s \in starts
    PROVE  s \in LinesOwned(starts, size, k, workers) <=>
             /\ size * k < workers * (s + 1)
             /\ workers * (s + 1) <= size * (k + 1)
<1>1. s \in Nat /\ size * k \in Nat /\ size * (k + 1) \in Nat
  BY Z3
<1>2. SegmentStart(size, k, workers) <= s <=> size * k < workers * (s + 1)
  BY <1>1, FloorAtMost DEF SegmentStart
<1>3. SegmentEnd(size, k, workers) <= s <=> size * (k + 1) < workers * (s + 1)
  BY <1>1, FloorAtMost DEF SegmentEnd
<1>4. SegmentStart(size, k, workers) \in Nat /\ SegmentEnd(size, k, workers) \in Nat
  BY <1>1, FloorBounds DEF SegmentStart, SegmentEnd
<1>5. s \in LinesOwned(starts, size, k, workers) <=>
        SegmentStart(size, k, workers) <= s /\ s < SegmentEnd(size, k, workers)
  <2> HIDE DEF SegmentStart, SegmentEnd
  <2>1. s = SegmentStart(size, k, workers) =>
            StartsFresh(starts, SegmentStart(size, k, workers))
    BY DEF StartsFresh
  <2> QED
    BY <1>1, <1>4, <2>1 DEF LinesOwned
<1>6. workers * (s + 1) \in Nat
  BY <1>1, Z3
<1> QED
  BY <1>1, <1>2, <1>3, <1>4, <1>5, <1>6

\* "So every line is emitted exactly once across the N workers"
\* (iter_text_from_jsonl_segment), for every file and number of workers.
THEOREM EveryLineOwnedOnce ==
    ASSUME NEW size \in Nat, NEW workers \in Nat \ {0},
           NEW starts \in SUBSET (0 .. size - 1), NEW s \in starts
    PROVE  \E k \in 0 .. workers - 1 :
             /\ s \in LinesOwned(starts, size, k, workers)
             /\ \A m \in 0 .. workers - 1 :
                    s \in LinesOwned(starts, size, m, workers) => m = k
<1> DEFINE scaled == workers * (s + 1)
           k == (scaled - 1) \div size
<1>1. s \in Nat /\ s + 1 <= size /\ size \in Nat \ {0}
  OBVIOUS
<1>2. scaled \in Nat /\ scaled >= 1 /\ scaled <= workers * size
  <2>1. workers * 1 <= workers * (s + 1) /\ workers * (s + 1) <= workers * size
    BY <1>1, ProductMonotone
  <2> QED
    BY <1>1, <2>1
<1>3. k \in Nat /\ size * k <= scaled - 1 /\ scaled - 1 < size * (k + 1)
  BY <1>1, <1>2, FloorBounds
<1> HIDE DEF k, scaled
<1>4. k < workers
  <2>1. CASE workers <= k
    <3>1. size * workers <= size * k
      BY <1>1, <1>3, <2>1, ProductMonotone
    <3>2. size * workers = workers * size
      BY <1>1, Z3
    <3>3. size * workers \in Nat /\ size * k \in Nat
      BY <1>1, <1>3, Z3
    <3> QED
      BY <1>2, <1>3, <3>1, <3>2, <3>3
  <2> QED
    BY <1>3, <2>1
<1>5. s \in LinesOwned(starts, size, k, workers)
  <2>1. size * k \in Nat /\ size * (k + 1) \in Nat
    BY <1>1, <1>3, Z3
  <2>2. size * k < scaled /\ scaled <= size * (k + 1)
    BY <1>2, <1>3, <2>1
  <2> QED
    BY <1>3, <2>2, OwnedInterval DEF scaled
<1>6. ASSUME NEW m \in 0 .. workers - 1, s \in LinesOwned(starts, size, m, workers)
      PROVE  m = k
  <2>1. m \in Nat /\ size * m < scaled /\ scaled <= size * (m + 1)
    BY <1>6, OwnedInterval DEF scaled
  <2>2. size * m \in Nat /\ size * (m + 1) \in Nat /\ size * k \in Nat /\ size * (k + 1) \in Nat
    BY <1>1, <1>3, <2>1, Z3
  <2>3. CASE m < k
    <3>1. size * (m + 1) <= size * k
      BY <1>1, <1>3, <2>1, <2>3, ProductMonotone
    <3> QED
      BY <1>2, <1>3, <2>1, <2>2, <3>1
  <2>4. CASE k < m
    <3>1. size * (k + 1) <= size * m
      BY <1>1, <1>3, <2>1, <2>4, ProductMonotone
    <3> QED
      BY <1>2, <1>3, <2>1, <2>2, <3>1
  <2> QED
    BY <1>3, <2>1, <2>3, <2>4
<1> QED
  BY <1>3, <1>4, <1>5, <1>6

-----------------------------------------------------------------------------
(* Sequences end to end *)

\* Every non-empty set of naturals has a least member.
LEMMA LeastNat ==
    ASSUME NEW T \in SUBSET Nat, T # {}
    PROVE  \E m \in T : \A k \in T : m <= k
<1> DEFINE R == OpToRel(<, Nat)
<1>1. IsWellFoundedOn(R, Nat)
    BY NatLessThanWellFounded
<1>2. \A x, y \in Nat : y < x => <<y, x>> \in R
    BY DEF OpToRel
<1> HIDE DEF R
<1>3. \E x \in T : \A y \in T : ~(<<y, x>> \in R)
    BY <1>1, WFMin, Zenon
<1>4. PICK m \in T : \A y \in T : ~(<<y, m>> \in R)
    BY <1>3
<1>5. \A k \in T : ~(k < m)
    BY <1>2, <1>4
<1> QED BY <1>4, <1>5

\* f[i] is the concatenation of the first i of seqs.
Joins(f, seqs, D) ==
    /\ f \in [0 .. Len(seqs) -> Seq(D)]
    /\ f[0] = << >>
    /\ \A i \in 1 .. Len(seqs) : f[i] = f[i - 1] \o seqs[i]

LEMMA JoinsExist ==
    ASSUME NEW D, NEW seqs \in Seq(Seq(D))
    PROVE  \E f : Joins(f, seqs, D)
<1> DEFINE P(n) == \E f \in [0 .. n -> Seq(D)] :
                        /\ f[0] = << >>
                        /\ \A i \in 1 .. n : f[i] = f[i - 1] \o seqs[i]
           bad == {n \in 0 .. Len(seqs) : ~P(n)}
<1>0. Len(seqs) \in Nat
  OBVIOUS
<1>1. P(0)
  <2> DEFINE f == [i \in 0 .. 0 |-> << >>]
  <2>1. f \in [0 .. 0 -> Seq(D)] /\ f[0] = << >> /\ \A i \in 1 .. 0 : f[i] = f[i - 1] \o seqs[i]
    OBVIOUS
  <2> QED
    BY <2>1
<1>2. ASSUME NEW n \in 0 .. Len(seqs) - 1, P(n) PROVE P(n + 1)
  <2>1. PICK f \in [0 .. n -> Seq(D)] :
            /\ f[0] = << >>
            /\ \A i \in 1 .. n : f[i] = f[i - 1] \o seqs[i]
    BY <1>2
  <2>2. seqs[n + 1] \in Seq(D) /\ n \in Nat /\ f[n] \in Seq(D)
    BY <1>0
  <2> DEFINE last == f[n] \o seqs[n + 1]
             g == [i \in 0 .. n + 1 |-> IF i = n + 1 THEN last ELSE f[i]]
  <2>3. last \in Seq(D)
    BY <2>2
  <2> HIDE DEF last
  <2>4. g \in [0 .. n + 1 -> Seq(D)] /\ g[n + 1] = last /\ \A i \in 0 .. n : g[i] = f[i]
    BY <2>2, <2>3
  <2> HIDE DEF g
  <2>5. g[0] = << >>
    BY <2>1, <2>2, <2>4
  <2>6. ASSUME NEW i \in 1 .. n + 1 PROVE g[i] = g[i - 1] \o seqs[i]
    <3>1. CASE i = n + 1
      <4>1. i - 1 = n /\ n \in 0 .. n
        BY <2>2, <3>1
      <4>2. g[i] = last /\ g[i - 1] = f[n]
        BY <2>4, <3>1, <4>1
      <4> QED
        BY <3>1, <4>2 DEF last
    <3>2. CASE i # n + 1
      <4>1. i \in 1 .. n /\ i - 1 \in 0 .. n /\ i \in 0 .. n
        BY <2>2, <3>2
      <4> QED
        BY <2>1, <2>4, <4>1
    <3> QED
      BY <3>1, <3>2
  <2> QED
    BY <2>4, <2>5, <2>6
<1> HIDE DEF P, bad
<1>3. bad = {}
  <2> SUFFICES ASSUME bad # {} PROVE FALSE
    OBVIOUS
  <2>0. bad \in SUBSET Nat /\ \A k : k \in bad <=> k \in 0 .. Len(seqs) /\ ~P(k)
    BY <1>0 DEF bad
  <2> HIDE DEF bad
  <2>1. PICK m \in bad : \A k \in bad : m <= k
    BY <2>0, LeastNat
  <2>2. m # 0 /\ m \in 0 .. Len(seqs)
    BY <1>1, <2>0
  <2>3. m - 1 \in 0 .. Len(seqs) - 1 /\ m - 1 \in 0 .. Len(seqs)
    BY <1>0, <2>2
  <2>4. P(m - 1)
    <3>1. m - 1 \notin bad
      BY <1>0, <2>1, <2>2
    <3> QED
      BY <2>0, <2>3, <3>1
  <2>5. P((m - 1) + 1)
    BY <1>2, <2>3, <2>4
  <2>6. (m - 1) + 1 = m
    BY <2>2
  <2>7. P(m)
    BY <2>5, <2>6
  <2> QED
    BY <2>0, <2>7
<1>4. P(Len(seqs))
  BY <1>0, <1>3 DEF bad
<1> QED
  BY <1>4 DEF P, Joins

\* FlattenSeq is the last of the concatenations.
LEMMA FlattenIsJoined ==
    ASSUME NEW D, NEW seqs \in Seq(Seq(D)), NEW f, Joins(f, seqs, D)
    PROVE  FlattenSeq(seqs) = f[Len(seqs)]
<1> DEFINE n == Len(seqs)
           Eq(h) == h = [i \in 1 .. n |-> IF i = 1 THEN seqs[i] ELSE h[i - 1] \o seqs[i]]
           g == CHOOSE h : Eq(h)
<1>1. /\ n \in Nat /\ f[0] = << >>
      /\ \A i \in 0 .. n : f[i] \in Seq(D)
      /\ \A i \in 1 .. n : f[i] = f[i - 1] \o seqs[i] /\ seqs[i] \in Seq(D)
  <2>1. n \in Nat /\ \A i \in 1 .. n : seqs[i] \in Seq(D)
    OBVIOUS
  <2>2. f \in [0 .. n -> Seq(D)] /\ f[0] = << >> /\ \A i \in 1 .. n : f[i] = f[i - 1] \o seqs[i]
    BY DEF Joins
  <2> HIDE DEF n
  <2> QED
    BY <2>1, <2>2
<1>2. CASE n = 0
  <2>1. seqs = << >>
    BY <1>2
  <2> QED
    BY <1>1, <1>2, <2>1 DEF FlattenSeq
<1>3. CASE n # 0
  <2>1. FlattenSeq(seqs) = g[n]
    BY <1>3 DEF FlattenSeq
  <2> DEFINE h == [i \in 1 .. n |-> f[i]]
  <2>2. Eq(h)
    <3>1. ASSUME NEW i \in 1 .. n
          PROVE  h[i] = IF i = 1 THEN seqs[i] ELSE h[i - 1] \o seqs[i]
      <4>1. CASE i = 1
        <5>1. f[1] = f[1 - 1] \o seqs[1] /\ seqs[1] \in Seq(D)
          BY <1>1, <4>1
        <5>2. f[1 - 1] = << >>
          BY <1>1
        <5>3. << >> \o seqs[1] = seqs[1]
          BY <5>1
        <5>4. f[1] = seqs[1]
          BY <5>1, <5>2, <5>3
        <5> QED
          BY <4>1, <5>4
      <4>2. CASE i # 1
        <5>1. i - 1 \in 1 .. n
          BY <1>1, <4>2
        <5> QED
          BY <1>1, <4>2, <5>1
      <4> QED
        BY <4>1, <4>2
    <3> QED
      BY <3>1
  <2>3. Eq(g)
    BY <2>2
  <2> HIDE DEF g
  <2> DEFINE bad == {i \in 1 .. n : g[i] # f[i]}
  <2>4. bad = {}
    <3> SUFFICES ASSUME bad # {} PROVE FALSE
      OBVIOUS
    <3>1. bad \in SUBSET Nat /\ \A i : i \in bad <=> i \in 1 .. n /\ g[i] # f[i]
      BY <1>1
    <3> HIDE DEF bad
    <3>2. PICK m \in bad : \A k \in bad : m <= k
      BY <3>1, LeastNat
    <3>3. m \in 1 .. n /\ g[m] # f[m]
      BY <3>1
    <3>4. g[m] = IF m = 1 THEN seqs[m] ELSE g[m - 1] \o seqs[m]
      BY <2>3, <3>3
    <3>5. f[m] = f[m - 1] \o seqs[m] /\ seqs[m] \in Seq(D)
      BY <1>1, <3>3
    <3>6. CASE m = 1
      <4>1. f[m - 1] = << >>
        BY <1>1, <3>6
      <4>2. << >> \o seqs[m] = seqs[m]
        BY <3>5
      <4>3. f[m] = seqs[m]
        BY <3>5, <4>1, <4>2
      <4> QED
        BY <3>3, <3>4, <3>6, <4>3
    <3>7. CASE m # 1
      <4>1. m - 1 \in 1 .. n /\ m - 1 \notin bad
        BY <1>1, <3>2, <3>3, <3>7
      <4>2. g[m - 1] = f[m - 1]
        BY <3>1, <4>1
      <4> QED
        BY <3>3, <3>4, <3>5, <3>7, <4>2
    <3> QED
      BY <3>6, <3>7
  <2>5. n \in 1 .. n
    BY <1>1, <1>3
  <2> QED
    BY <2>1, <2>4, <2>5
<1> QED
  BY <1>2, <1>3

LEMMA FlattenType ==
    ASSUME NEW D, NEW seqs \in Seq(Seq(D))
    PROVE  FlattenSeq(seqs) \in Seq(D)
<1>1. PICK f : Joins(f, seqs, D)
  BY JoinsExist
<1>2. FlattenSeq(seqs) = f[Len(seqs)] /\ Len(seqs) \in Nat
  BY <1>1, FlattenIsJoined
<1> QED
  BY <1>1, <1>2 DEF Joins

LEMMA FlattenNone == FlattenSeq(<< >>) = << >>
  BY DEF FlattenSeq

LEMMA FlattenOneMore ==
    ASSUME NEW D, NEW seqs \in Seq(Seq(D)), NEW last \in Seq(D)
    PROVE  FlattenSeq(Append(seqs, last)) = FlattenSeq(seqs) \o last
<1> DEFINE more == Append(seqs, last)
           n == Len(seqs)
<1>1. /\ more \in Seq(Seq(D)) /\ n \in Nat /\ Len(more) = n + 1
      /\ more[n + 1] = last /\ \A i \in 1 .. n : more[i] = seqs[i]
  OBVIOUS
<1> HIDE DEF more
<1>2. PICK f : Joins(f, more, D)
  BY <1>1, JoinsExist
<1>3. /\ f \in [0 .. n + 1 -> Seq(D)] /\ f[0] = << >>
      /\ \A i \in 1 .. n + 1 : f[i] = f[i - 1] \o more[i]
  BY <1>1, <1>2 DEF Joins
<1> DEFINE g == [i \in 0 .. n |-> f[i]]
<1>4. Joins(g, seqs, D)
  <2>1. g \in [0 .. n -> Seq(D)] /\ g[0] = << >>
    BY <1>1, <1>3
  <2>2. ASSUME NEW i \in 1 .. n PROVE g[i] = g[i - 1] \o seqs[i]
    <3>1. i \in 0 .. n /\ i - 1 \in 0 .. n /\ i \in 1 .. n + 1
      BY <1>1
    <3>2. f[i] = f[i - 1] \o more[i] /\ more[i] = seqs[i]
      BY <1>1, <1>3, <3>1
    <3> QED
      BY <3>1, <3>2
  <2> HIDE DEF g
  <2> QED
    BY <2>1, <2>2 DEF Joins
<1>5. FlattenSeq(seqs) = f[n]
  BY <1>1, <1>4, FlattenIsJoined
<1>6. FlattenSeq(more) = f[n + 1]
  BY <1>1, <1>2, FlattenIsJoined
<1>7. f[n + 1] = f[n] \o last
  <2>1. (n + 1) - 1 = n /\ n + 1 \in 1 .. n + 1
    BY <1>1
  <2> QED
    BY <1>1, <1>3, <2>1
<1> QED
  BY <1>5, <1>6, <1>7 DEF more

LEMMA FirstItems ==
    ASSUME NEW E, NEW t \in Seq(E)
    PROVE  /\ SubSeq(t, 1, Len(t)) = t /\ SubSeq(t, 1, 0) = << >>
           /\ \A k \in 0 .. Len(t) : SubSeq(t, 1, k) \in Seq(E)
           /\ \A k \in 0 .. Len(t) - 1 :
                /\ t[k + 1] \in E
                /\ SubSeq(t, 1, k + 1) = Append(SubSeq(t, 1, k), t[k + 1])
<1>1. SubSeq(t, 1, Len(t)) = t
  BY SubSeqFull
<1>2. SubSeq(t, 1, 0) = << >>
  BY SubSeqEmpty
<1>3. ASSUME NEW k \in 0 .. Len(t) PROVE SubSeq(t, 1, k) \in Seq(E)
  OBVIOUS
<1>4. ASSUME NEW k \in 0 .. Len(t) - 1
      PROVE  /\ t[k + 1] \in E
             /\ SubSeq(t, 1, k + 1) = Append(SubSeq(t, 1, k), t[k + 1])
  <2>1. k \in Nat /\ k + 1 \in 1 .. Len(t)
    OBVIOUS
  <2>2. SubSeq(t, 1, k + 1) = SubSeq(t, 1, (k + 1) - 1) \o << t[k + 1] >>
    BY <2>1, SubSeqRecursiveSecond
  <2>3. (k + 1) - 1 = k /\ SubSeq(t, 1, k) \in Seq(E) /\ t[k + 1] \in E
    BY <2>1
  <2> DEFINE a == SubSeq(t, 1, k)
             e == t[k + 1]
  <2>4. a \in Seq(E) /\ e \in E
    BY <2>3
  <2> HIDE DEF a, e
  <2>5. Append(a, e) = a \o << e >>
    BY <2>4
  <2> QED
    BY <2>2, <2>3, <2>5 DEF a, e
<1> QED
  BY <1>1, <1>2, <1>3, <1>4

LEMMA AppendToBoth ==
    ASSUME NEW E, NEW s \in Seq(E), NEW a \in Seq(E), NEW e \in E
    PROVE  s \o a \in Seq(E) /\ s \o Append(a, e) = Append(s \o a, e)
<1>1. Append(a, e) = a \o << e >> /\ Append(s \o a, e) = (s \o a) \o << e >>
      /\ << e >> \in Seq(E) /\ s \o a \in Seq(E)
  OBVIOUS
<1>2. (s \o a) \o << e >> = s \o (a \o << e >>)
  BY <1>1, ConcatAssociative
<1> QED
  BY <1>1, <1>2

LEMMA FlattenBoth ==
    ASSUME NEW D, NEW s, NEW t, s \in Seq(Seq(D)), t \in Seq(Seq(D))
    PROVE  FlattenSeq(s \o t) = FlattenSeq(s) \o FlattenSeq(t)
<1> DEFINE first(k) == SubSeq(t, 1, k)
           P(k) == FlattenSeq(s \o first(k)) = FlattenSeq(s) \o FlattenSeq(first(k))
           n == Len(t)
           bad == {k \in 0 .. n : ~P(k)}
           E == Seq(D)
<1>0. s \in Seq(E) /\ t \in Seq(E)
  OBVIOUS
<1> HIDE DEF E
<1>1. n \in Nat /\ first(n) = t /\ first(0) = << >>
  BY <1>0, FirstItems
<1>2. FlattenSeq(s) \in Seq(D)
  BY FlattenType
<1>2a. \A u, v, w \in Seq(D) : (u \o v) \o w = u \o (v \o w)
  BY ConcatAssociative
<1>3. P(0)
  <2>1. s \o << >> = s
    BY <1>0, ConcatEmptySeq
  <2>2. FlattenSeq(s) \o << >> = FlattenSeq(s)
    BY <1>2, ConcatEmptySeq
  <2> QED
    BY <1>1, <2>1, <2>2, FlattenNone
<1>4. ASSUME NEW k \in 0 .. n - 1, P(k) PROVE P(k + 1)
  <2>1. /\ first(k) \in Seq(E) /\ t[k + 1] \in E
        /\ first(k + 1) = Append(first(k), t[k + 1])
    <3>1. k \in 0 .. Len(t) /\ k \in 0 .. Len(t) - 1
      OBVIOUS
    <3> QED
      BY <1>0, <3>1, FirstItems
  <2> DEFINE a == first(k)
             b == first(k + 1)
             e == t[k + 1]
  <2>2. a \in Seq(E) /\ e \in E /\ b = Append(a, e)
    BY <2>1
  <2>3. FlattenSeq(s \o a) = FlattenSeq(s) \o FlattenSeq(a)
    BY <1>4
  <2> HIDE DEF a, b, e
  <2>4. s \o b = Append(s \o a, e) /\ s \o a \in Seq(E)
    BY <1>0, <2>2, AppendToBoth
  <2>5. FlattenSeq(s \o b) = FlattenSeq(s \o a) \o e
    BY <2>2, <2>4, FlattenOneMore DEF E
  <2>6. FlattenSeq(b) = FlattenSeq(a) \o e /\ FlattenSeq(a) \in Seq(D)
    BY <2>2, FlattenOneMore, FlattenType DEF E
  <2>7. (FlattenSeq(s) \o FlattenSeq(a)) \o e = FlattenSeq(s) \o (FlattenSeq(a) \o e)
    <3> DEFINE x == FlattenSeq(s)
               y == FlattenSeq(a)
    <3>1. x \in Seq(D) /\ y \in Seq(D) /\ e \in Seq(D)
      BY <1>2, <2>2, <2>6 DEF E
    <3> HIDE DEF x, y
    <3>2. (x \o y) \o e = x \o (y \o e)
      BY <3>1, <1>2a
    <3> QED
      BY <3>2 DEF x, y
  <2>8. FlattenSeq(s \o b) = FlattenSeq(s) \o FlattenSeq(b)
    BY <2>3, <2>5, <2>6, <2>7
  <2> QED
    BY <2>8 DEF b
<1>5. P(n) => FlattenSeq(s \o t) = FlattenSeq(s) \o FlattenSeq(t)
  BY <1>1
<1> HIDE DEF P, n, bad
<1>6. P(n)
  <2> SUFFICES ASSUME ~P(n) PROVE FALSE
    OBVIOUS
  <2>1. bad \in SUBSET Nat /\ \A k : k \in bad <=> k \in 0 .. n /\ ~P(k)
    BY <1>1 DEF bad
  <2>2. n \in bad
    BY <1>1, <2>1
  <2>3. PICK m \in bad : \A k \in bad : m <= k
    BY <2>1, <2>2, LeastNat
  <2>4. m \in 0 .. n /\ m # 0 /\ ~P(m)
    BY <1>3, <2>1
  <2>5. m - 1 \in 0 .. n - 1 /\ m - 1 \in 0 .. n /\ (m - 1) + 1 = m
    BY <1>1, <2>4
  <2>6. m - 1 \notin bad
    BY <2>3, <2>4
  <2>7. P(m - 1)
    BY <2>1, <2>5, <2>6
  <2>8. P((m - 1) + 1)
    BY <1>4, <2>5, <2>7
  <2> QED
    BY <2>4, <2>5, <2>8
<1> QED
  BY <1>5, <1>6

-----------------------------------------------------------------------------
(* The ordered window *)

Documents == (Nat \X Nat) \cup ((Nat \X Nat) \X Nat)

\* What a window is given: files or blobs one after the other, each with the
\* documents it holds.  Works orders and filters them with SelectSeq, of which
\* the provers know nothing.
UpstreamListed(s) ==
    /\ s.pods \in Nat \ {0} /\ s.target \in Nat
    /\ \A p \in 1 .. s.pods : Works[s][p] \in Seq(Seq(Documents))
WindowsListed ==
    \A s \in Sources : s.puller \in {"window", "blobs"} => UpstreamListed(s)
Windowing == Windowed /\ UpstreamListed(source)

Results == [landed : BOOLEAN, docs : Seq(Documents)]
Windows == [outcome : Seq(Results), inflight : SUBSET Nat, pending : SUBSET Nat,
            write : Nat]
WindowJobs == [phase : Phases, at : {0}, buffer : {<< >>}]
WindowParts == [there : BOOLEAN, lines : Seq(Documents)]

DocsBefore(w, n) == [i \in 1 .. n - 1 |-> w.outcome[i].docs]
Due(w) == FlattenSeq(DocsBefore(w, w.write))

\* What has been submitted and not written is in flight or waits, and the file
\* is what is due, until the target cuts it and ends the pull.
Ordered(phase, w, lines, target) ==
    /\ phase \notin {"cursor", "last"}
    /\ phase \notin {"pull", "tail", "rename"} => w = NoWindow
    /\ w.write \in 1 .. Len(w.outcome) + 1
    /\ w.write .. Len(w.outcome) = w.inflight \cup w.pending
    /\ w.inflight \cap w.pending = {}
    /\ phase \in {"pull", "tail"} => lines = Due(w) /\ w.write \notin w.pending
    /\ phase = "rename" =>
        /\ IsPrefix(lines, Due(w))
        /\ Len(lines) < target => lines = Due(w) /\ w.write \notin w.pending

WindowShape ==
    /\ job \in [Pods -> WindowJobs]
    /\ part \in [Pods -> WindowParts]
    /\ window \in [Pods -> Windows]
WindowInv ==
    /\ WindowShape
    /\ \A p \in Pods :
        /\ Ordered(job[p].phase, window[p], part[p].lines, Target(p))
        /\ Len(window[p].outcome) <= Len(Work(p))

WindowJob(phase) == [phase |-> phase, at |-> 0, buffer |-> << >>]

LEMMA WindowJobType ==
    ASSUME NEW phase \in Phases
    PROVE  WindowJob(phase) \in WindowJobs /\ WindowJob(phase).phase = phase
  BY DEF WindowJob, WindowJobs

\* One pod at a time.
LEMMA WindowStep ==
    ASSUME WindowInv, UNCHANGED source, NEW p \in Pods,
           NEW phase \in Phases, NEW w \in Windows, NEW f \in WindowParts,
           Len(w.outcome) <= Len(Work(p)),
           job' = [job EXCEPT ![p] = WindowJob(phase)], window' = [window EXCEPT ![p] = w],
           part' = [part EXCEPT ![p] = f],
           Ordered(phase, w, f.lines, Target(p))
    PROVE  WindowInv'
<1> DEFINE j == WindowJob(phase)
<1>0. j \in WindowJobs /\ j.phase = phase
  BY WindowJobType
<1> HIDE DEF j
<1>1. Pods' = Pods
  BY DEF Pods
<1>2. WindowShape'
  BY <1>0, <1>1 DEF WindowInv, WindowShape, j
<1>3. ASSUME NEW q \in Pods
      PROVE  /\ Ordered(job'[q].phase, window'[q], part'[q].lines, Target(q))
             /\ Len(window'[q].outcome) <= Len(Work(q))
  <2>1. CASE q = p
    <3>1. job'[q] = j /\ window'[q] = w /\ part'[q] = f
      BY <2>1 DEF WindowInv, WindowShape, j
    <3> QED
      BY <1>0, <2>1, <3>1
  <2>2. CASE q # p
    <3>1. job'[q] = job[q] /\ window'[q] = window[q] /\ part'[q] = part[q]
      BY <2>2 DEF WindowInv, WindowShape
    <3> QED
      BY <3>1 DEF WindowInv
  <2> QED
    BY <2>1, <2>2
<1>4. \A q \in Pods : Target(q)' = Target(q) /\ Work(q)' = Work(q)
  BY DEF Target, Work
<1>5. ASSUME NEW q \in Pods'
      PROVE  /\ Ordered(job[q].phase, window[q], part[q].lines, Target(q))'
             /\ (Len(window[q].outcome) <= Len(Work(q)))'
  BY <1>1, <1>3, <1>4
<1> QED
  BY <1>2, <1>5 DEF WindowInv

\* A pod without a window has none to disorder.
LEMMA EmptyWindow ==
    /\ NoWindow \in Windows
    /\ \A target, phase, lines :
        phase \in Phases \ {"cursor", "last", "pull", "tail", "rename"} =>
            Ordered(phase, NoWindow, lines, target)
    /\ Due(NoWindow) = << >>
<1>1. /\ NoWindow.outcome = << >> /\ NoWindow.inflight = {} /\ NoWindow.pending = {}
      /\ NoWindow.write = 1 /\ Len(<< >>) = 0 /\ << >> \in Seq(Results)
  BY DEF NoWindow
<1>2. NoWindow \in Windows
  BY <1>1 DEF NoWindow, Windows
<1>3. DocsBefore(NoWindow, 1) = << >>
  BY DEF DocsBefore
<1>4. Due(NoWindow) = << >>
  BY <1>1, <1>3, FlattenNone DEF Due
<1>5. 1 .. 0 = {}
  OBVIOUS
<1> QED
  BY <1>1, <1>2, <1>4, <1>5 DEF Ordered

LEMMA WindowFacts ==
    ASSUME WindowInv, NEW p \in Pods
    PROVE  /\ job[p] = WindowJob(job[p].phase) /\ job[p].phase \in Phases
           /\ job[p] \in WindowJobs /\ job[p].buffer = << >>
           /\ window[p] \in Windows
           /\ window[p].outcome \in Seq(Results) /\ window[p].write \in Nat
           /\ window[p].inflight \in SUBSET Nat /\ window[p].pending \in SUBSET Nat
           /\ part[p] \in WindowParts /\ part[p].lines \in Seq(Documents)
           /\ job = [job EXCEPT ![p] = job[p]] /\ window = [window EXCEPT ![p] = window[p]]
           /\ part = [part EXCEPT ![p] = part[p]]
           /\ Ordered(job[p].phase, window[p], part[p].lines, Target(p))
           /\ Len(window[p].outcome) <= Len(Work(p))
<1>1. job[p] \in WindowJobs /\ window[p] \in Windows /\ part[p] \in WindowParts
  BY DEF WindowInv, WindowShape
<1>2. /\ job[p] = WindowJob(job[p].phase) /\ job[p].phase \in Phases /\ job[p].buffer = << >>
  BY <1>1 DEF WindowJobs, WindowJob
<1>3. /\ window[p].outcome \in Seq(Results) /\ window[p].write \in Nat
      /\ window[p].inflight \in SUBSET Nat /\ window[p].pending \in SUBSET Nat
  BY <1>1 DEF Windows
<1>4. part[p].lines \in Seq(Documents)
  BY <1>1 DEF WindowParts
<1>5. job = [job EXCEPT ![p] = job[p]]
  BY DEF WindowInv, WindowShape
<1>6. window = [window EXCEPT ![p] = window[p]]
  BY DEF WindowInv, WindowShape
<1>7. part = [part EXCEPT ![p] = part[p]]
  BY DEF WindowInv, WindowShape
<1>8. /\ Ordered(job[p].phase, window[p], part[p].lines, Target(p))
      /\ Len(window[p].outcome) <= Len(Work(p))
  BY DEF WindowInv
<1> QED
  BY <1>1, <1>2, <1>3, <1>4, <1>5, <1>6, <1>7, <1>8

LEMMA WindowGoto ==
    ASSUME WindowInv, NEW p \in Pods, NEW phase \in Phases, Goto(p, phase)
    PROVE  job' = [job EXCEPT ![p] = WindowJob(phase)]
<1>1. job[p] = WindowJob(job[p].phase) /\ job \in [Pods -> WindowJobs]
  BY WindowFacts DEF WindowInv, WindowShape
<1> DEFINE old == job[p]
<1>2. [old EXCEPT !.phase = phase] = WindowJob(phase)
  BY <1>1 DEF WindowJob
<1>3. job' = [job EXCEPT ![p] = [old EXCEPT !.phase = phase]]
  BY DEF Goto
<1> HIDE DEF old
<1> QED
  BY <1>2, <1>3

LEMMA WorkListed ==
    ASSUME Windowing, NEW p \in Pods
    PROVE  Work(p) \in Seq(Seq(Documents))
  BY DEF Windowing, UpstreamListed, Work, Pods

LEMMA RoomForMore ==
    ASSUME Windowing, NEW p \in Pods
    PROVE  Len(NoWindow.outcome) <= Len(Work(p))
<1>1. Len(NoWindow.outcome) = 0
  BY DEF NoWindow
<1>2. Work(p) \in Seq(Seq(Documents))
  BY WorkListed
<1> QED
  BY <1>1, <1>2

LEMMA WindowInit ==
    ASSUME Windowing, Init
    PROVE  WindowInv
<1>1. "down" \in Phases /\ "down" \in Phases \ {"cursor", "last", "pull", "tail", "rename"}
  BY DEF Phases
<1>2. Idle \in WindowJobs /\ Idle.phase = "down" /\ Missing \in WindowParts
  BY <1>1 DEF Idle, Missing, WindowJobs, WindowParts
<1>3. job = [p \in Pods |-> Idle] /\ part = [p \in Pods |-> Missing]
      /\ window = [p \in Pods |-> NoWindow]
  BY DEF Init
<1>4. NoWindow \in Windows
  BY EmptyWindow
<1>5. WindowShape
  BY <1>2, <1>3, <1>4 DEF WindowShape
<1>6. ASSUME NEW p \in Pods
      PROVE  /\ Ordered(job[p].phase, window[p], part[p].lines, Target(p))
             /\ Len(window[p].outcome) <= Len(Work(p))
  <2>1. job[p].phase = "down" /\ window[p] = NoWindow
    BY <1>2, <1>3
  <2>2. Ordered(job[p].phase, window[p], part[p].lines, Target(p))
    BY <1>1, <2>1, EmptyWindow
  <2>3. Len(window[p].outcome) <= Len(Work(p))
    BY <2>1, RoomForMore
  <2> QED
    BY <2>2, <2>3
<1> QED
  BY <1>5, <1>6 DEF WindowInv

\* Nothing a window depends on moves.
LEMMA WindowFrame ==
    ASSUME WindowInv, UNCHANGED <<source, job, window, part>>
    PROVE  WindowInv'
<1>1. Pods' = Pods /\ \A p \in Pods : Target(p)' = Target(p) /\ Work(p)' = Work(p)
  BY DEF Pods, Target, Work
<1>2. WindowShape'
  BY <1>1 DEF WindowInv, WindowShape
<1>3. \A p \in Pods' : /\ Ordered(job[p].phase, window[p], part[p].lines, Target(p))'
                       /\ (Len(window[p].outcome) <= Len(Work(p)))'
  BY <1>1 DEF WindowInv
<1> QED
  BY <1>2, <1>3 DEF WindowInv

\* A pod without a window moves between phases that need none.
LEMMA WithoutWindow ==
    ASSUME WindowInv, NEW p \in Pods, window[p] = NoWindow,
           NEW phase \in Phases \ {"cursor", "last", "pull", "tail", "rename"},
           UNCHANGED <<source, window, part>>,
           job' = [job EXCEPT ![p] = WindowJob(phase)]
    PROVE  WindowInv'
<1>1. phase \in Phases /\ UNCHANGED source
  OBVIOUS
<1> DEFINE f == part[p]
           w == window[p]
<1>2. window = [window EXCEPT ![p] = w] /\ part = [part EXCEPT ![p] = f]
      /\ f \in WindowParts /\ w = NoWindow /\ Len(w.outcome) <= Len(Work(p))
  BY WindowFacts
<1>3. w \in Windows /\ Ordered(phase, w, f.lines, Target(p))
  <2> DEFINE lines == part[p].lines
             target == Target(p)
  <2> HIDE DEF lines, target
  <2>1. NoWindow \in Windows
    BY EmptyWindow
  <2>2. Ordered(phase, NoWindow, lines, target)
    BY EmptyWindow, Zenon
  <2> QED
    BY <1>2, <2>1, <2>2 DEF lines, target
<1> HIDE DEF f, w
<1>4. window' = [window EXCEPT ![p] = w] /\ part' = [part EXCEPT ![p] = f]
  BY <1>2
<1> QED
  BY <1>1, <1>2, <1>3, <1>4, WindowStep

LEMMA WindowLaunch ==
    ASSUME WindowInv, NEW p \in Pods, Launch(p)
    PROVE  WindowInv'
<1> DEFINE next == IF manifest.there \/ (source.pods > 1 /\ parts[p][1].there) THEN "done"
                   ELSE IF raw[p].there THEN AfterRaw(p, marker[p]) ELSE "open"
<1>1. /\ job' = [job EXCEPT ![p] = [Idle EXCEPT !.phase = next]]
      /\ job[p].phase = "down" /\ UNCHANGED <<source, window, part>>
  BY DEF Launch, durable
<1>2. next \in Phases \ {"cursor", "last", "pull", "tail", "rename"}
  BY DEF AfterRaw, Phases
<1>3. [Idle EXCEPT !.phase = next] = WindowJob(next)
  BY DEF Idle, WindowJob
<1> HIDE DEF next
<1>4. window[p] = NoWindow
  BY <1>1, WindowFacts DEF Ordered
<1>5. job' = [job EXCEPT ![p] = WindowJob(next)]
  BY <1>1, <1>3
<1> QED
  BY <1>1, <1>2, <1>4, <1>5, WithoutWindow

LEMMA WindowDie ==
    ASSUME Windowing, WindowInv, NEW p \in Pods, Die(p)
    PROVE  WindowInv'
<1>1. PICK n \in 0 .. Len(job[p].buffer) :
        part' = [part EXCEPT ![p].lines = @ \o SubSeq(job[p].buffer, 1, n)]
  BY DEF Die
<1>2. /\ job' = [job EXCEPT ![p] = Idle] /\ window' = [window EXCEPT ![p] = NoWindow]
      /\ UNCHANGED source
  BY DEF Die
<1>3. Idle = WindowJob("down") /\ "down" \in Phases
      /\ "down" \in Phases \ {"cursor", "last", "pull", "tail", "rename"}
  BY DEF Idle, WindowJob, Phases
<1> DEFINE old == part[p]
           lines == old.lines \o SubSeq(job[p].buffer, 1, n)
           f == [old EXCEPT !.lines = lines]
<1>4. job[p].buffer = << >> /\ old \in WindowParts /\ old.lines \in Seq(Documents)
  BY WindowFacts
<1>5. lines \in Seq(Documents)
  <2>1. SubSeq(<< >>, 1, n) = << >> /\ << >> \in Seq(Documents)
    BY <1>1, <1>4
  <2> HIDE DEF old
  <2> QED
    BY <1>4, <2>1
<1>6. part' = [part EXCEPT ![p] = f]
  BY <1>1
<1> HIDE DEF lines, old
<1>7. f \in WindowParts
  BY <1>4, <1>5 DEF WindowParts
<1> HIDE DEF f
<1>8. NoWindow \in Windows /\ Ordered("down", NoWindow, f.lines, Target(p))
  <2> DEFINE written == f.lines
             target == Target(p)
  <2> HIDE DEF written, target
  <2>1. NoWindow \in Windows
    BY EmptyWindow
  <2>2. Ordered("down", NoWindow, written, target)
    BY <1>3, EmptyWindow, Zenon
  <2> QED
    BY <2>1, <2>2 DEF written, target
<1>9. job' = [job EXCEPT ![p] = WindowJob("down")] /\ "down" \in Phases
  BY <1>2, <1>3
<1>10. Len(NoWindow.outcome) <= Len(Work(p))
  BY RoomForMore
<1> QED
  BY <1>2, <1>6, <1>7, <1>8, <1>9, <1>10, WindowStep

LEMMA WindowOpen ==
    ASSUME Windowing, WindowInv, NEW p \in Pods, OpenPart(p)
    PROVE  WindowInv'
<1>1. /\ job[p].phase = "open" /\ part' = [part EXCEPT ![p] = Holding(<< >>)]
      /\ Goto(p, "pull") /\ UNCHANGED <<source, window>>
  BY DEF OpenPart, Windowing, Windowed
<1>2. "pull" \in Phases /\ << >> \in Seq(Documents)
  BY DEF Phases
<1> DEFINE f == Holding(<< >>)
           w == window[p]
<1>3. f \in WindowParts /\ f.lines = << >>
  BY <1>2 DEF Holding, WindowParts
<1>4. w = NoWindow /\ window = [window EXCEPT ![p] = w] /\ w \in Windows
      /\ Len(w.outcome) <= Len(Work(p))
  BY <1>1, WindowFacts DEF Ordered
<1>5. job' = [job EXCEPT ![p] = WindowJob("pull")]
  BY <1>1, <1>2, WindowGoto
<1>6. Ordered("pull", w, << >>, Target(p))
  <2>1. NoWindow.pending = {}
    BY DEF NoWindow
  <2>2. Ordered("down", w, << >>, Target(p))
    BY <1>1, <1>4, WindowFacts, EmptyWindow DEF Ordered
  <2> QED
    BY <1>4, <2>1, <2>2, EmptyWindow DEF Ordered
<1>7. part' = [part EXCEPT ![p] = f] /\ window' = [window EXCEPT ![p] = w] /\ UNCHANGED source
  BY <1>1, <1>4
<1> HIDE DEF f, w
<1> QED
  BY <1>2, <1>3, <1>4, <1>5, <1>6, <1>7, WindowStep

\* What is due looks at the results before the next one to write, only.
LEMMA DueKept ==
    ASSUME NEW v, NEW w, v.write = w.write,
           \A i \in 1 .. w.write - 1 : v.outcome[i].docs = w.outcome[i].docs
    PROVE  Due(v) = Due(w)
<1>1. DocsBefore(v, v.write) = DocsBefore(w, w.write)
  BY DEF DocsBefore
<1> QED
  BY <1>1 DEF Due

\* The fields of a window, written one by one.
LEMMA WindowSubmitted ==
    ASSUME NEW w \in Windows, NEW a, NEW b
    PROVE  [w EXCEPT !.outcome = a, !.inflight = b] =
                [outcome |-> a, inflight |-> b, pending |-> w.pending, write |-> w.write]
<1> DEFINE wo == [outcome |-> a, inflight |-> w.inflight, pending |-> w.pending,
                  write |-> w.write]
<1>1. w = [outcome |-> w.outcome, inflight |-> w.inflight, pending |-> w.pending,
           write |-> w.write]
  BY DEF Windows
<1>2. [w EXCEPT !.outcome = a] = wo
  BY <1>1
<1>3. [wo EXCEPT !.inflight = b] =
        [outcome |-> a, inflight |-> b, pending |-> w.pending, write |-> w.write]
  OBVIOUS
<1> HIDE DEF wo
<1> QED
  BY <1>2, <1>3

LEMMA WindowSubmit ==
    ASSUME Windowing, WindowInv, NEW p \in Pods, Submit(p)
    PROVE  WindowInv'
<1> DEFINE w == window[p]
           n == Len(w.outcome)
           out == Append(w.outcome, Flying)
           fly == w.inflight \cup {n + 1}
           v == [outcome |-> out, inflight |-> fly, pending |-> w.pending, write |-> w.write]
           f == part[p]
<1>1. /\ job[p].phase = "pull" /\ UNCHANGED <<source, job, part>>
      /\ window' = [window EXCEPT ![p].outcome = Append(@, Flying),
                                  ![p].inflight = @ \cup {Len(window[p].outcome) + 1}]
  BY DEF Submit, durable
<1>1a. n < Len(Work(p)) /\ Len(Work(p)) \in Nat
  <2>1. n < Len(Work(p))
    BY DEF Submit
  <2>2. Work(p) \in Seq(Seq(Documents))
    BY WorkListed
  <2> QED
    BY <2>1, <2>2
<1>2. /\ w \in Windows /\ w.outcome \in Seq(Results) /\ n \in Nat
      /\ w.inflight \in SUBSET Nat /\ w.pending \in SUBSET Nat /\ w.write \in Nat
  BY WindowFacts
<1>3. Ordered("pull", w, f.lines, Target(p)) /\ f \in WindowParts
  BY <1>1, WindowFacts
<1>4. Flying \in Results
  BY DEF Flying, Results
<1>5. /\ out \in Seq(Results) /\ Len(out) = n + 1 /\ \A i \in 1 .. n : out[i] = w.outcome[i]
  BY <1>2, <1>4
<1>6. fly \in SUBSET Nat
  BY <1>2
<1>7. window' = [window EXCEPT ![p] = v]
  <2>1. w \in Windows
    BY <1>2
  <2>3. window' = [window EXCEPT ![p] = [w EXCEPT !.outcome = out, !.inflight = fly]]
    BY <1>1
  <2> HIDE DEF w, out, fly
  <2>2. [w EXCEPT !.outcome = out, !.inflight = fly] = v
    BY <2>1, WindowSubmitted
  <2> HIDE DEF w, v, out, fly
  <2> QED
    BY <2>2, <2>3
<1>8. v \in Windows /\ v.outcome = out /\ v.inflight = fly /\ v.pending = w.pending
      /\ v.write = w.write
  BY <1>2, <1>5, <1>6 DEF Windows
<1> HIDE DEF out, v, n
<1>9. /\ w.write \in 1 .. n + 1 /\ w.write .. n = w.inflight \cup w.pending
      /\ w.inflight \cap w.pending = {} /\ f.lines = Due(w) /\ w.write \notin w.pending
  BY <1>3 DEF Ordered, n
<1> HIDE DEF w
<1>10. Due(v) = Due(w)
  <2>1. \A i \in 1 .. w.write - 1 : v.outcome[i].docs = w.outcome[i].docs
    BY <1>2, <1>5, <1>8, <1>9
  <2> QED
    BY <1>8, <2>1, DueKept
<1>11. v.write .. Len(v.outcome) = v.inflight \cup v.pending
  BY <1>2, <1>5, <1>8, <1>9
<1>12. v.inflight \cap v.pending = {}
  BY <1>2, <1>8, <1>9
<1>13. v.write \in 1 .. Len(v.outcome) + 1
  BY <1>2, <1>5, <1>8, <1>9
<1>14. Ordered("pull", v, f.lines, Target(p))
  BY <1>8, <1>9, <1>10, <1>11, <1>12, <1>13 DEF Ordered
<1>15. job' = [job EXCEPT ![p] = WindowJob("pull")] /\ "pull" \in Phases
  BY <1>1, WindowFacts
<1>16. part' = [part EXCEPT ![p] = f] /\ UNCHANGED source
  BY <1>1, WindowFacts
<1>17. Len(v.outcome) <= Len(Work(p))
  BY <1>1a, <1>2, <1>5, <1>8
<1> HIDE DEF f
<1> QED
  BY <1>3, <1>7, <1>8, <1>14, <1>15, <1>16, <1>17, WindowStep

\* A fetch lands among those in flight, behind what is due.
LEMMA WindowLand ==
    ASSUME Windowing, WindowInv, NEW p \in Pods, NEW i \in window[p].inflight, Land(p, i)
    PROVE  WindowInv'
<1> DEFINE w == window[p]
           n == Len(w.outcome)
           f == part[p]
           phase == job[p].phase
<1>1. PICK k \in 0 .. Len(Work(p)[i]) :
        window' = [window EXCEPT ![p].outcome[i] = Landed(SubSeq(Work(p)[i], 1, k))]
  BY DEF Land
<1> DEFINE r == Landed(SubSeq(Work(p)[i], 1, k))
           out == [w.outcome EXCEPT ![i] = r]
           v == [outcome |-> out, inflight |-> w.inflight, pending |-> w.pending,
                 write |-> w.write]
<1>2. /\ w \in Windows /\ w.outcome \in Seq(Results) /\ n \in Nat
      /\ w.inflight \in SUBSET Nat /\ w.pending \in SUBSET Nat /\ w.write \in Nat
      /\ f \in WindowParts /\ n <= Len(Work(p)) /\ i \in w.inflight
  BY WindowFacts
<1>3. Ordered(phase, w, f.lines, Target(p)) /\ phase \in Phases
  BY WindowFacts
<1>4. /\ w.write \in 1 .. n + 1 /\ w.write .. n = w.inflight \cup w.pending
      /\ w.inflight \cap w.pending = {} /\ phase \notin {"cursor", "last"}
      /\ phase \notin {"pull", "tail", "rename"} => w = NoWindow
  BY <1>3 DEF Ordered, n
<1>5. i \in w.write .. n
  BY <1>2, <1>4
<1>6. r \in Results
  <2>1. Work(p) \in Seq(Seq(Documents)) /\ i \in 1 .. Len(Work(p))
    BY <1>2, <1>4, <1>5, WorkListed
  <2>2. Work(p)[i] \in Seq(Documents)
    BY <2>1
  <2> DEFINE docs == Work(p)[i]
  <2> HIDE DEF docs
  <2>3. SubSeq(docs, 1, k) \in Seq(Documents)
    BY <1>1, <2>2 DEF docs
  <2> QED
    BY <2>3 DEF docs, Landed, Results
<1>7. window' = [window EXCEPT ![p] = v]
  <2>1. w = [outcome |-> w.outcome, inflight |-> w.inflight, pending |-> w.pending,
             write |-> w.write]
    BY <1>2 DEF Windows
  <2> HIDE DEF r
  <2>2. window' = [window EXCEPT ![p] = [w EXCEPT !.outcome = out]]
    BY <1>1 DEF r
  <2> HIDE DEF w, out
  <2>3. [w EXCEPT !.outcome = out] = v
    BY <2>1
  <2> QED
    BY <2>2, <2>3
<1> HIDE DEF r
<1>8. out \in Seq(Results) /\ Len(out) = n
      /\ \A m \in 1 .. w.write - 1 : out[m] = w.outcome[m]
  <2> DEFINE old == w.outcome
  <2>1. old \in Seq(Results) /\ i \in 1 .. Len(old)
    BY <1>2, <1>4, <1>5
  <2> HIDE DEF old
  <2>2. [old EXCEPT ![i] = r] \in Seq(Results) /\ Len([old EXCEPT ![i] = r]) = Len(old)
        /\ \A m \in 1 .. Len(old) : m # i => [old EXCEPT ![i] = r][m] = old[m]
    BY <1>6, <2>1
  <2>3. ASSUME NEW m \in 1 .. w.write - 1 PROVE m \in 1 .. n /\ m # i
    BY <1>2, <1>4, <1>5
  <2> QED
    BY <2>2, <2>3 DEF old
<1> HIDE DEF out
<1>9. v \in Windows /\ v.outcome = out /\ v.inflight = w.inflight /\ v.pending = w.pending
      /\ v.write = w.write
  BY <1>2, <1>8 DEF Windows
<1> HIDE DEF v
<1>10. Due(v) = Due(w)
  <2>1. \A m \in 1 .. w.write - 1 : v.outcome[m].docs = w.outcome[m].docs
    BY <1>8, <1>9
  <2> QED
    BY <1>9, <2>1, DueKept
<1>11. NoWindow.inflight = {}
  BY DEF NoWindow
<1>12. phase \in {"pull", "tail", "rename"}
  BY <1>2, <1>4, <1>11
<1>13. Ordered(phase, v, f.lines, Target(p))
  BY <1>3, <1>8, <1>9, <1>10, <1>12 DEF Ordered, n
<1>14. job' = [job EXCEPT ![p] = WindowJob(phase)]
  BY WindowFacts DEF Land
<1>15. part' = [part EXCEPT ![p] = f] /\ UNCHANGED source
  BY WindowFacts DEF Land, durable
<1>16. Len(v.outcome) <= Len(Work(p))
  BY <1>2, <1>8, <1>9
<1> HIDE DEF f, phase
<1> QED
  BY <1>2, <1>3, <1>7, <1>9, <1>13, <1>14, <1>15, <1>16, WindowStep

\* Everything was submitted.
LEMMA WindowEndSubmitting ==
    ASSUME WindowInv, NEW p \in Pods, EndSubmitting(p)
    PROVE  WindowInv'
<1> DEFINE next == IF window[p].inflight = {} THEN "rename" ELSE "tail"
           w == window[p]
           f == part[p]
<1>1. job[p].phase = "pull" /\ Goto(p, next) /\ UNCHANGED <<source, window, part>>
  BY DEF EndSubmitting, durable
<1>2. next \in Phases /\ next \in {"rename", "tail"}
  BY DEF Phases
<1> HIDE DEF next
<1>3. /\ w \in Windows /\ f \in WindowParts /\ Len(w.outcome) <= Len(Work(p))
      /\ f.lines \in Seq(Documents)
      /\ window = [window EXCEPT ![p] = w] /\ part = [part EXCEPT ![p] = f]
  BY WindowFacts
<1>4. Ordered("pull", w, f.lines, Target(p))
  BY <1>1, WindowFacts
<1>5. Ordered(next, w, f.lines, Target(p))
  <2>1. f.lines = Due(w) /\ w.write \notin w.pending
    BY <1>4 DEF Ordered
  <2>2. IsPrefix(f.lines, f.lines)
    BY <1>3 DEF IsPrefix
  <2> QED
    BY <1>2, <1>4, <2>1, <2>2 DEF Ordered
<1>6. job' = [job EXCEPT ![p] = WindowJob(next)]
  BY <1>1, <1>2, WindowGoto
<1>7. part' = [part EXCEPT ![p] = f] /\ window' = [window EXCEPT ![p] = w] /\ UNCHANGED source
  BY <1>1, <1>3
<1> HIDE DEF f, w
<1> QED
  BY <1>2, <1>3, <1>5, <1>6, <1>7, WindowStep

LEMMA WindowRename ==
    ASSUME Windowing, WindowInv, NEW p \in Pods, Rename(p)
    PROVE  WindowInv'
<1>1. /\ part' = [part EXCEPT ![p] = Missing] /\ window' = [window EXCEPT ![p] = NoWindow]
      /\ Goto(p, "unlink") /\ UNCHANGED source
  BY DEF Rename
<1>2. "unlink" \in Phases /\ "unlink" \in Phases \ {"cursor", "last", "pull", "tail", "rename"}
  BY DEF Phases
<1>3. job' = [job EXCEPT ![p] = WindowJob("unlink")]
  BY <1>1, <1>2, WindowGoto
<1>4. Missing \in WindowParts
  BY DEF Missing, WindowParts
<1> DEFINE lines == Missing.lines
           target == Target(p)
<1> HIDE DEF lines, target
<1>5. NoWindow \in Windows
  BY EmptyWindow
<1>6. Ordered("unlink", NoWindow, lines, target)
  BY <1>2, EmptyWindow, Zenon
<1>7. Len(NoWindow.outcome) <= Len(Work(p))
  BY RoomForMore
<1> QED
  BY <1>1, <1>2, <1>3, <1>4, <1>5, <1>6, <1>7, WindowStep DEF lines, target

Ready(write, waiting) == {i \in waiting : write .. i \subseteq waiting}

\* m is the first result still missing.
FirstGap(write, last, waiting, m) ==
    /\ m \in write .. last + 1
    /\ m \notin waiting /\ write .. m - 1 \subseteq waiting
    /\ Cardinality(Ready(write, waiting)) = m - write

\* What can be written is everything up to there.
LEMMA ReadyInterval ==
    ASSUME NEW write, NEW last, NEW waiting, write \in Nat, last \in Nat,
           waiting \in SUBSET (write .. last), write <= last + 1
    PROVE  \E m : FirstGap(write, last, waiting, m)
<1> DEFINE ready == {i \in waiting : write .. i \subseteq waiting}
           gaps == {i \in write .. last + 1 : i \notin waiting}
<1>1. last + 1 \in gaps /\ gaps \in SUBSET Nat
      /\ \A i : i \in gaps <=> i \in write .. last + 1 /\ i \notin waiting
  OBVIOUS
<1> HIDE DEF gaps
<1>2. PICK m \in gaps : \A k \in gaps : m <= k
  BY <1>1, LeastNat
<1>3. m \in write .. last + 1 /\ m \notin waiting /\ m \in Nat
  BY <1>1
<1>4. ASSUME NEW i \in write .. m - 1 PROVE i \in waiting
  <2>1. i \in write .. last + 1 /\ ~(m <= i)
    BY <1>3
  <2> QED
    BY <1>1, <1>2, <2>1
<1>5. ready = write .. m - 1
  <2>1. ASSUME NEW i \in ready PROVE i \in write .. m - 1
    <3>1. i \in write .. last /\ write .. i \subseteq waiting
      OBVIOUS
    <3>2. ~(m <= i)
      BY <1>3, <3>1
    <3> QED
      BY <1>3, <3>1, <3>2
  <2>2. ASSUME NEW i \in write .. m - 1 PROVE i \in ready
    <3>1. write .. i \subseteq write .. m - 1
      BY <1>3
    <3> QED
      BY <1>4, <3>1
  <2> QED
    BY <2>1, <2>2
<1>6. Cardinality(write .. m - 1) = m - write
  <2>1. write \in Int /\ m - 1 \in Int
    BY <1>3
  <2>2. Cardinality(write .. m - 1) = IF write > m - 1 THEN 0 ELSE (m - 1) - write + 1
    BY <2>1, FS_Interval
  <2> QED
    BY <1>3, <2>2
<1> QED
  BY <1>3, <1>4, <1>5, <1>6 DEF Ready, FirstGap

\* What is due and what a drain adds to it is what is due afterwards.
LEMMA DueGrows ==
    ASSUME NEW out \in Seq(Results), NEW write \in Nat, NEW m \in Nat,
           1 <= write, write <= m, m <= Len(out) + 1
    PROVE  FlattenSeq([i \in 1 .. m - 1 |-> out[i].docs]) =
             FlattenSeq([i \in 1 .. write - 1 |-> out[i].docs]) \o
             FlattenSeq([n \in 1 .. m - write |-> out[write + n - 1].docs])
<1> DEFINE S == Seq(Documents)
           a == [i \in 1 .. write - 1 |-> out[i].docs]
           b == [n \in 1 .. m - write |-> out[write + n - 1].docs]
           c == [i \in 1 .. m - 1 |-> out[i].docs]
<1>1. ASSUME NEW i \in 1 .. Len(out) PROVE out[i].docs \in S
  <2>1. out[i] \in Results
    OBVIOUS
  <2> DEFINE r == out[i]
  <2> HIDE DEF r
  <2>2. r.docs \in S
    BY <2>1 DEF Results, r
  <2> QED
    BY <2>2 DEF r
<1> HIDE DEF S
<1>2. a \in Seq(S) /\ Len(a) = write - 1 /\ \A i \in 1 .. write - 1 : a[i] = out[i].docs
  BY <1>1
<1>3. b \in Seq(S) /\ Len(b) = m - write
      /\ \A n \in 1 .. m - write : b[n] = out[write + n - 1].docs
  <2>1. \A n \in 1 .. m - write : write + n - 1 \in 1 .. Len(out)
    OBVIOUS
  <2>2. \A n \in 1 .. m - write : out[write + n - 1].docs \in S
    BY <1>1, <2>1
  <2>3. m - write \in Nat
    OBVIOUS
  <2> QED
    BY <2>2, <2>3
<1>4. c \in Seq(S) /\ Len(c) = m - 1 /\ \A i \in 1 .. m - 1 : c[i] = out[i].docs
  BY <1>1
<1> HIDE DEF a, b, c
<1>5. c = a \o b
  <2>1. /\ a \o b \in Seq(S) /\ Len(a \o b) = Len(a) + Len(b)
        /\ \A i \in 1 .. Len(a) + Len(b) :
                (a \o b)[i] = IF i <= Len(a) THEN a[i] ELSE b[i - Len(a)]
    BY <1>2, <1>3, ConcatProperties
  <2> DEFINE ab == a \o b
             d == write - 1
  <2>2. /\ ab \in Seq(S) /\ Len(ab) = m - 1
        /\ \A i \in 1 .. m - 1 : ab[i] = IF i <= d THEN a[i] ELSE b[i - d]
    BY <1>2, <1>3, <2>1
  <2> HIDE DEF ab
  <2>3. ASSUME NEW i \in 1 .. m - 1 PROVE ab[i] = c[i]
    <3>1. CASE i <= d
      <4>1. ab[i] = a[i] /\ i \in 1 .. write - 1
        BY <2>2, <3>1
      <4> QED
        BY <1>2, <1>4, <4>1
    <3>2. CASE ~(i <= d)
      <4>1. ab[i] = b[i - d] /\ i - d \in 1 .. m - write /\ write + (i - d) - 1 = i
        BY <2>2, <3>2
      <4>2. b[i - d] = out[write + (i - d) - 1].docs
        BY <1>3, <4>1
      <4> QED
        BY <1>4, <4>1, <4>2
    <3> QED
      BY <3>1, <3>2
  <2>4. c \in Seq(S) /\ Len(c) = m - 1
    BY <1>4
  <2>5. ab = c
    BY <2>2, <2>3, <2>4, SeqEqual
  <2> QED
    BY <2>5 DEF ab
<1>6. FlattenSeq(a \o b) = FlattenSeq(a) \o FlattenSeq(b)
  BY <1>2, <1>3, FlattenBoth DEF S
<1> QED
  BY <1>5, <1>6 DEF a, b, c

LEMMA TargetType ==
    ASSUME Windowing, NEW p \in Pods
    PROVE  Target(p) \in Nat
<1>1. source.pods \in Nat \ {0} /\ source.target \in Nat
  BY DEF Windowing, UpstreamListed
<1> DEFINE pods == source.pods
           target == source.target
<1> HIDE DEF pods, target
<1>2. target \div pods \in Nat /\ target % pods \in Nat
  BY <1>1, Z3 DEF pods, target
<1> QED
  BY <1>2 DEF Target, Quota, pods, target

\* The results that wait are written as far as they reach, cut at the target.
LEMMA WindowHarvest ==
    ASSUME Windowing, WindowInv, NEW p \in Pods, NEW done \in SUBSET window[p].inflight,
           NEW otherwise \in {"pull", "tail", "rename"}, job[p].phase \in {"pull", "tail"},
           HarvestAndDrain(p, done, otherwise), UNCHANGED source
    PROVE  WindowInv'
<1> DEFINE w == window[p]
           n == Len(w.outcome)
           old == part[p]
           target == Target(p)
           waiting == w.pending \cup done
           drained == Drain(p, waiting)
           all == old.lines \o drained.docs
           cut == IF Len(all) < target THEN Len(all) ELSE target
           next == IF Len(all) >= target THEN "rename" ELSE otherwise
<1>1. /\ window' = [window EXCEPT ![p].inflight = @ \ done,
                        ![p].pending = {i \in waiting : i >= drained.write},
                        ![p].write = drained.write]
      /\ part' = [part EXCEPT ![p].lines = SubSeq(all, 1, cut)]
      /\ Goto(p, next)
  BY DEF HarvestAndDrain
<1>2. /\ w \in Windows /\ w.outcome \in Seq(Results) /\ n \in Nat
      /\ w.inflight \in SUBSET Nat /\ w.pending \in SUBSET Nat /\ w.write \in Nat
      /\ old \in WindowParts /\ old.lines \in Seq(Documents) /\ n <= Len(Work(p))
  BY WindowFacts
<1>3. Ordered(job[p].phase, w, old.lines, target)
  BY WindowFacts
<1>4. /\ w.write \in 1 .. n + 1 /\ w.write .. n = w.inflight \cup w.pending
      /\ w.inflight \cap w.pending = {} /\ old.lines = Due(w)
  BY <1>3 DEF Ordered, n
<1>5. waiting \subseteq w.write .. n
  BY <1>4
<1>6. PICK m : FirstGap(w.write, n, waiting, m)
  <2> DEFINE write == w.write
  <2>1. write \in Nat /\ n \in Nat /\ waiting \in SUBSET (write .. n) /\ write <= n + 1
    BY <1>2, <1>4, <1>5
  <2> HIDE DEF write, waiting, n
  <2>2. \E k : FirstGap(write, n, waiting, k)
    BY <2>1, ReadyInterval
  <2> QED
    BY <2>2 DEF write
<1>7. /\ m \in Nat /\ w.write \in Nat /\ n \in Nat
      /\ 1 <= w.write /\ w.write <= m /\ m <= n + 1
  BY <1>2, <1>4, <1>6 DEF FirstGap
<1> DEFINE more == [k \in 1 .. m - w.write |-> w.outcome[w.write + k - 1].docs]
<1>8. drained.write = m /\ drained.docs = FlattenSeq(more)
  <2>1. Cardinality(Ready(w.write, waiting)) = m - w.write
    BY <1>6 DEF FirstGap
  <2> HIDE DEF waiting
  <2>2. /\ drained.write = w.write + (m - w.write)
        /\ drained.docs = FlattenSeq([k \in 1 .. m - w.write |-> w.outcome[w.write + k - 1].docs])
    BY <2>1 DEF Drain, Ready
  <2>3. w.write + (m - w.write) = m
    BY <1>2, <1>7
  <2> QED
    BY <2>2, <2>3
<1> HIDE DEF drained
<1> DEFINE fly == w.inflight \ done
           rest == {i \in waiting : i >= m}
           v == [outcome |-> w.outcome, inflight |-> fly, pending |-> rest, write |-> m]
<1>9. window' = [window EXCEPT ![p] = v]
  <2>1. window' = [window EXCEPT ![p] = [w EXCEPT !.inflight = fly, !.pending = rest,
                                                  !.write = m]]
    BY <1>1, <1>8
  <2>2. w \in Windows
    BY <1>2
  <2> HIDE DEF w, fly, rest
  \* Under short names, so that the record is written one field at a time.
  <2>3. PICK a, b, c : a = w /\ b = fly /\ c = rest
    OBVIOUS
  <2> DEFINE wi == [outcome |-> a.outcome, inflight |-> b, pending |-> a.pending,
                    write |-> a.write]
             wp == [outcome |-> a.outcome, inflight |-> b, pending |-> c, write |-> a.write]
             ww == [outcome |-> a.outcome, inflight |-> b, pending |-> c, write |-> m]
  <2>4. [a EXCEPT !.inflight = b, !.pending = c, !.write = m] = ww
    <3>1. a = [outcome |-> a.outcome, inflight |-> a.inflight, pending |-> a.pending,
               write |-> a.write]
      BY <2>2, <2>3 DEF Windows
    <3>2. [a EXCEPT !.inflight = b] = wi
      BY <3>1
    <3>3. [wi EXCEPT !.pending = c] = wp
      OBVIOUS
    <3>4. [wp EXCEPT !.write = m] = ww
      OBVIOUS
    <3> HIDE DEF wi, wp, ww
    <3> QED
      BY <3>2, <3>3, <3>4
  <2>5. v = [outcome |-> a.outcome, inflight |-> b, pending |-> c, write |-> m]
    BY <2>3
  <2>6. window' = [window EXCEPT ![p] = [a EXCEPT !.inflight = b, !.pending = c,
                                                  !.write = m]]
    BY <2>1, <2>3
  <2> HIDE DEF v, ww
  <2> QED
    BY <2>4, <2>5, <2>6 DEF ww
<1>10. /\ v \in Windows /\ v.outcome = w.outcome /\ v.inflight = fly /\ v.pending = rest
       /\ v.write = m
  <2>1. fly \in SUBSET Nat /\ rest \in SUBSET Nat
    BY <1>2, <1>4, <1>5
  <2> HIDE DEF fly, rest
  <2> QED
    BY <1>2, <1>7, <2>1 DEF Windows
<1> HIDE DEF v
<1>11. all = Due(v) /\ all \in Seq(Documents)
  <2> DEFINE out == w.outcome
             write == w.write
             before == [i \in 1 .. write - 1 |-> out[i].docs]
             whole == [i \in 1 .. m - 1 |-> out[i].docs]
  <2>1. Due(w) = FlattenSeq(before) /\ Due(v) = FlattenSeq(whole)
    BY <1>10 DEF Due, DocsBefore
  <2>2. FlattenSeq(whole) = FlattenSeq(before) \o FlattenSeq(more)
    <3>1. out \in Seq(Results) /\ write \in Nat /\ 1 <= write /\ write <= m
          /\ m <= Len(out) + 1
      BY <1>2, <1>7
    <3> HIDE DEF out, write
    <3>2. FlattenSeq([i \in 1 .. m - 1 |-> out[i].docs]) =
             FlattenSeq([i \in 1 .. write - 1 |-> out[i].docs]) \o
             FlattenSeq([k \in 1 .. m - write |-> out[write + k - 1].docs])
      BY <1>7, <3>1, DueGrows
    <3> QED
      BY <3>2 DEF out, write
  <2>3. all = Due(v)
    BY <1>4, <1>8, <2>1, <2>2
  <2>4. whole \in Seq(Seq(Documents))
    <3>1. ASSUME NEW i \in 1 .. m - 1 PROVE out[i].docs \in Seq(Documents)
      <4> DEFINE r == out[i]
      <4>1. r \in Results
        BY <1>2, <1>7
      <4> HIDE DEF r
      <4>2. r.docs \in Seq(Documents)
        BY <4>1 DEF Results
      <4> QED
        BY <4>2 DEF r
    <3>2. m - 1 \in Nat
      BY <1>7
    <3> HIDE DEF out
    <3> QED
      BY <3>1, <3>2
  <2>5. FlattenSeq(whole) \in Seq(Documents)
    BY <2>4, FlattenType
  <2> QED
    BY <2>1, <2>3, <2>5
<1> HIDE DEF all
<1>12. target \in Nat
  BY TargetType
<1> HIDE DEF target
<1> DEFINE kept == SubSeq(all, 1, cut)
           f == [old EXCEPT !.lines = kept]
<1>13. /\ cut \in 0 .. Len(all) /\ kept \in Seq(Documents) /\ Len(kept) = cut
       /\ (Len(all) < target => kept = all) /\ IsPrefix(kept, all)
  <2>1. cut \in 0 .. Len(all) /\ Len(all) \in Nat /\ (Len(all) < target => cut = Len(all))
    BY <1>11, <1>12
  <2> HIDE DEF cut
  <2>2. kept \in Seq(Documents) /\ Len(kept) = cut
    BY <1>11, <2>1
  <2>3. Len(all) < target => kept = all
    BY <1>11, <2>1, SubSeqFull
  <2>4. SubSeq(kept, 1, Len(kept)) = kept
    BY <2>2, SubSeqFull
  <2>5. IsPrefix(kept, all)
    BY <2>1, <2>2, <2>4 DEF IsPrefix
  <2> QED
    BY <2>1, <2>2, <2>3, <2>5
<1>14. part' = [part EXCEPT ![p] = f]
  BY <1>1
<1>15. f \in WindowParts /\ f.lines = kept
  <2> HIDE DEF old, kept
  <2> QED
    BY <1>2, <1>13 DEF WindowParts
<1>16. next \in Phases /\ next \in {"pull", "tail", "rename"}
       /\ (next # "rename" => Len(all) < target)
       /\ (Len(all) < target \/ next = "rename")
  BY <1>11, <1>12 DEF Phases
<1>17. Ordered(next, v, f.lines, target)
  <2>1. v.write \in 1 .. Len(v.outcome) + 1
    BY <1>7, <1>10
  <2>2. m .. n = fly \cup rest
    <3>1. ASSUME NEW i \in fly \cup rest PROVE i \in m .. n
      <4>1. i \in w.write .. n /\ i \in Nat
        BY <1>2, <1>4, <1>5
      <4>2. CASE i \in fly
        <5>1. i \notin waiting
          BY <1>4, <4>2
        <5>2. ~(i \in w.write .. m - 1)
          BY <1>6, <5>1 DEF FirstGap
        <5> QED
          BY <1>7, <4>1, <5>2
      <4>3. CASE i \in rest
        BY <1>7, <4>1, <4>3
      <4> QED
        BY <4>2, <4>3
    <3>2. ASSUME NEW i \in m .. n PROVE i \in fly \cup rest
      <4>1. i \in w.write .. n /\ i >= m
        BY <1>2, <1>7
      <4>2. i \in w.inflight \cup w.pending
        BY <1>4, <4>1
      <4> QED
        BY <4>1, <4>2
    <3> QED
      BY <3>1, <3>2
  <2>3. fly \cap rest = {}
    BY <1>4
  <2>4. m \notin rest
    BY <1>6 DEF FirstGap
  <2>5. next = "rename" /\ Len(kept) < target => kept = all
    BY <1>11, <1>12, <1>13
  <2> HIDE DEF fly, rest, next, kept, f
  <2>6. v.write .. Len(v.outcome) = v.inflight \cup v.pending
        /\ v.inflight \cap v.pending = {} /\ v.write \notin v.pending
    BY <1>10, <2>2, <2>3, <2>4
  <2> QED
    BY <1>11, <1>13, <1>15, <1>16, <2>1, <2>5, <2>6 DEF Ordered
<1> HIDE DEF next, f, w
<1>18. job' = [job EXCEPT ![p] = WindowJob(next)]
  BY <1>1, <1>16, WindowGoto
<1>19. Len(v.outcome) <= Len(Work(p))
  BY <1>2, <1>10 DEF n
<1> QED
  BY <1>9, <1>10, <1>14, <1>15, <1>16, <1>17, <1>18, <1>19, WindowStep DEF target

LEMMA WindowHarvestFull ==
    ASSUME Windowing, WindowInv, NEW p \in Pods, Harvest(p)
    PROVE  WindowInv'
<1>1. /\ job[p].phase \in {"pull", "tail"} /\ UNCHANGED source
      /\ HarvestAndDrain(p, LandedOf(p), "pull")
  BY DEF Harvest
<1>2. LandedOf(p) \in SUBSET window[p].inflight
  BY DEF LandedOf
<1> QED
  BY <1>1, <1>2, WindowHarvest

LEMMA WindowHarvestTail ==
    ASSUME Windowing, WindowInv, NEW p \in Pods, HarvestTail(p)
    PROVE  WindowInv'
<1>1. PICK i \in LandedOf(p) :
        HarvestAndDrain(p, {i}, IF window[p].inflight = {i} THEN "rename" ELSE "tail")
  BY DEF HarvestTail
<1> DEFINE done == {i}
           otherwise == IF window[p].inflight = {i} THEN "rename" ELSE "tail"
<1>2. job[p].phase \in {"pull", "tail"} /\ UNCHANGED source
  BY DEF HarvestTail
<1>3. done \in SUBSET window[p].inflight /\ otherwise \in {"pull", "tail", "rename"}
  BY DEF LandedOf
<1>4. HarvestAndDrain(p, done, otherwise)
  BY <1>1
<1> HIDE DEF done, otherwise
<1> QED
  BY <1>2, <1>3, <1>4, WindowHarvest

\* What follows the raw file needs no window.
LEMMA WindowMovesOn ==
    ASSUME WindowInv, NEW p \in Pods, UNCHANGED <<source, window, part>>,
           NEW next \in {"shuffle", "mark", "shard", "join", "merge", "seal", "cleanup",
                         "done"},
           job[p].phase \notin {"pull", "tail", "rename"}, Goto(p, next)
    PROVE  WindowInv'
<1>1. next \in Phases /\ next \in Phases \ {"cursor", "last", "pull", "tail", "rename"}
  BY DEF Phases
<1>2. window[p] = NoWindow
  BY WindowFacts DEF Ordered
<1>3. job' = [job EXCEPT ![p] = WindowJob(next)]
  BY <1>1, WindowGoto
<1> QED
  BY <1>1, <1>2, <1>3, WithoutWindow

LEMMA WindowAfterRaw ==
    ASSUME WindowInv, NEW p \in Pods,
           \/ DropCursor(p) \/ Shuffle(p) \/ MarkShuffled(p) \/ StartSharding(p)
           \/ Merge(p) \/ Seal(p) \/ CleanUp(p)
    PROVE  WindowInv'
<1>1. CASE DropCursor(p)
  <2> DEFINE next == AfterRaw(p, marker[p])
  <2>1. next \in {"shuffle", "mark", "shard", "join", "merge", "seal", "cleanup", "done"}
    BY DEF AfterRaw
  <2>2. /\ job[p].phase \notin {"pull", "tail", "rename"} /\ Goto(p, next)
        /\ UNCHANGED <<source, window, part>>
    BY <1>1 DEF DropCursor
  <2> HIDE DEF next
  <2> QED
    BY <2>1, <2>2, WindowMovesOn
<1>2. CASE Shuffle(p)
  <2>1. /\ job[p].phase \notin {"pull", "tail", "rename"} /\ Goto(p, "mark")
        /\ UNCHANGED <<source, window, part>>
    BY <1>2 DEF Shuffle
  <2> QED
    BY <2>1, WindowMovesOn
<1>3. CASE MarkShuffled(p)
  <2>1. /\ job[p].phase \notin {"pull", "tail", "rename"} /\ Goto(p, "shard")
        /\ UNCHANGED <<source, window, part>>
    BY <1>3 DEF MarkShuffled
  <2> QED
    BY <2>1, WindowMovesOn
<1>4. CASE StartSharding(p)
  <2>1. /\ job[p].phase \notin {"pull", "tail", "rename"} /\ Goto(p, "join")
        /\ UNCHANGED <<source, window, part>>
    BY <1>4 DEF StartSharding, durable
  <2> QED
    BY <2>1, WindowMovesOn
<1>5. CASE Merge(p)
  <2>1. /\ job[p].phase \notin {"pull", "tail", "rename"} /\ Goto(p, "seal")
        /\ UNCHANGED <<source, window, part>>
    BY <1>5 DEF Merge
  <2> QED
    BY <2>1, WindowMovesOn
<1>6. CASE Seal(p)
  <2>1. /\ job[p].phase \notin {"pull", "tail", "rename"} /\ Goto(p, "cleanup")
        /\ UNCHANGED <<source, window, part>>
    BY <1>6 DEF Seal
  <2> QED
    BY <2>1, WindowMovesOn
<1>7. CASE CleanUp(p)
  <2>1. /\ job[p].phase \notin {"pull", "tail", "rename"} /\ Goto(p, "done")
        /\ UNCHANGED <<source, window, part>>
    BY <1>7 DEF CleanUp
  <2> QED
    BY <2>1, WindowMovesOn
<1> QED
  BY <1>1, <1>2, <1>3, <1>4, <1>5, <1>6, <1>7

LEMMA WindowJoin ==
    ASSUME WindowInv, NEW p \in Pods, Join(p)
    PROVE  WindowInv'
<1>1. job[p].phase \notin {"pull", "tail", "rename"} /\ UNCHANGED <<source, window, part>>
  BY DEF Join, durable
<1>2. CASE \E k \in Workers : sharder[p][k] = "failed"
  <2>1. "down" \in Phases \ {"cursor", "last", "pull", "tail", "rename"}
    BY DEF Phases
  <2>2. job' = [job EXCEPT ![p] = Idle] /\ Idle = WindowJob("down")
    BY <1>2 DEF Join, Idle, WindowJob
  <2>3. window[p] = NoWindow
    BY <1>1, WindowFacts DEF Ordered
  <2> QED
    BY <1>1, <2>1, <2>2, <2>3, WithoutWindow
<1>3. CASE ~(\E k \in Workers : sharder[p][k] = "failed")
  <2> DEFINE next == IF source.workers > 1 THEN "merge" ELSE "cleanup"
  <2>1. Goto(p, next)
    BY <1>3 DEF Join, Goto
  <2>2. next \in {"shuffle", "mark", "shard", "join", "merge", "seal", "cleanup", "done"}
    OBVIOUS
  <2> HIDE DEF next
  <2> QED
    BY <1>1, <2>1, <2>2, WindowMovesOn
<1> QED
  BY <1>2, <1>3

\* What a windowed pod can do.
LEMMA WindowPodStep ==
    ASSUME Windowing, WindowInv, NEW p \in Pods, PodStep(p)
    PROVE  WindowInv'
<1>1. ~ReadRow(p) /\ ~LastFlush(p) /\ ~ReadFile(p) /\ ~EndListing(p)
  BY DEF Windowing, Windowed, ReadRow, LastFlush, ReadFile, EndListing
<1>2. ~SaveCursor(p)
  <2>1. job[p].phase \notin {"cursor", "last"}
    BY WindowFacts DEF Ordered
  <2> QED
    BY <2>1 DEF SaveCursor
<1>3. CASE OpenPart(p)
  BY <1>3, WindowOpen
<1>4. CASE Submit(p)
  BY <1>4, WindowSubmit
<1>5. CASE Harvest(p)
  BY <1>5, WindowHarvestFull
<1>6. CASE EndSubmitting(p)
  BY <1>6, WindowEndSubmitting
<1>7. CASE HarvestTail(p)
  BY <1>7, WindowHarvestTail
<1>8. CASE Rename(p)
  BY <1>8, WindowRename
<1>9. CASE \/ DropCursor(p) \/ Shuffle(p) \/ MarkShuffled(p) \/ StartSharding(p)
           \/ Merge(p) \/ Seal(p) \/ CleanUp(p)
  BY <1>9, WindowAfterRaw
<1>10. CASE Join(p)
  BY <1>10, WindowJoin
<1> QED
  BY <1>1, <1>2, <1>3, <1>4, <1>5, <1>6, <1>7, <1>8, <1>9, <1>10 DEF PodStep

LEMMA WindowNext ==
    ASSUME Windowing, WindowInv, [Next]_vars
    PROVE  Windowing' /\ WindowInv'
<1>1. UNCHANGED source
  BY SourceKept
<1>2. Windowing'
  BY <1>1 DEF Windowing, Windowed
<1>3. CASE UNCHANGED vars
  <2>1. UNCHANGED <<source, job, window, part>>
    BY <1>3 DEF vars, durable
  <2> QED
    BY <1>2, <2>1, WindowFrame
<1>4. ASSUME NEW p \in Pods, Launch(p) PROVE WindowInv'
  BY <1>4, WindowLaunch
<1>5. ASSUME NEW p \in Pods, Die(p) PROVE WindowInv'
  BY <1>5, WindowDie
<1>6. ASSUME NEW p \in Pods, PodStep(p) PROVE WindowInv'
  BY <1>6, WindowPodStep
<1>7. ASSUME NEW p \in Pods, FetchStep(p) PROVE WindowInv'
  <2>1. PICK i \in window[p].inflight : Land(p, i)
    BY <1>7 DEF FetchStep
  <2> QED
    BY <2>1, WindowLand
<1>8. ASSUME NEW p \in Pods, SharderStep(p) \/ \E k \in Workers : FailWorker(p, k)
      PROVE  WindowInv'
  <2>1. UNCHANGED <<source, job, window, part>>
    BY <1>8 DEF SharderStep, BeginList, EndList, FailWorker, durable
  <2> QED
    BY <2>1, WindowFrame
<1>9. ASSUME MergeManifests PROVE WindowInv'
  <2>1. UNCHANGED <<source, job, window, part>>
    BY <1>9 DEF MergeManifests
  <2> QED
    BY <2>1, WindowFrame
<1> QED
  BY <1>2, <1>3, <1>4, <1>5, <1>6, <1>7, <1>8, <1>9 DEF Next

\* The other pullers open no window.
NoWindows == ~Windowed /\ window = [p \in Pods |-> NoWindow]

LEMMA NoWindowOpens ==
    ASSUME NoWindows, [Next]_vars
    PROVE  NoWindows'
<1>1. source' = source /\ Pods' = Pods /\ ~Windowed'
  <2>1. UNCHANGED source
    BY SourceKept
  <2> QED
    BY <2>1 DEF Pods, Windowed, NoWindows
<1>2. CASE UNCHANGED vars
  BY <1>1, <1>2 DEF vars, NoWindows
<1>3. ASSUME NEW p \in Pods, window' = [window EXCEPT ![p] = NoWindow] PROVE NoWindows'
  BY <1>1, <1>3 DEF NoWindows
<1>4. ASSUME NEW p \in Pods, Launch(p) \/ SharderStep(p) \/ \E k \in Workers : FailWorker(p, k)
      PROVE  NoWindows'
  BY <1>1, <1>4 DEF Launch, SharderStep, BeginList, EndList, FailWorker, NoWindows
<1>5. ASSUME NEW p \in Pods, Die(p) PROVE NoWindows'
  BY <1>3, <1>5 DEF Die
<1>6. ASSUME NEW p \in Pods PROVE ~FetchStep(p)
  <2>1. window[p].inflight = {}
    BY DEF NoWindows, NoWindow
  <2> QED
    BY <2>1 DEF FetchStep
<1>7. ASSUME NEW p \in Pods, PodStep(p) PROVE NoWindows'
  <2>1. ~Submit(p) /\ ~Harvest(p) /\ ~EndSubmitting(p) /\ ~HarvestTail(p)
    BY DEF NoWindows, Submit, Harvest, EndSubmitting, HarvestTail
  <2>2. CASE Rename(p)
    BY <1>3, <2>2 DEF Rename
  <2>3. CASE ~Rename(p)
    <3>1. UNCHANGED window
      BY <1>7, <2>1, <2>3 DEF PodStep, OpenPart, ReadRow, LastFlush, SaveCursor, ReadFile,
            EndListing, DropCursor, Shuffle, MarkShuffled, StartSharding, Join, Merge, Seal,
            CleanUp
    <3> QED
      BY <1>1, <3>1 DEF NoWindows
  <2> QED
    BY <2>2, <2>3
<1>8. CASE MergeManifests
  BY <1>1, <1>8 DEF MergeManifests, NoWindows
<1> QED
  BY <1>2, <1>4, <1>5, <1>6, <1>7, <1>8 DEF Next

LEMMA WindowsAlways ==
    ASSUME WindowsListed
    PROVE  Spec => [](source \in Sources /\ ((Windowing /\ WindowInv) \/ NoWindows))
<1> DEFINE I == source \in Sources /\ ((Windowing /\ WindowInv) \/ NoWindows)
<1>1. Init => I
  <2> SUFFICES ASSUME Init PROVE I
    OBVIOUS
  <2>1. source \in Sources /\ window = [p \in Pods |-> NoWindow]
    BY DEF Init
  <2>2. CASE Windowed
    <3>1. Windowing
      BY <2>1, <2>2 DEF Windowing, Windowed, WindowsListed
    <3> QED
      BY <2>1, <3>1, WindowInit
  <2> QED
    BY <2>1, <2>2 DEF NoWindows
<1>2. I /\ [Next]_vars => I'
  <2> SUFFICES ASSUME I, [Next]_vars PROVE I'
    OBVIOUS
  <2>1. UNCHANGED source
    BY SourceKept
  <2> QED
    BY <2>1, WindowNext, NoWindowOpens
<1> QED
  BY <1>1, <1>2, PTL DEF Spec

\* However fetches land, fail or are lost with the pod, what a pod has written
\* is what it submitted, in that order and cut only at the target (harvest and
\* drain_pending of pull_stack and pull_dolma3_dolmino_mix).
THEOREM WrittenInOrderAlways ==
    ASSUME WindowsListed
    PROVE  Spec => []WrittenInOrder
<1> DEFINE I == source \in Sources /\ ((Windowing /\ WindowInv) \/ NoWindows)
<1>1. I => WrittenInOrder
  <2> SUFFICES ASSUME I, NEW p \in Pods, window[p].outcome # << >>
               PROVE  /\ IsPrefix(part[p].lines, Due(window[p]))
                      /\ Len(part[p].lines) < Target(p) =>
                           /\ part[p].lines = Due(window[p])
                           /\ window[p].write \notin window[p].pending
    BY DEF WrittenInOrder, Due, DocsBefore
  <2>1. Windowing /\ WindowInv
    BY DEF NoWindows, NoWindow
  <2> DEFINE w == window[p]
             lines == part[p].lines
             target == Target(p)
  <2>2. Ordered(job[p].phase, w, lines, target) /\ lines \in Seq(Documents)
    BY <2>1, WindowFacts
  <2>3. job[p].phase \in {"pull", "tail", "rename"}
    BY <2>2 DEF Ordered, NoWindow
  <2>4. SubSeq(lines, 1, Len(lines)) = lines
    BY <2>2, SubSeqFull
  <2> HIDE DEF w, lines, target
  <2>5. IsPrefix(lines, lines)
    BY <2>2, <2>4 DEF IsPrefix
  <2>6. /\ IsPrefix(lines, Due(w))
        /\ Len(lines) < target => lines = Due(w) /\ w.write \notin w.pending
    BY <2>2, <2>3, <2>5 DEF Ordered
  <2> QED
    BY <2>6 DEF w, lines, target
<1>2. Spec => []I
  BY WindowsAlways
<1> QED
  BY <1>1, <1>2, PTL

\* With an order of files that goes by rounds, the output of a concurrent pull
\* is what a sequential one would write (pull_dolma3_dolmino_mix, pull_stack).
THEOREM WindowKeepsOrderAlways ==
    ASSUME WindowsListed, \A s \in Sources : s.puller = "window" => SpreadByRounds[s]
    PROVE  Spec => []WindowKeepsOrder
<1>1. source \in Sources /\ WrittenInOrder => WindowKeepsOrder
  BY DEF WindowKeepsOrder
<1>2. Spec => []WrittenInOrder
  BY WrittenInOrderAlways
<1>3. Spec => [](source \in Sources)
  BY WindowsAlways, PTL
<1> QED
  BY <1>1, <1>2, <1>3, PTL
=============================================================================
