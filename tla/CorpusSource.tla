---------------------------- MODULE CorpusSource ----------------------------
(***************************************************************************)
(* The pure parts of a corpus build: the order in which a puller visits    *)
(* its upstream, the quotas, the global shuffle, the byte ranges of the    *)
(* tokenising workers and the cut into shards.  src/scripts/               *)
(* build_corpus.py, src/src/pretrain/data/prepare.py and                   *)
(* src/src/pretrain/data/indexed_dataset.py.                               *)
(*                                                                         *)
(* A document is <<item, j>>, the j-th usable text of an upstream item (a  *)
(* row, a file or a blob); its text is abstracted to its size.             *)
(***************************************************************************)
EXTENDS Integers, Sequences, SequencesExt, FiniteSets, ByteSegments

CONSTANTS
    Size(_),        \* bytes of a document's JSONL line
    ShardDocs,      \* documents that reach target_shard_bytes
    Bucket(_),      \* bucket drawn by the seeded RNG for the i-th line
    Buckets         \* num_buckets of shuffle_jsonl

ASSUME CorpusSourceAssumption ==
    ShardDocs \in Nat \ {0} /\ Buckets \in Nat \ {0}

DocsOf(item, count) == [j \in 1 .. count |-> <<item, j>>]
Total(docs) == FoldLeft(LAMBDA bytes, d : bytes + Size(d), 0, docs)

-----------------------------------------------------------------------------
(* Visiting order and quotas *)

\* Fan-out pod p takes n \div pods documents, the last one also the rest.
Quota(target, pods, p) ==
    target \div pods + (IF p = pods THEN target % pods ELSE 0)

\* proof-pile's configurations by weight (percent); the last takes the rest.
ConfigQuotas(target, weights) ==
    LET early(c) == (target * weights[c]) \div 100
        taken == FoldLeft(LAMBDA sum, c : sum + early(c), 0,
                          [c \in 1 .. Len(weights) - 1 |-> c])
    IN  [c \in DOMAIN weights |->
            IF c = Len(weights) THEN target - taken ELSE early(c)]

Rotated(active, round) ==
    LET offset == (round - 1) % Len(active)
    IN  SubSeq(active, offset + 1, Len(active)) \o SubSeq(active, 1, offset)

\* One file of every source directory per round, the start rotating; a
\* directory leaves when its queue is empty.  files[d] counts d's files.
RoundRobin(files) ==
    LET dirs == SelectSeq([d \in DOMAIN files |-> d], LAMBDA d : files[d] > 0)
        rounds == IF dirs = << >> THEN 0
                  ELSE CHOOSE m \in {files[d] : d \in ToSet(dirs)} :
                            \A d \in ToSet(dirs) : files[d] <= m
        active[r \in 1 .. rounds] ==
            IF r = 1 THEN dirs
            ELSE SelectSeq(Rotated(active[r - 1], r - 1), LAMBDA d : files[d] >= r)
        round(r) == LET order == Rotated(active[r], r)
                    IN  [i \in DOMAIN order |-> <<order[i], r>>]
    IN  FlattenSeq([r \in 1 .. rounds |-> round(r)])

-----------------------------------------------------------------------------
(* From a raw file to shards *)

\* Two passes: lines to the bucket the RNG draws, then every bucket permuted
\* (here: reversed) and appended.
Shuffled(lines) ==
    LET inBucket(b) == SelectSeq([i \in DOMAIN lines |-> i], LAMBDA i : Bucket(i) = b)
        permuted(b) == LET ids == Reverse(inBucket(b))
                       IN  [i \in DOMAIN ids |-> lines[ids[i]]]
    IN  FlattenSeq([b \in 1 .. Buckets |-> permuted(b)])

Offset(lines, i) == Total(SubSeq(lines, 1, i - 1))

\* The documents worker k of workers tokenises.
Segment(lines, k, workers) ==
    LET starts == {Offset(lines, i) : i \in DOMAIN lines}
        owned == LinesOwned(starts, Total(lines), k, workers)
        ids == SelectSeq([i \in DOMAIN lines |-> i],
                         LAMBDA i : Offset(lines, i) \in owned)
    IN  [n \in DOMAIN ids |-> lines[ids[n]]]

\* write_shards closes a shard when it reaches the target and opens the next;
\* a trailing one is kept unless it is empty.
ShardsWithoutTrailer(docs) ==
    [n \in 1 .. Len(docs) \div ShardDocs |->
        SubSeq(docs, (n - 1) * ShardDocs + 1, n * ShardDocs)]
ShardsOf(docs) ==
    LET full == ShardsWithoutTrailer(docs)
        rest == SubSeq(docs, Len(full) * ShardDocs + 1, Len(docs))
    IN  IF rest = << >> THEN full ELSE Append(full, rest)
=============================================================================
