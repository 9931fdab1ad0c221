--------------------------- MODULE CorpusBuildMC ---------------------------
(***************************************************************************)
(* Properties of CorpusBuild and small sources to build with TLC.          *)
(***************************************************************************)
EXTENDS CorpusBuild

MCSize(d) == 1 + (d[2] % 2)
MCBucket(i) == 1 + ((i * i + 1) % 2)

Stream(items, target) ==
    [puller |-> "stream", target |-> target, pods |-> 1, workers |-> 1,
     shuffled |-> FALSE, deleteRaw |-> TRUE, items |-> items]
Stack(items, target, pods) ==
    [puller |-> "blobs", target |-> target, pods |-> pods, workers |-> 1,
     shuffled |-> FALSE, deleteRaw |-> FALSE, items |-> items]
Dolma(dirs, target, workers) ==
    [puller |-> "window", target |-> target, pods |-> 1, workers |-> workers,
     shuffled |-> TRUE, deleteRaw |-> FALSE, dirs |-> dirs]
Proof(configs, weights, target) ==
    [puller |-> "listing", target |-> target, pods |-> 1, workers |-> 1,
     shuffled |-> FALSE, deleteRaw |-> TRUE, configs |-> configs,
     weights |-> weights]

\* Streams that end on a chunk boundary: at their target, or short of it with
\* their last usable row.
AlignedSources ==
    {Stream(<<1, 0, 1, 1, 0, 1, 1, 1, 1, 1, 1>>, 8), Stream(<<1, 0, 1, 1, 0, 1, 0>>, 8),
     Stack(<<1, 0, 1, 1, 1>>, 3, 1), Stack(<<1, 1, 1, 1>>, 3, 2),
     Dolma(<<<<2, 1, 1>>, << >>, <<1, 1>>>>, 4, 1), Dolma(<<<<1, 1>>, <<2>>>>, 9, 2),
     Proof(<<<<2, 1>>, <<2>>>>, <<50, 50>>, 3)}

\* One stream that ends between two chunk boundaries.
UnevenSources == {Stream(<<1, 0, 1, 1, 1, 1>>, 3)}

-----------------------------------------------------------------------------
\* Every volatile structure is empty outside the phases that use it, and no
\* file is longer than its target.
CorpusTypeOK ==
    /\ source \in Sources
    /\ \A p \in Pods :
        /\ job[p].phase \in Phases /\ launches[p] \in 0 .. MaxLaunches
        /\ Written(p) <= Target(p)
        /\ job[p].buffer # << >> => job[p].phase \in {"pull", "cursor", "tail"}
        /\ window[p].inflight \cap window[p].pending = {}
        /\ window[p].outcome # << >> => job[p].phase \in {"pull", "tail", "rename"}
        /\ \A k \in Workers :
            sharder[p][k] \in {"idle", "run", "list", "ok", "failed"}
        /\ (\E k \in Workers : sharder[p][k] # "idle") => job[p].phase = "join"
        /\ ~part[p].there => part[p].lines = << >>

\* "so .part and .scanned stay mutually consistent" (_RESUME_CHUNK): whatever
\* the crashes, the raw file of a resumable source skips no usable row before
\* its last one, and falls short of its target only when the rows ran out.
RowsOf(p) == {d[1] : d \in ToSet(pulled[p])}
NothingSkippedOver ==
    source.puller = "stream" =>
        \A p \in Pods : raw[p].there =>
            LET usable == {i \in DOMAIN source.items : source.items[i] > 0} IN
            /\ \A i \in usable, j \in RowsOf(p) : i <= j => i \in RowsOf(p)
            /\ Len(pulled[p]) < Target(p) => RowsOf(p) = usable

\* "capped at sub-percent duplicates on resume" (_RESUME_CHUNK): an
\* interruption repeats at most one chunk of rows, and only where a puller
\* resumes.
DuplicatesBounded ==
    \A p \in Pods :
        pulled[p] # << >> => Len(pulled[p]) - Cardinality(ToSet(pulled[p])) <=
            (IF source.puller = "stream" THEN Chunk * (launches[p] - 1) ELSE 0)

\* The files of a directory mixture are submitted once each, and no directory
\* is a file ahead of another that still has some.
SpreadByRounds ==
    [s \in {s \in Sources : s.puller = "window"} |->
        LET order == RoundRobin([d \in DOMAIN s.dirs |-> Len(s.dirs[d])])
        IN  /\ ToSet(order) = UNION {{<<d, r>> : r \in DOMAIN s.dirs[d]} : d \in DOMAIN s.dirs}
            /\ Len(order) = Cardinality(ToSet(order))
            /\ \A i, j \in DOMAIN order : i < j => order[i][2] <= order[j][2]]

\* What a pod has written through its window, in the order it submitted: while
\* short of the target, every result up to the next one to write, which is not
\* among those that wait.
WrittenInOrder ==
    \A p \in Pods : window[p].outcome # << >> =>
        LET due == FlattenSeq([i \in 1 .. window[p].write - 1 |-> window[p].outcome[i].docs])
        IN  /\ IsPrefix(part[p].lines, due)
            /\ Len(part[p].lines) < Target(p) =>
                    part[p].lines = due /\ window[p].write \notin window[p].pending

\* The output of a concurrent pull is what a sequential one would write: the
\* results in submission order whatever order the fetches land in, a failed
\* one leaving no gap behind it to wait for (pull_stack, drain_pending); and
\* files go by rounds over the directories.
WindowKeepsOrder ==
    WrittenInOrder /\ (source.puller = "window" => SpreadByRounds[source])

\* A manifest whose writes ended lists exactly the documents the pods pulled,
\* each once and, unless they were shuffled, in the order they were pulled, in
\* shards none of which is empty: across worker processes and their byte
\* ranges, pods, retries and merges (shard_source, write_shards, _cmd_shard,
\* _cmd_merge_manifests).
ManifestIsWhole ==
    manifest.there /\ manifest.whole =>
        LET listed == FlattenSeq(manifest.shards)
            all == FlattenSeq([p \in Pods |-> pulled[p]])
        IN  /\ IF source.shuffled THEN ToBag(listed) = ToBag(all) ELSE listed = all
            /\ \A s \in DOMAIN manifest.shards : manifest.shards[s] # << >>

\* However its fetches fail and its pods die, the build ends.
BuildFinishes == <>[](\A p \in Pods : job[p].phase = "done")
=============================================================================
