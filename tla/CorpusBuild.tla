---------------------------- MODULE CorpusBuild ----------------------------
(***************************************************************************)
(* One source of src/scripts/build_corpus.py from the upstream to its      *)
(* sharded, manifested directory: pull to .part, rename, shuffle, shard by *)
(* one process, by several in the pod or by several pods, merge.  A pod    *)
(* may die at any step and is retried; fetches fail and overtake each      *)
(* other.                                                                  *)
(*                                                                         *)
(* A source is a record: puller ("stream": dclm and fineweb, "listing":    *)
(* proof-pile, "window": dolma3, "blobs": the Stack), target, pods,        *)
(* workers (tokenising processes), shuffled, deleteRaw, and the upstream:  *)
(* items (documents of each row or blob, 0 when filtered out), dirs        *)
(* (documents of each file of each directory) or configs with weights.     *)
(***************************************************************************)
EXTENDS CorpusSource, TLC

CONSTANTS
    Sources,       \* the sources to build, one per behaviour
    Chunk,         \* _RESUME_CHUNK
    Concurrency,   \* fetches in flight
    MaxLaunches    \* bound: attempts of one pod

ASSUME CorpusBuildAssumption ==
    Chunk \in Nat \ {0} /\ Concurrency \in Nat \ {0} /\ MaxLaunches \in Nat \ {0}

VARIABLES
    source,     \* the source being built
    job,        \* per pod: phase, upstream cursor, lines written but buffered
    window,     \* per pod: the ordered window of concurrent fetches
    sharder,    \* per pod and worker: state of the tokenising process
    part,       \* durable: <source>.jsonl.part
    cursor,     \* durable: the .scanned sidecar
    raw,        \* durable: <source>.jsonl
    marker,     \* durable: the .shuffled sidecar
    parts,      \* durable: manifest.w<K>.yaml, per pod and worker
    manifest,   \* durable: manifest.yaml
    launches,   \* attempts of every pod so far
    pulled      \* bookkeeping: the lines of the raw file when it was renamed

durable == <<part, cursor, raw, marker, parts, manifest>>
vars == <<source, job, window, sharder, durable, launches, pulled>>

Pods == 1 .. source.pods
Workers == 1 .. source.workers
Phases == {"down", "open", "pull", "tail", "cursor", "last", "rename", "unlink",
           "shuffle", "mark", "shard", "join", "merge", "seal", "cleanup", "done"}

Missing == [there |-> FALSE, lines |-> << >>]
Holding(lines) == [there |-> TRUE, lines |-> lines]

\* whole is bookkeeping: the write ended, and so did those of the files read.
NoList == [there |-> FALSE, whole |-> FALSE, shards |-> << >>]
Listing(shards, whole) == [there |-> TRUE, whole |-> whole, shards |-> shards]

NoWindow == [outcome |-> << >>, inflight |-> {}, pending |-> {}, write |-> 1]
Flying == [landed |-> FALSE, docs |-> << >>]
Landed(docs) == [landed |-> TRUE, docs |-> docs]
Idle == [phase |-> "down", at |-> 0, buffer |-> << >>]

-----------------------------------------------------------------------------
(* The upstream of a pod *)

\* What a windowed puller submits: files round-robin, or the pod's share of
\* the rows that pass the metadata filters.
FilesOf(s) ==
    LET order == RoundRobin([d \in DOMAIN s.dirs |-> Len(s.dirs[d])])
    IN  [i \in DOMAIN order |-> DocsOf(order[i], s.dirs[order[i][1]][order[i][2]])]
BlobsOf(s, p) ==
    LET mine == SelectSeq([i \in DOMAIN s.items |-> i],
                          LAMBDA i : i % s.pods = p - 1 /\ s.items[i] > 0)
    IN  [i \in DOMAIN mine |-> DocsOf(mine[i], s.items[mine[i]])]
Works == [s \in Sources |->
    [p \in 1 .. s.pods |-> CASE s.puller = "window" -> FilesOf(s)
                             [] s.puller = "blobs" -> BlobsOf(s, p)
                             [] OTHER -> << >>]]
Work(p) == Works[source][p]

Target(p) == Quota(source.target, source.pods, p)
MaxInflight == Concurrency * (IF source.puller = "window" THEN 2 ELSE 4)
Windowed == source.puller \in {"window", "blobs"}

Written(p) == Len(part[p].lines) + Len(job[p].buffer)

Init ==
    /\ source \in Sources
    /\ job = [p \in Pods |-> Idle]
    /\ window = [p \in Pods |-> NoWindow]
    /\ sharder = [p \in Pods |-> [k \in Workers |-> "idle"]]
    /\ part = [p \in Pods |-> Missing]
    /\ cursor = [p \in Pods |-> 0]
    /\ raw = [p \in Pods |-> Missing]
    /\ marker = [p \in Pods |-> FALSE]
    /\ parts = [p \in Pods |-> [k \in Workers |-> NoList]]
    /\ manifest = NoList
    /\ launches = [p \in Pods |-> 0]
    /\ pulled = [p \in Pods |-> << >>]

Goto(p, phase) == job' = [job EXCEPT ![p].phase = phase]

\* What the next step of the pod is once its raw file is there.
AfterRaw(p, done) == IF source.shuffled /\ ~done THEN "shuffle" ELSE "shard"

-----------------------------------------------------------------------------
(* Starting and dying *)

\* The idempotency gates at the head of main's loop, by existence only.
Launch(p) ==
    /\ job[p].phase = "down"
    /\ launches[p] < MaxLaunches
    /\ launches' = [launches EXCEPT ![p] = @ + 1]
    /\ job' = [job EXCEPT ![p] = [Idle EXCEPT !.phase =
                IF manifest.there \/ (source.pods > 1 /\ parts[p][1].there) THEN "done"
                ELSE IF raw[p].there THEN AfterRaw(p, marker[p])
                ELSE "open"]]
    /\ UNCHANGED <<source, window, sharder, durable, pulled>>

\* A pod dies, or an exception ends it: some prefix of what Python buffered is
\* in the file.  The last attempt is left alone.
Die(p) ==
    /\ job[p].phase \notin {"down", "done"}
    /\ launches[p] < MaxLaunches
    /\ \E n \in 0 .. Len(job[p].buffer) :
        part' = [part EXCEPT ![p].lines = @ \o SubSeq(job[p].buffer, 1, n)]
    /\ job' = [job EXCEPT ![p] = Idle]
    /\ window' = [window EXCEPT ![p] = NoWindow]
    /\ sharder' = [sharder EXCEPT ![p] = [k \in Workers |-> "idle"]]
    /\ UNCHANGED <<source, cursor, raw, marker, parts, manifest, launches, pulled>>

-----------------------------------------------------------------------------
(* Pulling *)

\* _resume_offset: whole lines, floored to a chunk.  A torn last line is
\* dropped here, as if it had never reached the file.
Resumed(lines) == SubSeq(lines, 1, (Len(lines) \div Chunk) * Chunk)

\* pull_dclm and pull_fineweb resume; the other pullers start over.
OpenPart(p) ==
    /\ job[p].phase = "open"
    /\ IF source.puller = "stream"
       THEN LET kept == Resumed(part[p].lines) IN
            /\ part' = [part EXCEPT ![p] = IF @.there THEN Holding(kept) ELSE @]
            /\ job' = [job EXCEPT ![p] =
                IF Len(kept) >= Target(p) THEN [@ EXCEPT !.phase = "rename"]
                ELSE [@ EXCEPT !.phase = "pull", !.at = cursor[p]]]
            /\ UNCHANGED cursor
       ELSE /\ part' = [part EXCEPT ![p] = Holding(<< >>)]
            /\ cursor' = [cursor EXCEPT ![p] = 0]
            /\ Goto(p, "pull")
    /\ UNCHANGED <<source, window, sharder, raw, marker, parts, manifest, launches, pulled>>

Buffered(lines) == [file |-> << >>, buffer |-> lines]
Flushed(lines) == [file |-> lines, buffer |-> << >>]

\* One upstream row; at a chunk boundary the lines are flushed, then the cursor
\* is saved.  The last flush and cursor follow the loop.
ReadRow(p) ==
    /\ job[p].phase = "pull" /\ source.puller = "stream"
    /\ job[p].at < Len(source.items)
    /\ LET i == job[p].at + 1
           lines == job[p].buffer \o DocsOf(i, source.items[i])
           total == Len(part[p].lines) + Len(lines)
           boundary == lines # job[p].buffer /\ total % Chunk = 0
           out == IF boundary THEN Flushed(lines) ELSE Buffered(lines)
       IN  /\ part' = [part EXCEPT ![p] = Holding(@.lines \o out.file)]
           /\ job' = [job EXCEPT ![p] =
                [phase |-> IF boundary THEN "cursor"
                           ELSE IF total >= Target(p) THEN "tail" ELSE "pull",
                 at |-> i, buffer |-> out.buffer]]
    /\ UNCHANGED <<source, window, sharder, cursor, raw, marker, parts, manifest,
                   launches, pulled>>

\* The rows are exhausted or the target is met: the last flush.
LastFlush(p) ==
    /\ source.puller = "stream"
    /\ \/ job[p].phase = "tail"
       \/ job[p].phase = "pull" /\ job[p].at >= Len(source.items)
    /\ part' = [part EXCEPT ![p] = Holding(@.lines \o job[p].buffer)]
    /\ job' = [job EXCEPT ![p].phase = "last", ![p].buffer = << >>]
    /\ UNCHANGED <<source, window, sharder, cursor, raw, marker, parts, manifest,
                   launches, pulled>>

\* _write_scanned: written aside and renamed, so never torn.
SaveCursorAtTheEnd(p) ==
    /\ job[p].phase \in {"cursor", "last"}
    /\ cursor' = [cursor EXCEPT ![p] = IF job[p].phase = "last" THEN job[p].at ELSE @]
    /\ Goto(p, IF job[p].phase = "last" THEN "rename"
               ELSE IF Written(p) >= Target(p) THEN "tail" ELSE "pull")
    /\ UNCHANGED <<source, window, sharder, part, raw, marker, parts, manifest,
                   launches, pulled>>
SaveCursor(p) ==
    /\ job[p].phase \in {"cursor", "last"}
    /\ cursor' = [cursor EXCEPT ![p] = job[p].at]
    /\ Goto(p, IF job[p].phase = "last" THEN "rename"
               ELSE IF Written(p) >= Target(p) THEN "tail" ELSE "pull")
    /\ UNCHANGED <<source, window, sharder, part, raw, marker, parts, manifest,
                   launches, pulled>>

\* The files of proof-pile's configurations, in order.
ListedFiles ==
    FlattenSeq([c \in DOMAIN source.configs |->
        [f \in DOMAIN source.configs[c] |-> <<c, f>>]])

\* One file, cut at its configuration's quota and wherever reading failed.
ReadFile(p) ==
    /\ job[p].phase = "pull" /\ source.puller = "listing"
    /\ job[p].at < Len(ListedFiles)
    /\ LET file == ListedFiles[job[p].at + 1]
           docs == DocsOf(file, source.configs[file[1]][file[2]])
           taken == SelectSeq(part[p].lines, LAMBDA d : d[1][1] = file[1])
           left == ConfigQuotas(Target(p), source.weights)[file[1]] - Len(taken)
       IN  \E n \in 0 .. Len(docs) :
            part' = [part EXCEPT ![p].lines =
                        @ \o SubSeq(docs, 1, IF n < left THEN n ELSE left)]
    /\ job' = [job EXCEPT ![p].at = @ + 1]
    /\ UNCHANGED <<source, window, sharder, cursor, raw, marker, parts, manifest,
                   launches, pulled>>

EndListing(p) ==
    /\ job[p].phase = "pull" /\ source.puller = "listing"
    /\ job[p].at = Len(ListedFiles)
    /\ Goto(p, "rename")
    /\ UNCHANGED <<source, window, sharder, durable, launches, pulled>>

-----------------------------------------------------------------------------
(* The ordered window: fetches land in any order, lines go out in order.   *)
(* outcome is indexed by submission; inflight is fut_to_idx.               *)

\* The executor starts fetches in submission order.
Running(p) ==
    {i \in window[p].inflight :
        /\ ~window[p].outcome[i].landed
        /\ Cardinality({j \in window[p].inflight :
                            j < i /\ ~window[p].outcome[j].landed}) < Concurrency}

\* The contiguous results that can be written, cut at the target.
DrainAnyResult(p, pending) ==
    [write |-> window[p].write + Cardinality(pending),
     docs |-> FlattenSeq([n \in 1 .. Cardinality(pending) |->
                window[p].outcome[SetToSortSeq(pending, <)[n]].docs])]
Drain(p, pending) ==
    LET ready == {i \in pending : window[p].write .. i \subseteq pending}
        lines == FlattenSeq([n \in 1 .. Cardinality(ready) |->
                                window[p].outcome[window[p].write + n - 1].docs])
    IN  [write |-> window[p].write + Cardinality(ready), docs |-> lines]

\* harvest() and drain_pending(); the pull ends at the target.
HarvestAndDrain(p, done, otherwise) ==
    LET pending == window[p].pending \cup done
        drained == Drain(p, pending)
        lines == part[p].lines \o drained.docs
    IN  /\ window' = [window EXCEPT ![p].inflight = @ \ done,
                        ![p].pending = {i \in pending : i >= drained.write},
                        ![p].write = drained.write]
        /\ part' = [part EXCEPT ![p].lines =
                        SubSeq(lines, 1, IF Len(lines) < Target(p) THEN Len(lines)
                                         ELSE Target(p))]
        /\ Goto(p, IF Len(lines) >= Target(p) THEN "rename" ELSE otherwise)

Submit(p) ==
    /\ job[p].phase = "pull" /\ Windowed
    /\ Len(window[p].outcome) < Len(Work(p))
    /\ Cardinality(window[p].inflight) < MaxInflight
    /\ window' = [window EXCEPT ![p].outcome = Append(@, Flying),
                                ![p].inflight = @ \cup {Len(window[p].outcome) + 1}]
    /\ UNCHANGED <<source, job, sharder, durable, launches, pulled>>

\* A fetch ends: with all its documents, with those read before an error
\* (a file) or with none (a blob).
Land(p, i) ==
    /\ i \in Running(p)
    /\ \E n \in 0 .. Len(Work(p)[i]) :
        window' = [window EXCEPT ![p].outcome[i] = Landed(SubSeq(Work(p)[i], 1, n))]
    /\ UNCHANGED <<source, job, sharder, durable, launches, pulled>>

LandedOf(p) == {i \in window[p].inflight : window[p].outcome[i].landed}

\* The window is full: wait(FIRST_COMPLETED).
Harvest(p) ==
    /\ job[p].phase = "pull" /\ Windowed
    /\ Cardinality(window[p].inflight) = MaxInflight
    /\ LandedOf(p) # {}
    /\ HarvestAndDrain(p, LandedOf(p), "pull")
    /\ UNCHANGED <<source, sharder, cursor, raw, marker, parts, manifest, launches, pulled>>

EndSubmitting(p) ==
    /\ job[p].phase = "pull" /\ Windowed
    /\ Len(window[p].outcome) = Len(Work(p))
    /\ Cardinality(window[p].inflight) < MaxInflight
    /\ Goto(p, IF window[p].inflight = {} THEN "rename" ELSE "tail")
    /\ UNCHANGED <<source, window, sharder, durable, launches, pulled>>

\* as_completed over what is left, one result at a time.
HarvestTail(p) ==
    /\ job[p].phase = "tail" /\ Windowed
    /\ \E i \in LandedOf(p) :
        HarvestAndDrain(p, {i}, IF window[p].inflight = {i} THEN "rename" ELSE "tail")
    /\ UNCHANGED <<source, sharder, cursor, raw, marker, parts, manifest, launches, pulled>>

-----------------------------------------------------------------------------
(* Raw file *)

Rename(p) ==
    /\ job[p].phase = "rename"
    /\ raw' = [raw EXCEPT ![p] = part[p]]
    /\ part' = [part EXCEPT ![p] = Missing]
    /\ pulled' = [pulled EXCEPT ![p] = part[p].lines]
    /\ window' = [window EXCEPT ![p] = NoWindow]
    /\ Goto(p, "unlink")
    /\ UNCHANGED <<source, sharder, cursor, marker, parts, manifest, launches>>

DropCursor(p) ==
    /\ job[p].phase = "unlink"
    /\ cursor' = [cursor EXCEPT ![p] = 0]
    /\ Goto(p, AfterRaw(p, marker[p]))
    /\ UNCHANGED <<source, window, sharder, part, raw, marker, parts, manifest,
                   launches, pulled>>

\* shuffle_jsonl works aside and replaces the file at the end; the marker that
\* stops a second shuffle is written afterwards.
Shuffle(p) ==
    /\ job[p].phase = "shuffle"
    /\ raw' = [raw EXCEPT ![p].lines = Shuffled(@)]
    /\ Goto(p, "mark")
    /\ UNCHANGED <<source, window, sharder, part, cursor, marker, parts, manifest,
                   launches, pulled>>

MarkShuffled(p) ==
    /\ job[p].phase = "mark"
    /\ marker' = [marker EXCEPT ![p] = TRUE]
    /\ Goto(p, "shard")
    /\ UNCHANGED <<source, window, sharder, part, cursor, raw, parts, manifest,
                   launches, pulled>>

-----------------------------------------------------------------------------
(* Sharding: prepare_data shard, as one process or several *)

StartSharding(p) ==
    /\ job[p].phase = "shard"
    /\ sharder' = [sharder EXCEPT ![p] = [k \in Workers |-> "run"]]
    /\ Goto(p, "join")
    /\ UNCHANGED <<source, window, durable, launches, pulled>>

\* A single process of a single pod writes manifest.yaml itself.
WriteList(p, k, list) ==
    IF source.pods = 1 /\ source.workers = 1
    THEN manifest' = list /\ UNCHANGED parts
    ELSE parts' = [parts EXCEPT ![p][k] = list] /\ UNCHANGED manifest

OwnShards(p, k) == ShardsOf(Segment(raw[p].lines, k - 1, source.workers))

\* The shards are closed, then the manifest is written in place: it exists
\* before it is whole.
BeginList(p, k) ==
    /\ sharder[p][k] = "run"
    /\ \E shards \in {OwnShards(p, k)} : \E n \in 0 .. Len(shards) :
        /\ n > 0 => n < Len(shards)
        /\ WriteList(p, k, Listing(SubSeq(shards, 1, n), FALSE))
    /\ sharder' = [sharder EXCEPT ![p][k] = "list"]
    /\ UNCHANGED <<source, job, window, part, cursor, raw, marker, launches, pulled>>

EndList(p, k) ==
    /\ sharder[p][k] = "list"
    /\ WriteList(p, k, Listing(OwnShards(p, k), TRUE))
    /\ sharder' = [sharder EXCEPT ![p][k] = "ok"]
    /\ UNCHANGED <<source, job, window, part, cursor, raw, marker, launches, pulled>>

\* A worker process exits non-zero; not in the last attempt.
FailWorker(p, k) ==
    /\ sharder[p][k] \in {"run", "list"}
    /\ launches[p] < MaxLaunches
    /\ sharder' = [sharder EXCEPT ![p][k] = "failed"]
    /\ UNCHANGED <<source, job, window, durable, launches, pulled>>

\* Every worker is awaited before a failure of any of them is raised.
JoinAtTheFirstFailure(p) ==
    /\ job[p].phase = "join"
    /\ \E k \in Workers : sharder[p][k] = "failed"
    /\ job' = [job EXCEPT ![p] = Idle]
    /\ UNCHANGED <<source, window, sharder, durable, launches, pulled>>
JoinWhenAllSucceed(p) ==
    /\ job[p].phase = "join"
    /\ \A k \in Workers : sharder[p][k] = "ok"
    /\ sharder' = [sharder EXCEPT ![p] = [k \in Workers |-> "idle"]]
    /\ Goto(p, IF source.workers > 1 THEN "merge" ELSE "cleanup")
    /\ UNCHANGED <<source, window, durable, launches, pulled>>
Join(p) ==
    /\ job[p].phase = "join"
    /\ \A k \in Workers : sharder[p][k] \in {"ok", "failed"}
    /\ sharder' = [sharder EXCEPT ![p] = [k \in Workers |-> "idle"]]
    /\ job' = [job EXCEPT ![p] =
        IF \E k \in Workers : sharder[p][k] = "failed" THEN Idle
        ELSE [@ EXCEPT !.phase = IF source.workers > 1 THEN "merge" ELSE "cleanup"]]
    /\ UNCHANGED <<source, window, durable, launches, pulled>>

\* The lists concatenated in worker order.
Merged(lists) ==
    Listing(FlattenSeq([k \in DOMAIN lists |-> lists[k].shards]),
            \A k \in DOMAIN lists : lists[k].whole)

\* _merge_worker_manifests, written in place like the others.
Merge(p) ==
    /\ job[p].phase = "merge"
    /\ manifest' = Listing(<< >>, FALSE)
    /\ Goto(p, "seal")
    /\ UNCHANGED <<source, window, sharder, part, cursor, raw, marker, parts, launches, pulled>>

Seal(p) ==
    /\ job[p].phase = "seal"
    /\ manifest' = Merged(parts[p])
    /\ Goto(p, "cleanup")
    /\ UNCHANGED <<source, window, sharder, part, cursor, raw, marker, parts, launches, pulled>>

CleanUp(p) ==
    /\ job[p].phase = "cleanup"
    /\ raw' = [raw EXCEPT ![p] = IF source.deleteRaw THEN Missing ELSE @]
    /\ Goto(p, "done")
    /\ UNCHANGED <<source, window, sharder, part, cursor, marker, parts, manifest,
                   launches, pulled>>

\* prepare_data merge-manifests over the pods' lists, run by an operator who
\* passes --expected-workers.
MergeWithoutCounting ==
    /\ source.pods > 1 /\ ~manifest.there
    /\ \E p \in Pods : parts[p][1].there
    /\ manifest' = Merged(SelectSeq([p \in Pods |-> parts[p][1]], LAMBDA l : l.there))
    /\ UNCHANGED <<source, job, window, sharder, part, cursor, raw, marker, parts,
                   launches, pulled>>
MergeManifests ==
    /\ source.pods > 1 /\ ~manifest.there
    /\ \A p \in Pods : parts[p][1].there
    /\ manifest' = Merged([p \in Pods |-> parts[p][1]])
    /\ UNCHANGED <<source, job, window, sharder, part, cursor, raw, marker, parts,
                   launches, pulled>>

-----------------------------------------------------------------------------
PodStep(p) ==
    \/ OpenPart(p) \/ ReadRow(p) \/ LastFlush(p) \/ SaveCursor(p)
    \/ ReadFile(p) \/ EndListing(p)
    \/ Submit(p) \/ Harvest(p) \/ EndSubmitting(p) \/ HarvestTail(p)
    \/ Rename(p) \/ DropCursor(p) \/ Shuffle(p) \/ MarkShuffled(p)
    \/ StartSharding(p) \/ Join(p) \/ Merge(p) \/ Seal(p) \/ CleanUp(p)
FetchStep(p) == \E i \in window[p].inflight : Land(p, i)
SharderStep(p) == \E k \in Workers : BeginList(p, k) \/ EndList(p, k)

Next ==
    \/ \E p \in Pods : \/ Launch(p) \/ Die(p) \/ PodStep(p) \/ FetchStep(p)
                       \/ SharderStep(p)
                       \/ \E k \in Workers : FailWorker(p, k)
    \/ MergeManifests

Spec == Init /\ [][Next]_vars

\* A pod keeps executing, fetches and child processes end, and the Job's
\* backoffLimit starts a failed pod again.
MaxPods == CHOOSE m \in {s.pods : s \in Sources} : \A s \in Sources : s.pods <= m
FairSpec ==
    /\ Spec
    /\ \A p \in 1 .. MaxPods :
        /\ WF_vars(p \in Pods /\ PodStep(p))
        /\ WF_vars(p \in Pods /\ FetchStep(p))
        /\ WF_vars(p \in Pods /\ SharderStep(p))
        /\ WF_vars(p \in Pods /\ Launch(p))
    /\ WF_vars(MergeManifests)
=============================================================================
