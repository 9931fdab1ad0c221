----------------------------- MODULE AuditFetch -----------------------------
(***************************************************************************)
(* The offline tools that re-walk the canonical stream of a run:           *)
(* fetch_interval.py downloads the shards an audit interval consumes,      *)
(* audit_replay.py reads them through the loader of one of its virtual     *)
(* ranks, and dump_doc_map.py attributes the run's tokens to documents.    *)
(*                                                                         *)
(* The cluster's run comes first: nothing it does depends on the tools.    *)
(* One download directory then serves fetches of several intervals, with   *)
(* and without hash checks, from a mirror whose objects may be damaged,    *)
(* and a fetch may be killed between any two of its steps.                 *)
(***************************************************************************)
EXTENDS DocMap, TLC

CONSTANTS
    MaxSteps,          \* bound: optimizer steps of the run
    CkptEvery,         \* its ckpt_every_steps
    CkptEveryTokens,   \* its ckpt_every_tokens, for a token-based interval
    WorldSizes,        \* data-parallel degrees replayed and dumped
    Fetches,           \* bound: fetches into the directory
    Faults             \* bound: changes of the mirror

ASSUME AuditFetchAssumption ==
    /\ {CkptEvery, CkptEveryTokens, MaxSteps} \subseteq Nat \ {0}
    /\ MaxSteps % CkptEvery = 0
    /\ WorldSizes \subseteq Nat \ {0} /\ {Fetches, Faults} \subseteq Nat

VARIABLES
    view,      \* the view being walked, by the cluster or a tool
    tool,      \* who walks: cluster, fetch, replay, docmap or none
    job,       \* that tool's arguments and progress
    ckpts,     \* published: step |-> global_stream.json and consumed tokens
    trained,   \* every window of the run, with its place in its step (bookkeeping)
    damaged,   \* objects of the mirror that differ from the manifest's hashes
    manifest,  \* local, per source: none, as mirrored, or rewritten to stems
    idx, bin,  \* local, per shard: absent, good or bad; an index also stale
               \* (well-formed, of another shard's content), a bin stub or empty
    part,      \* the staged .part of a download, "none" without one
    done,      \* intervals whose fetch ended, and whether it verified hashes
    got,       \* the window a replay read last
    map,       \* what the doc map wrote
    left       \* fetches and faults still allowed

directory == <<manifest, idx, bin, part, done>>
run == <<ckpts, trained>>
vars == <<view, tool, job, run, damaged, directory, got, map, left>>

Listing(s) == DOMAIN Shards(s)
AllShards == UNION {{<<s, k>> : k \in Listing(s)} : s \in Names}
SourceList == SetToSeq(Names)
ShardOf(doc) == <<doc[1], doc[2]>>

NoJob == [phase |-> "idle"]
Nothing == [window |-> -1, tokens |-> << >>]

Init ==
    /\ view = FreshView /\ tool = "cluster" /\ job = NoJob
    /\ ckpts = << >> /\ trained = << >> /\ damaged = {}
    /\ manifest = [s \in Names |-> "none"]
    /\ idx = [sh \in AllShards |-> "absent"] /\ bin = idx
    /\ part = "none" /\ done = {} /\ got = Nothing /\ map = NoMap
    /\ left = [fetches |-> Fetches, faults |-> Faults]

-----------------------------------------------------------------------------
(* Walking the stream: the cursor all tools share *)

\* An interval starts at a step with a checkpoint, or at the origin, and stops
\* at a step or once a token count is reached.
Stop(kind, at) == [kind |-> kind, at |-> at]
WalkDone(stop) ==
    IF stop.kind = "step" THEN view.step >= stop.at ELSE view.clock >= stop.at
RunStop == Stop("step", MaxSteps)
CurrentStop == IF tool = "cluster" THEN RunStop ELSE job.stop

ViewAt(from) ==
    IF from = 0 THEN FreshView
    ELSE ViewFrom(ckpts[from].stream, from, ckpts[from].consumed)

\* enumerate_touched_shards' index-only view.
FetchViewWithoutClock(from) == [ViewAt(from) EXCEPT !.clock = 0]
FetchView(from) == ViewAt(from)

Walking == tool = "cluster" \/ job.phase = "walk"
StepLeft == view.walked < StepWindows(view.clock)

\* _refill: a fetch collects the document's shard.
WalkRefill ==
    /\ Walking /\ ~WalkDone(CurrentStop) /\ StepLeft
    /\ BufLen(view) < Target
    /\ view' = Refilled(view)
    /\ job' = IF tool = "fetch"
              THEN [job EXCEPT !.touched = @ \cup {ShardOf(NextDoc(view))}] ELSE job
    /\ UNCHANGED <<tool, run, damaged, directory, got, map, left>>

\* Tokens as the local directory holds them: a placeholder reads as zeros.
OnDisk(tokens) ==
    [i \in DOMAIN tokens |->
        IF tokens[i] = Eos \/ bin[ShardOf(tokens[i][1])] = "good" THEN tokens[i]
        ELSE <<"zero">>]
\* Literal tokens come from the checkpoint and not from a shard.
ReadFrom(segment, from, to) ==
    LET tokens == Payload(segment, from, to)
    IN  IF segment.kind = "doc" THEN OnDisk(tokens) ELSE tokens
ReadWindow ==
    LET cut == Fragments(view)
    IN  FlattenSeq([i \in DOMAIN cut |-> ReadFrom(cut[i].seg, cut[i].from, cut[i].to)])
ReadBuffer ==
    FlattenSeq([i \in DOMAIN view.segs |->
        ReadFrom(view.segs[i], IF i = 1 THEN view.off ELSE 0, view.segs[i].len)])

\* _take_window: the cluster trains the window, a replay reads it if its rank
\* owns it, the doc map notes its fragments.
WalkWindow ==
    /\ Walking /\ ~WalkDone(CurrentStop) /\ StepLeft
    /\ BufLen(view) >= Target
    /\ view' = Taken(view)
    /\ trained' = IF tool = "cluster"
                  THEN Append(trained, [tokens |-> Window(view), step |-> view.step,
                                        microbatch |-> view.walked \div MicroBatch,
                                        slot |-> view.walked % MicroBatch])
                  ELSE trained
    /\ got' = IF tool = "replay" /\ Owns(view, job.rank, job.world)
              THEN [window |-> view.emitted, tokens |-> ReadWindow] ELSE got
    /\ job' = IF tool = "docmap" THEN [job EXCEPT !.spans = @ \o Spans(view)] ELSE job
    /\ UNCHANGED <<tool, ckpts, damaged, directory, map, left>>

\* The step's windows are walked: the next plan.
WalkStep ==
    /\ Walking /\ ~WalkDone(CurrentStop) /\ ~StepLeft
    /\ view' = NextPlan(view)
    /\ ckpts' = IF tool = "cluster" /\ (view.step + 1) % CkptEvery = 0
                THEN ckpts @@ (view.step + 1 :>
                        [stream |-> StateOf(view), consumed |-> view'.clock])
                ELSE ckpts
    /\ IF tool = "docmap"
       THEN /\ map' = WithStep(map, view.step,
                        StepRows(job.spans, view.step, view.emitted - view.walked, job.world))
            /\ job' = [job EXCEPT !.spans = << >>]
       ELSE UNCHANGED <<map, job>>
    /\ UNCHANGED <<tool, trained, damaged, directory, got, left>>

EndRun ==
    /\ tool = "cluster" /\ WalkDone(RunStop)
    /\ tool' = "none"
    /\ UNCHANGED <<view, job, run, damaged, directory, got, map, left>>

-----------------------------------------------------------------------------
(* fetch_audit_interval *)

\* The mirror's objects are replaced behind the fetcher's back (a change while
\* no fetch runs is a change at its start).
MirrorChanges ==
    /\ tool = "fetch" /\ left.faults > 0
    /\ \E object \in AllShards \X {"idx", "bin"} :
        damaged' = (damaged \ {object}) \cup ({object} \ damaged)
    /\ left' = [left EXCEPT !.faults = @ - 1]
    /\ UNCHANGED <<view, tool, job, run, directory, got, map>>
\* A damaged index may be malformed, or another shard's and well-formed.
OnMirror(sh, kind) ==
    IF <<sh, kind>> \notin damaged THEN {"good"}
    ELSE IF kind = "idx" THEN {"bad", "stale"} ELSE {"bad"}

\* The interval after a checkpoint, up to a step or for a token interval, or
\* from the origin to the checkpoint's step (from_init).
Intervals ==
    {[from |-> 0, stop |-> Stop("step", c)] : c \in DOMAIN ckpts}
    \cup {[from |-> c, stop |-> Stop("step", c + CkptEvery)] : c \in DOMAIN ckpts}
    \cup {[from |-> c, stop |-> Stop("tokens", ckpts[c].consumed + CkptEveryTokens)] :
            c \in DOMAIN ckpts}
\* Bound: intervals that end within the run.
Ended(i) ==
    i.stop.at <= (IF i.stop.kind = "step" THEN MaxSteps ELSE ckpts[MaxSteps].consumed)

StartFetch ==
    /\ tool = "none" /\ left.fetches > 0
    /\ tool' = "fetch" /\ left' = [left EXCEPT !.fetches = @ - 1]
    /\ \E i \in {x \in Intervals : Ended(x)}, verify \in BOOLEAN :
        job' = [phase |-> "manifest", from |-> i.from, stop |-> i.stop, verify |-> verify,
                source |-> 1, shard |-> 1, touched |-> {}, todo |-> {}]
    /\ got' = Nothing
    /\ UNCHANGED <<view, run, damaged, directory, map>>

Source == SourceList[job.source]
Shard == <<Source, job.shard>>
At(phase) == tool = "fetch" /\ job.phase = phase
Quit == tool' = "none" /\ job' = NoJob /\ part' = "none" /\ view' = FreshView
Rest == <<run, damaged, got, map, left>>

\* download: a sibling .part is written, then renamed.
Stage(quality) == part = "none" /\ part' = quality

FetchManifest ==
    /\ At("manifest")
    /\ manifest' = [manifest EXCEPT ![Source] = "mirrored"]
    /\ job' = [job EXCEPT !.phase = "indices", !.shard = 1]
    /\ UNCHANGED <<view, tool, idx, bin, part, done>> /\ UNCHANGED Rest

StageIndex ==
    /\ At("indices") /\ job.shard \in Listing(Source) /\ idx[Shard] = "absent"
    /\ \E quality \in OnMirror(Shard, "idx") : Stage(quality)
    /\ UNCHANGED <<view, tool, job, manifest, idx, bin, done>> /\ UNCHANGED Rest
LandIndex ==
    /\ At("indices") /\ part # "none"
    /\ idx' = [idx EXCEPT ![Shard] = part] /\ part' = "none"
    /\ UNCHANGED <<view, tool, job, manifest, bin, done>> /\ UNCHANGED Rest
CheckIndex ==
    /\ At("indices") /\ job.shard \in Listing(Source) /\ idx[Shard] # "absent"
    /\ IF job.verify /\ idx[Shard] # "good" THEN Quit
       ELSE job' = [job EXCEPT !.shard = @ + 1] /\ UNCHANGED <<view, tool, part>>
    /\ UNCHANGED <<manifest, idx, bin, done>> /\ UNCHANGED Rest

\* _read_header checks an index's magic and version and nothing else.
IndicesOpen == \A sh \in AllShards : idx[sh] \in {"good", "stale"}
IndicesAreTheRuns == \A sh \in AllShards : idx[sh] = "good"

\* The manifest with local stems; after the last source the walk begins.  It
\* goes by the lengths the indices give: with a stale one, astray.
SaveManifest ==
    /\ At("indices") /\ job.shard \notin Listing(Source)
    /\ manifest' = [manifest EXCEPT ![Source] = "local"]
    /\ IF job.source < Len(SourceList)
       THEN /\ job' = [job EXCEPT !.phase = "manifest", !.source = @ + 1]
            /\ UNCHANGED <<view, tool, part>>
       ELSE IF ~IndicesOpen THEN Quit
       ELSE IF ~IndicesAreTheRuns
       THEN job' = [job EXCEPT !.phase = "astray"] /\ UNCHANGED <<view, tool, part>>
       ELSE /\ job' = [job EXCEPT !.phase = "walk"] /\ view' = FetchView(job.from)
            /\ UNCHANGED <<tool, part>>
    /\ UNCHANGED <<idx, bin, done>> /\ UNCHANGED Rest

\* Other lengths: the walk may name any shards (or raise, as KillFetch does).
FetchAstray ==
    /\ At("astray")
    /\ \E touched \in SUBSET AllShards :
        job' = [job EXCEPT !.phase = "bins", !.touched = touched, !.todo = touched]
    /\ UNCHANGED <<view, tool, directory>> /\ UNCHANGED Rest
EndWalk ==
    /\ At("walk") /\ WalkDone(job.stop)
    /\ job' = [job EXCEPT !.phase = "bins", !.todo = job.touched]
    /\ view' = FreshView
    /\ UNCHANGED <<tool, directory>> /\ UNCHANGED Rest

\* _fetch_bins, a shard at a time.
Payee == CHOOSE sh \in job.todo : TRUE
Rejects(quality) == job.verify /\ quality # "good"
KeepMissingBin ==
    /\ At("bins") /\ job.todo # {} /\ ~Rejects(bin[Payee])
    /\ job' = [job EXCEPT !.todo = @ \ {Payee}]
    /\ UNCHANGED <<view, tool, directory>> /\ UNCHANGED Rest
KeepAnyBin ==
    /\ At("bins") /\ job.todo # {} /\ bin[Payee] # "absent"
    /\ job' = [job EXCEPT !.todo = @ \ {Payee}]
    /\ UNCHANGED <<view, tool, directory>> /\ UNCHANGED Rest
KeepBin ==
    /\ At("bins") /\ job.todo # {} /\ bin[Payee] # "absent" /\ ~Rejects(bin[Payee])
    /\ job' = [job EXCEPT !.todo = @ \ {Payee}]
    /\ UNCHANGED <<view, tool, directory>> /\ UNCHANGED Rest
DropBin ==
    /\ At("bins") /\ job.todo # {} /\ bin[Payee] # "absent" /\ Rejects(bin[Payee])
    /\ bin' = [bin EXCEPT ![Payee] = "absent"]
    /\ UNCHANGED <<view, tool, job, manifest, idx, part, done>> /\ UNCHANGED Rest
StageBin ==
    /\ At("bins") /\ job.todo # {} /\ bin[Payee] = "absent"
    /\ \E quality \in OnMirror(Payee, "bin") : Stage(quality)
    /\ UNCHANGED <<view, tool, job, manifest, idx, bin, done>> /\ UNCHANGED Rest
LandBin ==
    /\ At("bins") /\ part # "none"
    /\ bin' = [bin EXCEPT ![Payee] = part]
    /\ IF Rejects(part) THEN Quit
       ELSE /\ job' = [job EXCEPT !.todo = @ \ {Payee}] /\ part' = "none"
            /\ UNCHANGED <<view, tool>>
    /\ UNCHANGED <<manifest, idx, done>> /\ UNCHANGED Rest

EndBins ==
    /\ At("bins") /\ job.todo = {}
    /\ job' = [job EXCEPT !.phase = "stubs", !.todo = AllShards \ job.touched]
    /\ UNCHANGED <<view, tool, directory>> /\ UNCHANGED Rest

\* _stub_untouched_bins: the file is created, then given the size its index
\* asks for, which may be none if the index is stale.
PassOver ==
    /\ At("stubs") /\ job.todo # {} /\ bin[Payee] # "absent" /\ part = "none"
    /\ job' = [job EXCEPT !.todo = @ \ {Payee}]
    /\ UNCHANGED <<view, tool, directory>> /\ UNCHANGED Rest
CreateStub ==
    /\ At("stubs") /\ job.todo # {} /\ bin[Payee] = "absent"
    /\ bin' = [bin EXCEPT ![Payee] = "empty"] /\ part' = "sizing"
    /\ UNCHANGED <<view, tool, job, manifest, idx, done>> /\ UNCHANGED Rest
SizeStub ==
    /\ At("stubs") /\ part = "sizing"
    /\ \E size \in IF idx[Payee] = "stale" THEN {"stub", "empty"} ELSE {"stub"} :
        bin' = [bin EXCEPT ![Payee] = size]
    /\ part' = "none"
    /\ job' = [job EXCEPT !.todo = @ \ {Payee}]
    /\ UNCHANGED <<view, tool, manifest, idx, done>> /\ UNCHANGED Rest

EndFetch ==
    /\ At("stubs") /\ job.todo = {}
    /\ done' = done \cup {[from |-> job.from, stop |-> job.stop,
                           verified |-> job.verify, touched |-> job.touched]}
    /\ Quit
    /\ UNCHANGED <<manifest, idx, bin>> /\ UNCHANGED Rest

\* The process dies between two steps; the next fetch starts over.
KillFetch ==
    /\ tool = "fetch" /\ Quit
    /\ UNCHANGED <<manifest, idx, bin, done>> /\ UNCHANGED Rest

FetchStep ==
    \/ StartFetch \/ FetchManifest \/ StageIndex \/ LandIndex \/ CheckIndex
    \/ SaveManifest \/ FetchAstray \/ EndWalk \/ KeepBin \/ DropBin \/ StageBin \/ LandBin
    \/ EndBins \/ PassOver \/ CreateStub \/ SizeStub \/ EndFetch \/ KillFetch

-----------------------------------------------------------------------------
(* audit_replay's loader, and dump_doc_map *)

\* Every shard of every source must open, whether the interval reads it or not.
Opens ==
    /\ \A s \in Names : manifest[s] = "local"
    /\ IndicesOpen
    /\ \A sh \in AllShards : bin[sh] \notin {"absent", "empty"}

StartReplay ==
    /\ tool = "none" /\ Opens
    /\ \E i \in done, world \in WorldSizes : \E rank \in 0 .. world - 1 :
        /\ job' = [phase |-> IF IndicesAreTheRuns THEN "walk" ELSE "astray",
                   from |-> i.from, stop |-> i.stop,
                   verified |-> i.verified, world |-> world, rank |-> rank]
        /\ view' = IF IndicesAreTheRuns THEN ViewAt(i.from) ELSE FreshView
    /\ tool' = "replay" /\ got' = Nothing
    /\ UNCHANGED <<run, damaged, directory, map, left>>

\* A replay by a stale index reads and hands on tokens of no known place in
\* the stream, of which nothing is claimed.
ReplayAstray ==
    /\ tool = "replay" /\ job.phase = "astray"
    /\ tool' = "none" /\ job' = NoJob
    /\ got' = [window |-> -1, tokens |-> <<"other">>, verified |-> job.verified]
    /\ UNCHANGED <<view, run, damaged, directory, map, left>>

\* Virtual rank 0's buffer is what the hand-off checkpoint carries over.
EndReplay ==
    /\ tool = "replay" /\ job.phase = "walk" /\ WalkDone(job.stop)
    /\ tool' = "none" /\ job' = NoJob /\ view' = FreshView
    /\ got' = IF job.rank = 0
              THEN [window |-> view.emitted, carry |-> ReadBuffer, step |-> view.step,
                    verified |-> job.verified]
              ELSE Nothing
    /\ UNCHANGED <<run, damaged, directory, map, left>>

\* From step 0, or from a checkpoint that carries nothing over.
StartDocMap ==
    /\ tool = "none" /\ map = NoMap /\ left.fetches = Fetches
    /\ \E c \in DOMAIN ckpts, world \in WorldSizes, resumed \in BOOLEAN :
       \E until \in 1 .. MaxSteps :
        LET start == IF resumed THEN ViewAt(c) ELSE FreshView IN
        /\ resumed => until > c /\ ~HasCarryOver(start)
        /\ job' = [phase |-> "walk", stop |-> Stop("step", until), world |-> world,
                   spans |-> << >>, ckpt |-> c, resumed |-> resumed]
        /\ view' = start
    /\ tool' = "docmap"
    /\ UNCHANGED <<run, damaged, directory, got, map, left>>

EndDocMap ==
    /\ tool = "docmap" /\ WalkDone(job.stop)
    /\ tool' = "none"
    /\ map' = [files |-> FlushedMap(map).files, world |-> job.world,
               first |-> IF job.resumed THEN job.ckpt ELSE 0, until |-> job.stop.at,
               gate |-> IF job.stop.at = job.ckpt /\ ~job.resumed
                        THEN PositionMatches(view, ckpts[job.ckpt].stream) ELSE TRUE]
    /\ job' = NoJob /\ view' = FreshView
    /\ UNCHANGED <<run, damaged, directory, got, left>>

Next ==
    \/ WalkRefill \/ WalkWindow \/ WalkStep \/ EndRun
    \/ MirrorChanges \/ FetchStep
    \/ StartReplay \/ ReplayAstray \/ EndReplay \/ StartDocMap \/ EndDocMap

Spec == Init /\ [][Next]_vars
=============================================================================
