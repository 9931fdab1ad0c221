---------------------------- MODULE AuditFetchMC ----------------------------
(***************************************************************************)
(* Properties of AuditFetch and a small run for TLC: two sources, three    *)
(* shards, intervals that touch only some of them.                         *)
(***************************************************************************)
EXTENDS AuditFetch

MCShards(s) == IF s = "a" THEN <<<<2, 2>>, <<5>>>> ELSE <<<<3>>>>
MCShardOrder(s, e) == IF s = "b" THEN <<1>> ELSE IF e = 0 THEN <<1, 2>> ELSE <<2, 1>>
MCDocOrder(s, e, k) ==
    IF s = "a" /\ k = 1 THEN (IF e = 1 THEN <<1, 2>> ELSE <<2, 1>>) ELSE <<1>>
MCDraw(n) == IF n % 3 = 0 THEN "b" ELSE "a"

-----------------------------------------------------------------------------
\* What the phases of a fetch rely on: placeholders are made only once every
\* touched shard has its payload, and a finished fetch leaves no shard out.
AuditFetchTypeOK ==
    /\ \A sh \in AllShards : idx[sh] \in {"absent", "good", "bad", "stale"}
    /\ \A sh \in AllShards : bin[sh] \in {"absent", "good", "bad", "stub", "empty"}
    /\ At("stubs") => \A sh \in job.touched : bin[sh] # "absent"
    /\ done # {} => \A sh \in AllShards : idx[sh] # "absent" /\ manifest[sh[1]] # "none"

\* The interval's tokens, from the run itself: its windows and what it carries
\* on, without what it was handed.
CarryAt(step) == IF step = 0 THEN << >> ELSE ckpts[step].stream.carry
Covered(i) ==
    SelectSeq(trained, LAMBDA w :
        w.step >= i.from /\
        (IF i.stop.kind = "step" THEN w.step < i.stop.at
         ELSE w.step = i.from \/ ckpts[w.step].consumed < i.stop.at))
TokensFetched(i) ==
    LET windows == Covered(i)
        last == windows[Len(windows)].step + 1
        tokens == FlattenSeq([k \in DOMAIN windows |-> windows[k].tokens]) \o CarryAt(last)
    IN  SubSeq(tokens, Len(CarryAt(i.from)) + 1, Len(tokens))

\* "Download exactly the shards the audit interval starting at checkpoint
\* consumes": the index-only walk names the shards of the documents the
\* cluster drew in the interval, and no other, for a fetch that verified the
\* indices or found none stale.
FetchTouchesWhatTheRunDrew ==
    \A i \in done : i.verified \/ IndicesAreTheRuns =>
        i.touched = {ShardOf(t[1]) : t \in {u \in Range(TokensFetched(i)) : u # Eos}}

\* "A shard that becomes touched on a later run always gets real bytes": once
\* a fetch has verified an interval, whatever ran in the directory before or
\* since, every window a replay of it reads is the cluster's, and so is the
\* stream position the replay hands on.
ReplayReadsWhatTheRunTrained ==
    /\ tool = "replay" /\ job.verified /\ got # Nothing =>
           got.tokens = trained[got.window + 1].tokens
    /\ tool = "none" /\ got # Nothing /\ got.verified =>
           "carry" \in DOMAIN got /\ got.carry = CarryAt(got.step)

\* The doc map's rows give every token of every window walked, once and in
\* order, to the micro-batch, slot and rank that trained it, and its files
\* cover the steps without gap or overlap; and a walk from step 0 to a
\* checkpoint's step stands at that checkpoint's stream position, so the gate
\* before the files never rejects an honest run.
Attributed(row, w) ==
    /\ row.step = w.step /\ row.microbatch = w.microbatch /\ row.slot = w.slot
    /\ row.rank = w.microbatch % map.world
EveryTokenAttributed ==
    "until" \in DOMAIN map =>
        LET rows == FlattenSeq([i \in DOMAIN map.files |-> map.files[i].rows])
            of(n) == SelectSeq(rows, LAMBDA row : row.window = n - 1)
        IN  /\ map.gate
            /\ \A n \in DOMAIN trained :
                LET mine == of(n) IN
                IF trained[n].step \in map.first .. map.until - 1
                THEN /\ \A i \in DOMAIN mine :
                           Attributed(mine[i], trained[n]) /\ mine[i].frag = i - 1
                     /\ FlattenSeq([i \in DOMAIN mine |->
                            TokensOf(mine[i].doc, mine[i].from, mine[i].to - mine[i].from)])
                        = SelectSeq(trained[n].tokens, LAMBDA t : t # Eos)
                ELSE mine = << >>
            /\ \A i \in DOMAIN map.files :
                map.files[i].first = IF i = 1 THEN map.first ELSE map.files[i - 1].last + 1
            /\ map.files # << >> => map.files[Len(map.files)].last = map.until - 1
=============================================================================
