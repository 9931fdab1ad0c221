-------------------------- MODULE ReplicateReduce --------------------------
(***************************************************************************)
(* The deterministic cross-replica all-reduce of HSDP training             *)
(* (pretrain.parallel.deterministic_reduce) as the replicas run it: hooks  *)
(* during backward, one coalesced reduction per step (or one per module),  *)
(* each a fixed list of untagged point-to-point batches.                   *)
(***************************************************************************)
EXTENDS ReduceTree, FiniteSets

CONSTANT Groups   \* the replicate groups considered

\* capacity: messages the transport may buffer for an ordered pair.
ASSUME GroupsAssumption ==
    \A g \in Groups :
        /\ DOMAIN g = {"world", "bucketed", "modules", "steps", "capacity"}
        /\ g.world \in Nat \ {0} /\ g.bucketed \in BOOLEAN
        /\ g.modules \subseteq Nat /\ IsFiniteSet(g.modules)
        /\ {g.steps, g.capacity} \subseteq Nat

VARIABLES
    group,     \* the replicate group: its size, PRETRAIN_REPLICATE_BUCKET, the
               \* install indices of the wrapped modules and the bounds
    step,      \* per replica, the optimizer step it is in
    pc,        \* "backward", "reduce" or "update"
    grad,      \* the .grad buffers filled so far this step, by module
    pending,   \* the stash: install indices in the order they were inserted
    layout,    \* install indices coalesced in the buffer being reduced
    batch,     \* batches of the plan already waited for
    flat,      \* the staging buffer, one element per coalesced module
    inbox,     \* the receive buffer
    todo,      \* the current batch's operations not yet complete
    channel,   \* messages the transport has buffered, by <<from, to>>
    applied    \* history: the updates each replica's optimizer has applied

vars == <<group, step, pc, grad, pending, layout, batch, flat,
          inbox, todo, channel, applied>>

Replicas == 0 .. group.world - 1
Contribution(r, m, s) == Leaf(<<r, m, s>>)

-----------------------------------------------------------------------------
(* The plan of one reduction in a group of n: what replica r posts and    *)
(* waits for, in order.                                                   *)

Batch(to, from, how) == [to |-> to, from |-> from, how |-> how]

BlockOf(n, r) ==
    LET blocks == BinaryBlocks(n)
    IN  blocks[CHOOSE i \in DOMAIN blocks :
                  r \in blocks[i].start .. blocks[i].start + blocks[i].size - 1]

Ascending(S) == SetToSortSeq(S, <)
Descending(S) == SetToSortSeq(S, >)

\* The block-local partners of r, their local index differing in one bit.
Partners(n, r, masks) ==
    LET start == BlockOf(n, r).start
        local == r - start
    IN  [i \in DOMAIN masks |-> start +
            (IF (local \div masks[i]) % 2 = 0 THEN local + masks[i]
             ELSE local - masks[i])]

\* Faulty butterflies: the farthest partner first, or send before receive.
FarFirst(n, r) ==
    LET partners == Partners(n, r, Descending(PowersBelow(BlockOf(n, r).size)))
    IN  [i \in DOMAIN partners |-> Batch({partners[i]}, {partners[i]}, "add")]

SendThenReceive(n, r) ==
    LET partners == Partners(n, r, Ascending(PowersBelow(BlockOf(n, r).size)))
    IN  FlattenSeq([i \in DOMAIN partners |->
            <<Batch({partners[i]}, {}, "keep"), Batch({}, {partners[i]}, "add")>>])

\* Phase A: exchange whole buffers with every partner, the nearest first.
Butterfly(n, r) ==
    LET partners == Partners(n, r, Ascending(PowersBelow(BlockOf(n, r).size)))
    IN  [i \in DOMAIN partners |-> Batch({partners[i]}, {partners[i]}, "add")]

\* Phase B: the first rank of each later block hands its sum to rank 0.
Combine(n, r) ==
    LET later == Tail(BinaryBlocks(n)) IN
    IF r = 0 THEN [i \in DOMAIN later |-> Batch({}, {later[i].start}, "add")]
    ELSE IF r = BlockOf(n, r).start THEN <<Batch({0}, {}, "keep")>>
    ELSE << >>

\* The binomial tree of root 0.
Broadcast(n, r) ==
    LET bits == {p \in PowersBelow(n) : (r \div p) % 2 = 1}
        low == CHOOSE p \in bits : \A q \in bits : p <= q
        below == PowersBelow(IF r = 0 THEN n ELSE low)
        targets == Descending({p \in below : r + p < n})
        receive == IF r = 0 THEN << >> ELSE <<Batch({}, {r - low}, "replace")>>
    IN  receive \o [i \in DOMAIN targets |-> Batch({r + targets[i]}, {}, "keep")]

Plans ==
    [n \in {g.world : g \in Groups} |-> [r \in 0 .. n - 1 |->
        Butterfly(n, r) \o
        (IF Len(BinaryBlocks(n)) = 1 THEN << >>
         ELSE Combine(n, r) \o Broadcast(n, r))]]

Plan(r) == Plans[group.world][r]

Idle == Batch({}, {}, "keep")

-----------------------------------------------------------------------------
Init ==
    /\ group \in Groups
    /\ step = [r \in Replicas |-> 1]
    /\ pc = [r \in Replicas |-> "backward"]
    /\ grad = [r \in Replicas |-> << >>]
    /\ pending = [r \in Replicas |-> << >>]
    /\ layout = [r \in Replicas |-> << >>]
    /\ batch = [r \in Replicas |-> 0]
    /\ flat = [r \in Replicas |-> << >>]
    /\ inbox = [r \in Replicas |-> << >>]
    /\ todo = [r \in Replicas |-> Idle]
    /\ channel = [p \in Replicas \X Replicas |-> << >>]
    /\ applied = [r \in Replicas |-> << >>]

Fired(r) == DOMAIN grad[r]
Filled(r, m) ==
    [x \in Fired(r) \cup {m} |->
        IF x = m THEN Averaged(Contribution(r, m, step[r]), 1) ELSE grad[r][x]]

\* The stash is a dict: an index already present keeps its place.
Stashed(stash, m) == IF m \in {stash[i] : i \in DOMAIN stash} THEN stash ELSE Append(stash, m)

\* Faulty: coalesce in the order the hooks fired.
HookOrder(stash) == stash
Layout(stash) == SortSeq(stash, <)

\* Faulty: the flush leaves the stash as it is.
Kept(stash) == stash
Cleared(stash) == << >>

\* Stage the buffers of the listed modules and post the first batch.
StartReduction(r, order, buffers) ==
    /\ pc' = [pc EXCEPT ![r] = "reduce"]
    /\ layout' = [layout EXCEPT ![r] = order]
    /\ flat' = [flat EXCEPT ![r] = [i \in DOMAIN order |-> buffers[order[i]].sum]]
    /\ batch' = [batch EXCEPT ![r] = 0]
    /\ todo' = [todo EXCEPT ![r] = Head(Plan(r))]

Quiet == UNCHANGED <<layout, batch, flat, todo>>

\* FSDP2 reduce-scatters a module's gradient and calls its hook.  Immediate
\* reductions rely on the hooks firing in reverse install order everywhere;
\* the stash is meant to work with any order.
Hook(r, m) ==
    /\ pc[r] = "backward" /\ step[r] <= group.steps
    /\ m \notin Fired(r)
    /\ ~group.bucketed => \A x \in group.modules : x > m => x \in Fired(r)
    /\ grad' = [grad EXCEPT ![r] = Filled(r, m)]
    /\ IF group.world <= 1
       THEN Quiet /\ UNCHANGED <<pc, pending>>
       ELSE IF group.bucketed
       THEN /\ pending' = [pending EXCEPT ![r] = Stashed(@, m)]
            /\ Quiet /\ UNCHANGED pc
       ELSE StartReduction(r, <<m>>, Filled(r, m)) /\ UNCHANGED pending
    /\ UNCHANGED <<group, step, inbox, channel, applied>>

\* After the last micro-batch's backward the loop flushes the stash.
Flush(r) ==
    /\ pc[r] = "backward" /\ step[r] <= group.steps
    /\ Fired(r) = group.modules
    /\ pending' = [pending EXCEPT ![r] = Cleared(@)]
    /\ IF ~group.bucketed \/ group.world <= 1 \/ pending[r] = << >>
       THEN Quiet /\ pc' = [pc EXCEPT ![r] = "update"]
       ELSE StartReduction(r, Layout(pending[r]), grad[r])
    /\ UNCHANGED <<group, step, grad, inbox, channel, applied>>

-----------------------------------------------------------------------------
(* The transport: it may buffer a send or complete it with the receive, and *)
(* matches the messages of an ordered pair in order, having no tags.        *)

Depart(s, d) ==
    /\ d \in todo[s].to /\ Len(channel[s, d]) < group.capacity
    /\ channel' = [channel EXCEPT ![s, d] = Append(@, flat[s])]
    /\ todo' = [todo EXCEPT ![s].to = @ \ {d}]
    /\ UNCHANGED <<group, step, pc, grad, pending, layout, batch,
                   flat, inbox, applied>>

Arrive(s, d) ==
    /\ s \in todo[d].from /\ channel[s, d] # << >>
    /\ inbox' = [inbox EXCEPT ![d] = Head(channel[s, d])]
    /\ channel' = [channel EXCEPT ![s, d] = Tail(@)]
    /\ todo' = [todo EXCEPT ![d].from = @ \ {s}]
    /\ UNCHANGED <<group, step, pc, grad, pending, layout, batch,
                   flat, applied>>

Rendezvous(s, d) ==
    /\ d \in todo[s].to /\ s \in todo[d].from /\ channel[s, d] = << >>
    /\ inbox' = [inbox EXCEPT ![d] = flat[s]]
    /\ todo' = [todo EXCEPT ![s].to = @ \ {d}, ![d].from = @ \ {s}]
    /\ UNCHANGED <<group, step, pc, grad, pending, layout, batch,
                   flat, channel, applied>>

-----------------------------------------------------------------------------
Merged(how, own, received) ==
    IF how = "add" THEN [i \in DOMAIN own |-> Plus(own[i], received[i])]
    ELSE IF how = "replace" THEN received ELSE own

\* Every operation of the batch has been waited for: use what was received,
\* then post the next batch or, after the last, average and write back.
Wait(r) ==
    /\ pc[r] = "reduce"
    /\ todo[r].to = {} /\ todo[r].from = {}
    /\ LET result == Merged(todo[r].how, flat[r], inbox[r])
           next == batch[r] + 2
       IN  IF next <= Len(Plan(r))
           THEN /\ flat' = [flat EXCEPT ![r] = result]
                /\ batch' = [batch EXCEPT ![r] = @ + 1]
                /\ todo' = [todo EXCEPT ![r] = Plan(r)[next]]
                /\ UNCHANGED <<pc, grad, layout>>
           ELSE /\ grad' = [grad EXCEPT ![r] = [m \in DOMAIN @ |->
                                IF \E i \in DOMAIN layout[r] : layout[r][i] = m
                                THEN Averaged(result[CHOOSE i \in DOMAIN layout[r] :
                                                        layout[r][i] = m], group.world)
                                ELSE @[m]]]
                /\ pc' = [pc EXCEPT ![r] = IF group.bucketed THEN "update" ELSE "backward"]
                /\ flat' = [flat EXCEPT ![r] = << >>]
                /\ layout' = [layout EXCEPT ![r] = << >>]
                /\ batch' = [batch EXCEPT ![r] = 0]
                /\ todo' = [todo EXCEPT ![r] = Idle]
    /\ inbox' = [inbox EXCEPT ![r] = << >>]
    /\ UNCHANGED <<group, step, pending, channel, applied>>

\* Clip, optimizer step and zero_grad; the next step begins.
Update(r) ==
    /\ pc[r] = "update"
    /\ applied' = [applied EXCEPT ![r] = Append(@, grad[r])]
    /\ grad' = [grad EXCEPT ![r] = << >>]
    /\ step' = [step EXCEPT ![r] = @ + 1]
    /\ pc' = [pc EXCEPT ![r] = "backward"]
    /\ Quiet /\ UNCHANGED <<group, pending, inbox, channel>>

Finished == \A r \in Replicas : step[r] > group.steps

Next ==
    \/ \E r \in Replicas : Wait(r) \/ Flush(r) \/ Update(r)
    \/ \E r \in Replicas, m \in group.modules : Hook(r, m)
    \/ \E s, d \in Replicas : Depart(s, d) \/ Arrive(s, d) \/ Rendezvous(s, d)

\* Replicas keep running and the transport completes what is matched; it
\* owes no buffering, so Depart has no fairness.
Fairness ==
    /\ WF_vars(\E r \in Replicas : Wait(r) \/ Flush(r) \/ Update(r))
    /\ WF_vars(\E r \in Replicas, m \in group.modules : Hook(r, m))
    /\ WF_vars(\E s, d \in Replicas : Arrive(s, d) \/ Rendezvous(s, d))

Spec == Init /\ [][Next]_vars /\ Fairness
=============================================================================
