------------------------------ MODULE RankViews ------------------------------
(***************************************************************************)
(* The loaders of the data-parallel ranks over steps, checkpoints and      *)
(* relaunches (ShardedWindowView.__iter__, _ViewDataset and the loop that  *)
(* calls next() on them).  Every rank is a process of its own that walks   *)
(* the whole stream and materialises what it owns; the optimizer step is   *)
(* where they meet.                                                        *)
(***************************************************************************)
EXTENDS WindowView

CONSTANTS
    WorldSizes,    \* world sizes the run may be launched with
    MaxSteps       \* bound: optimizer steps

MaxWorld == CHOOSE w \in WorldSizes : \A x \in WorldSizes : x <= w
ASSUME RankViewsAssumption == WorldSizes \subseteq Nat \ {0} /\ MaxSteps \in Nat

VARIABLES
    world,      \* dp_world_size of this launch
    view,       \* per rank: its ShardedWindowView
    loader,     \* per rank: what the generator is doing
    step,       \* the loop's optimizer_step
    consumed,   \* the loop's consumed_tokens
    last,       \* per rank: the last window its view took
    saved,      \* durable: global_stream.json and the counters of meta.json
    trained     \* the micro-batches of every step so far (bookkeeping)

vars == <<world, view, loader, step, consumed, last, saved, trained>>

Ranks == 0 .. world - 1
AllRanks == 0 .. MaxWorld - 1

\* owned: micro-batches not yet yielded, the open one last; given: those
\* handed to the loop in this step.
Ready == [phase |-> "ready", owned |-> << >>, given |-> << >>]

StartAt(w, ckpt) ==
    /\ world' = w
    /\ view' = [r \in AllRanks |-> ViewFrom(ckpt.stream, ckpt.step, ckpt.consumed)]
    /\ loader' = [r \in AllRanks |-> Ready]
    /\ last' = [r \in AllRanks |-> << >>]
    /\ step' = ckpt.step /\ consumed' = ckpt.consumed
    /\ trained' = SubSeq(trained, 1, ckpt.step)

Nothing == [stream |-> FreshState, step |-> 0, consumed |-> 0]

Init ==
    /\ world \in WorldSizes
    /\ view = [r \in AllRanks |-> FreshView]
    /\ loader = [r \in AllRanks |-> Ready]
    /\ last = [r \in AllRanks |-> << >>]
    /\ step = 0 /\ consumed = 0
    /\ saved = Nothing
    /\ trained = << >>

Microbatches == MicrobatchesPerStep(consumed)
Accum(r) == AccumForRank(Microbatches, world, r)

\* next() on a generator with nothing left of its step: it plans the next one.
\* The loop refuses a step the ranks cannot share evenly.
Begin(r) ==
    /\ step < MaxSteps
    /\ Microbatches % world = 0
    /\ Len(loader[r].given) < Accum(r)
    /\ loader[r].phase = "ready"
    /\ loader' = [loader EXCEPT ![r].phase = "walk"]
    /\ UNCHANGED <<world, view, step, consumed, last, saved, trained>>

\* The two halves of _take_window.
Refill(r) ==
    /\ loader[r].phase = "walk"
    /\ BufLen(view[r]) < Target
    /\ view' = [view EXCEPT ![r] = Refilled(@)]
    /\ UNCHANGED <<world, loader, step, consumed, last, saved, trained>>

\* A window joins the open micro-batch or opens one.
Collected(owned, window, slot) ==
    IF slot = 0 THEN Append(owned, <<window>>)
    ELSE [owned EXCEPT ![Len(owned)] = Append(@, window)]

TakeWindow(r) ==
    /\ loader[r].phase = "walk"
    /\ BufLen(view[r]) >= Target
    /\ view[r].walked < StepWindows(view[r].clock)
    /\ view' = [view EXCEPT ![r] = Taken(@)]
    /\ last' = [last EXCEPT ![r] = Window(view[r])]
    /\ loader' =
        [loader EXCEPT
            ![r].owned = IF Owns(view[r], r, world)
                         THEN Collected(@, Window(view[r]), view[r].walked % MicroBatch)
                         ELSE @,
            ![r].phase = IF view[r].walked + 1 = StepWindows(view[r].clock)
                         THEN "yield" ELSE "walk"]
    /\ UNCHANGED <<world, step, consumed, saved, trained>>

\* The loop gets a micro-batch; the last one of a step leaves the generator
\* suspended on the boundary, the next plan (pure arithmetic) ahead of it.
Yield(r) ==
    /\ loader[r].phase = "yield"
    /\ Len(loader[r].given) < Accum(r)
    /\ LET rest == Tail(loader[r].owned) IN
        /\ loader' = [loader EXCEPT
            ![r].given = Append(@, Head(loader[r].owned)), ![r].owned = rest,
            ![r].phase = IF rest = << >> THEN "ready" ELSE "yield"]
        /\ view' = IF rest = << >> THEN [view EXCEPT ![r] = NextPlan(@)] ELSE view
    /\ UNCHANGED <<world, step, consumed, last, saved, trained>>

\* The optimizer step, once every rank has its accum micro-batches.  Micro-
\* batch m of the step is what its owner got as its (m \div world)-th.
EndStep ==
    /\ step < MaxSteps
    /\ \A r \in Ranks : Len(loader[r].given) = Accum(r)
    /\ trained' = Append(trained, [m \in 1 .. Microbatches |->
            loader[(m - 1) % world].given[(m - 1) \div world + 1]])
    /\ loader' = [r \in AllRanks |-> [loader[r] EXCEPT !.given = << >>]]
    /\ step' = step + 1
    /\ consumed' = consumed + StepTokens(consumed)
    /\ UNCHANGED <<world, view, last, saved>>

BetweenSteps == \A r \in Ranks : loader[r] = Ready

\* Rank 0 stores its view's state for all.
Save ==
    /\ BetweenSteps /\ step > saved.step
    /\ saved' = [stream |-> StateOf(view[0]), step |-> step, consumed |-> consumed]
    /\ UNCHANGED <<world, view, loader, step, consumed, last, trained>>

\* The run stops anywhere and comes back, perhaps on other hardware.
Relaunch ==
    /\ \E w \in WorldSizes : StartAt(w, saved)
    /\ UNCHANGED saved

Next ==
    \/ \E r \in Ranks : Begin(r) \/ Refill(r) \/ TakeWindow(r) \/ Yield(r)
    \/ EndStep \/ Save \/ Relaunch

Spec == Init /\ [][Next]_vars
=============================================================================
