------------------------------- MODULE DocMap -------------------------------
(***************************************************************************)
(* The rows of src/src/pretrain/data/doc_map.py: which document fragment   *)
(* each rank trained on in each micro-batch, from the spans a length-walk  *)
(* of the stream leaves behind.                                            *)
(***************************************************************************)
EXTENDS WindowView, FiniteSets

CONSTANT ChunkSteps   \* --chunk-steps: optimizer steps in one Parquet file

ASSUME DocMapAssumption == ChunkSteps \in Nat \ {0}

\* What _take appends to the span sink for the next window.
Spans(view) ==
    LET cut == Fragments(view)
        docs == SelectSeq(cut, LAMBDA f : f.seg.kind = "doc")
    IN  [i \in DOMAIN docs |-> [window |-> view.emitted, doc |-> docs[i].seg.doc,
                                from |-> docs[i].from, to |-> docs[i].to]]

\* (microbatch, slot) of a window in a step that starts at window base.
WindowPositionByRank(window, base) ==
    <<(window - base) % MicroBatch, (window - base) \div MicroBatch>>
WindowPosition(window, base) ==
    <<(window - base) \div MicroBatch, (window - base) % MicroBatch>>

StepRows(spans, step, base, world) ==
    [i \in DOMAIN spans |->
        LET at == WindowPosition(spans[i].window, base) IN
        [step |-> step, window |-> spans[i].window,
         microbatch |-> at[1], slot |-> at[2],
         frag |-> Cardinality({j \in 1 .. i - 1 : spans[j].window = spans[i].window}),
         rank |-> OwnerRank(at[1], world),
         doc |-> spans[i].doc, from |-> spans[i].from, to |-> spans[i].to]]

\* write_doc_map: rows gather in acc and leave with every ChunkSteps-th step.
NoMap == [acc |-> << >>, first |-> -1, last |-> -1, files |-> << >>]
Flush(map) ==
    [acc |-> << >>, first |-> -1, last |-> map.last,
     files |-> Append(map.files,
                      [first |-> map.first, last |-> map.last, rows |-> map.acc])]
WithStep(map, step, rows) ==
    LET grown == [map EXCEPT !.acc = @ \o rows, !.last = step,
                             !.first = IF @ = -1 THEN step ELSE @]
    IN  IF (step + 1) % ChunkSteps = 0 THEN Flush(grown) ELSE grown
FlushedMap(map) == IF map.first # -1 /\ map.acc # << >> THEN Flush(map) ELSE map

\* position(), and compare_position against a checkpoint's global_stream.json.
Position(view) == [walkers |-> view.walkers, emitted |-> view.emitted]
PositionMatches(view, stream) ==
    Position(view) = [walkers |-> stream.walkers, emitted |-> stream.emitted]
=============================================================================
