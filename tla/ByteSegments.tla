---------------------------- MODULE ByteSegments ----------------------------
(***************************************************************************)
(* How the fan-out sharder divides the bytes of one JSONL file among its   *)
(* workers: iter_text_from_jsonl_segment of                                *)
(* src/src/pretrain/data/prepare.py.  A file of size bytes is the set      *)
(* starts of the offsets at which its lines begin.                         *)
(***************************************************************************)
EXTENDS Integers

SegmentStart(size, k, workers) == (size * k) \div workers
SegmentEnd(size, k, workers) == (size * (k + 1)) \div workers

\* The byte before this offset ends a line, or there is none.
StartsFresh(starts, offset) == offset = 0 \/ offset \in starts

\* The lines worker k reads: from its first byte, or from the first line after
\* it when that byte is inside a line, while the next line begins in its range.
LinesOwned(starts, size, k, workers) ==
    LET first == SegmentStart(size, k, workers) IN
    {s \in starts : /\ s >= first
                    /\ StartsFresh(starts, first) \/ s > first
                    /\ s < SegmentEnd(size, k, workers)}
=============================================================================
