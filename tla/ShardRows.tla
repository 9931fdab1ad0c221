------------------------------ MODULE ShardRows ------------------------------
(***************************************************************************)
(* Which rows of a tensor of dim0 rows each rank hashes and sums.  On the  *)
(* cluster a rank holds a padded local shard (DTensor Shard(0)); the audit *)
(* holds the whole tensor and cuts the same rows out of it:                *)
(* src/src/pretrain/parallel/deterministic_reduce.py and                   *)
(* src/src/pretrain/train/state_hash.py.                                   *)
(*                                                                         *)
(* A piece of a tensor is the function from its own row numbers to rows of *)
(* the whole; Pad stands for a row of the padding, whatever fills it.      *)
(***************************************************************************)
EXTENDS Integers

CONSTANT Pad

Smaller(a, b) == IF a <= b THEN a ELSE b
Larger(a, b) == IF a >= b THEN a ELSE b

\* shard0_full_chunk_size: ceil(dim0 / world).
ChunkSize(dim0, world) ==
    LET n == Larger(world, 1) IN (dim0 + n - 1) \div n

\* t[first : end] of a tensor of dim0 rows.
Slice(dim0, first, end) ==
    [i \in 0 .. Smaller(end, dim0) - first - 1 |-> first + i]

-----------------------------------------------------------------------------
(* The cluster *)

\* torch: the ranks of one replica are consecutive, the mesh row-major.
Coordinate(rank, shards) == rank % shards

\* torch: the local view of a Shard(0) tensor, its tail padded.
LocalShard(dim0, coord, world) ==
    LET fcs == ChunkSize(dim0, world)
    IN  [i \in 0 .. fcs - 1 |-> IF coord * fcs + i < dim0 THEN coord * fcs + i ELSE Pad]

\* _local_logical: loc[:real].
LocalLogical(dim0, coord, world) ==
    LET fcs == ChunkSize(dim0, world)
        real == Larger(0, Smaller(fcs, dim0 - coord * fcs))
        loc == LocalShard(dim0, coord, world)
    IN  [i \in 0 .. real - 1 |-> loc[i]]

\* What the gathered digests are taken of, in rank order.
ClusterRows(dim0, shards, world) ==
    [r \in 0 .. world - 1 |-> LocalLogical(dim0, Coordinate(r, shards), shards)]

-----------------------------------------------------------------------------
(* The audit *)

\* shard0_logical_chunk.
LogicalChunk(dim0, rank, world) ==
    LET fcs == ChunkSize(dim0, world)
    IN  Slice(dim0, rank * fcs, Smaller(rank * fcs + fcs, dim0))

\* shard0_chunk: padded to the full chunk, as the norm's fold wants it.
PaddedChunk(dim0, rank, world) ==
    LET fcs == ChunkSize(dim0, world)
        chunk == Slice(dim0, rank * fcs, rank * fcs + fcs)
    IN  [i \in 0 .. fcs - 1 |-> IF i \in DOMAIN chunk THEN chunk[i] ELSE Pad]

\* audit_shard_state_digest: one digest per shard, repeated by rank.
AuditRows(dim0, shards, world) ==
    LET perShard == [s \in 0 .. shards - 1 |-> LogicalChunk(dim0, s, shards)]
    IN  [r \in 0 .. world - 1 |-> perShard[r % shards]]
=============================================================================
