----------------------------- MODULE SourceWalk -----------------------------
(***************************************************************************)
(* The document order of src/src/pretrain/data/mix_sampler.py: one walker  *)
(* per source over a permutation per epoch, and a seeded generator that    *)
(* picks the source of the next document.                                  *)
(*                                                                         *)
(* A document is <<source, shard, local>>, a token a document's position   *)
(* in it.  The generators are constants: the same seed draws the same.     *)
(***************************************************************************)
EXTENDS Integers, Sequences, SequencesExt

CONSTANTS
    Names,              \* the sources of the data configuration
    Shards(_),          \* a source's shards: token counts of their documents
    ShardOrder(_, _),   \* permutation of a source's shards in an epoch
    DocOrder(_, _, _),  \* permutation of a shard's documents in an epoch
    Draw(_),            \* the source of the n-th refill (rng.choice)
    SeqLen              \* train.seq_len

ASSUME SourceWalkAssumption == SeqLen \in Nat \ {0}

Target == SeqLen + 1
Length(doc) == Shards(doc[1])[doc[2]][doc[3]]

\* _build_global_perm: shards in their order, each one's documents in theirs.
GlobalPerm(name, epoch) ==
    LET order == ShardOrder(name, epoch)
        ofShard(k) == LET docs == DocOrder(name, epoch, k)
                      IN  [i \in DOMAIN docs |-> <<name, k, docs[i]>>]
    IN  FlattenSeq([i \in DOMAIN order |-> ofShard(order[i])])

NewWalker == [consumed |-> 0, epoch |-> 0]

\* next_document_ref of one rank of world: every world-th entry, the next
\* epoch when they run out.
RunsOut(walker, name, rank, world) ==
    walker.consumed * world + rank >= Len(GlobalPerm(name, walker.epoch))
Rolled(walker, name, rank, world) ==
    IF RunsOut(walker, name, rank, world)
    THEN [consumed |-> 0, epoch |-> walker.epoch + 1] ELSE walker
NextRef(walker, name, rank, world) ==
    LET at == Rolled(walker, name, rank, world)
    IN  GlobalPerm(name, at.epoch)[at.consumed * world + rank + 1]
Advanced(walker, name, rank, world) ==
    [Rolled(walker, name, rank, world) EXCEPT !.consumed = @ + 1]

\* The n tokens of a document from position first on; the separator.
TokensOf(doc, first, n) == [i \in 1 .. n |-> <<doc, first + i>>]
Eos == <<"eos">>
=============================================================================
