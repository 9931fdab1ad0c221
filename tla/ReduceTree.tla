----------------------------- MODULE ReduceTree -----------------------------
(***************************************************************************)
(* The order in which replica gradients are added.  Float addition         *)
(* commutes but does not associate, so a sum is the unordered binary tree  *)
(* of its additions.  A tree is kept as the bag of the leaf sets below its *)
(* nodes: it determines the tree, and counts a leaf that is added twice.   *)
(***************************************************************************)
EXTENDS Integers, Sequences, Bags, SequencesExt

Leaf(x) == SetToBag({{x}})

Plus(a, b) ==
    a (+) b (+) SetToBag({UNION (BagToSet(a) \cup BagToSet(b))})

\* Multiplying by 1/ws: a scaled sum is no longer a bare one.
Averaged(v, ws) == [sum |-> v, over |-> ws]

PowersBelow(n) == {2 ^ k : k \in 0 .. n} \cap (0 .. n - 1)

\* One block per set bit of n, the largest first.
BinaryBlocks(n) ==
    SetToSortSeq(
        {[start |-> (n \div (2 * b)) * 2 * b, size |-> b] :
            b \in {p \in PowersBelow(n + 1) : (n \div p) % 2 = 1}},
        LAMBDA x, y : x.start < y.start)

\* One round of additions of adjacent pairs.
PairSums(level) ==
    [i \in 1 .. Len(level) \div 2 |-> Plus(level[2 * i - 1], level[2 * i])]

Balanced(block) ==
    LET rounds == SetToSeq(PowersBelow(Len(block)))
    IN  FoldLeft(LAMBDA level, round : PairSums(level), block, rounds)[1]

LeftSum(values) == FoldLeft(Plus, Head(values), Tail(values))

TreeReduceSum(parts) ==
    LET blocks == BinaryBlocks(Len(parts))
    IN  LeftSum([i \in 1 .. Len(blocks) |->
                    Balanced(SubSeq(parts, blocks[i].start + 1,
                                    blocks[i].start + blocks[i].size))])

-----------------------------------------------------------------------------
\* The audit's streaming fold: a stack of [level, sum], top last.  A push merges
\* with the levels 0, 1, ... that end the stack.
Levels(stack) == [i \in DOMAIN stack |-> stack[i].level]
CarryLength(levels) ==
    CHOOSE k \in 0 .. Len(levels) :
        /\ \A i \in 0 .. k - 1 : levels[Len(levels) - i] = i
        /\ k = Len(levels) \/ levels[Len(levels) - k] # k

Push(stack, part) ==
    LET carries == CarryLength(Levels(stack))
        below == SubSeq(stack, Len(stack) - carries + 1, Len(stack))
    IN  Append(SubSeq(stack, 1, Len(stack) - carries),
               [level |-> carries,
                sum |-> FoldLeft(LAMBDA acc, lower : Plus(lower.sum, acc),
                                 part, Reverse(below))])

FoldResult(stack) == LeftSum([i \in 1 .. Len(stack) |-> stack[i].sum])

AuditFold(parts) == FoldResult(FoldLeft(Push, << >>, parts))
=============================================================================
