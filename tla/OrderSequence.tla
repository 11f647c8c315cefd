------------------------------ MODULE OrderSequence ------------------------------
(***************************************************************************)
(* The order-statistics sequence: a height-balanced tree of chunks that    *)
(* finds a record by its number or by a height offset.  Nodes are          *)
(* immutable and share their subtrees; each caches the number of records   *)
(* and the height below it.  Beside the tree, the sequence it stands for.  *)
(***************************************************************************)
EXTENDS Integers, SequencesExt

CONSTANTS Heights,    \* heights of records; a record is its height here
          MaxChunk,   \* max_records_per_chunk
          MaxLength   \* bound on the number of records

SequenceAssumption == /\ Heights \subseteq Nat \ {0} /\ Heights # {}
                      /\ MaxChunk \in Nat \ {0} /\ MaxLength \in Nat

VARIABLES root,   \* the current root
          plain   \* the records in order

vars == <<root, plain>>

Leaf == [tree |-> 0]      \* no node
Depth(t) == t.tree        \* tree_height
Count(t) == IF t = Leaf THEN 0 ELSE t.count
Tall(t) == IF t = Leaf THEN 0 ELSE t.tall

SumOf(chunk) == FoldSeq(LAMBDA x, y : x + y, 0, chunk)

(* make_node: the aggregates of a node are those of its parts.             *)
Node(chunk, l, r) ==
    [chunk |-> chunk, left |-> l, right |-> r,
     count |-> Count(l) + Len(chunk) + Count(r),
     tall |-> Tall(l) + SumOf(chunk) + Tall(r),
     tree |-> 1 + (IF Depth(l) >= Depth(r) THEN Depth(l) ELSE Depth(r))]

RotateLeft(t) ==
    Node(t.right.chunk, Node(t.chunk, t.left, t.right.left), t.right.right)
RotateRight(t) ==
    Node(t.left.chunk, t.left.left, Node(t.chunk, t.left.right, t.right))

Rebalance(t) ==
    IF t = Leaf THEN t
    ELSE IF Depth(t.left) > Depth(t.right) + 1
         THEN RotateRight(IF Depth(t.left.left) < Depth(t.left.right)
                          THEN Node(t.chunk, RotateLeft(t.left), t.right) ELSE t)
    ELSE IF Depth(t.right) > Depth(t.left) + 1
         THEN RotateLeft(IF Depth(t.right.right) < Depth(t.right.left)
                         THEN Node(t.chunk, t.left, RotateRight(t.right)) ELSE t)
    ELSE t

RECURSIVE InsertFront(_, _)
InsertFront(t, chunk) ==
    IF t = Leaf THEN Node(chunk, Leaf, Leaf)
    ELSE Rebalance(Node(t.chunk, InsertFront(t.left, chunk), t.right))

(* insert_impl: a chunk that grows too long is split, its second half      *)
(* becomes the first chunk of the right subtree.                           *)
WithChunk(t, chunk) ==
    IF Len(chunk) <= MaxChunk THEN Node(chunk, t.left, t.right)
    ELSE LET half == Len(chunk) \div 2 IN
         Node(SubSeq(chunk, 1, half), t.left,
              InsertFront(t.right, SubSeq(chunk, half + 1, Len(chunk))))

RECURSIVE Inserted(_, _, _)
Inserted(t, i, x) ==
    IF t = Leaf THEN Node(<<x>>, Leaf, Leaf)
    ELSE LET before == Count(t.left)
             upto == before + Len(t.chunk) IN
         Rebalance(
           IF i < before THEN Node(t.chunk, Inserted(t.left, i, x), t.right)
           ELSE IF i <= upto
                THEN WithChunk(t, InsertAt(t.chunk, i - before + 1, x))
           ELSE Node(t.chunk, t.left, Inserted(t.right, i - upto, x)))

RECURSIVE ExtractMin(_)
ExtractMin(t) ==
    IF t.left = Leaf THEN [minimum |-> t.chunk, rest |-> t.right]
    ELSE LET m == ExtractMin(t.left) IN
         [m EXCEPT !.rest = Rebalance(Node(t.chunk, m.rest, t.right))]

Join(l, r) ==
    IF l = Leaf THEN r
    ELSE IF r = Leaf THEN l
    ELSE LET m == ExtractMin(r) IN Rebalance(Node(m.minimum, l, m.rest))

(* erase_impl: a chunk that becomes empty gives way to a join of its       *)
(* subtrees.                                                               *)
RECURSIVE Erased(_, _)
Erased(t, i) ==
    LET before == Count(t.left)
        upto == before + Len(t.chunk) IN
    IF i < before THEN Rebalance(Node(t.chunk, Erased(t.left, i), t.right))
    ELSE IF i >= upto
         THEN Rebalance(Node(t.chunk, t.left, Erased(t.right, i - upto)))
    ELSE IF Len(t.chunk) = 1 THEN Join(t.left, t.right)
    ELSE Rebalance(Node(RemoveAt(t.chunk, i - before + 1), t.left, t.right))

RECURSIVE Replaced(_, _, _)
Replaced(t, i, h) ==
    LET before == Count(t.left)
        upto == before + Len(t.chunk) IN
    IF i < before THEN Node(t.chunk, Replaced(t.left, i, h), t.right)
    ELSE IF i >= upto THEN Node(t.chunk, t.left, Replaced(t.right, i - upto, h))
    ELSE Node([t.chunk EXCEPT ![i - before + 1] = h], t.left, t.right)

(* locate_by_records: the record at an index and the height above it.      *)
RECURSIVE At(_, _, _)
At(t, i, above) ==
    LET before == Count(t.left)
        upto == before + Len(t.chunk)
        here == above + Tall(t.left) IN
    IF i < before THEN At(t.left, i, above)
    ELSE IF i < upto
         THEN [record |-> t.chunk[i - before + 1],
               y |-> here + SumOf(SubSeq(t.chunk, 1, i - before))]
    ELSE At(t.right, i - upto, here + SumOf(t.chunk))

(* locate_by_metric: the record that covers a height offset.               *)
RECURSIVE Locate(_, _, _, _)
Locate(t, offset, first, above) ==
    LET here == above + Tall(t.left)
        index == first + Count(t.left)
        y(k) == here + SumOf(SubSeq(t.chunk, 1, k))
        covers == {k \in 0..(Len(t.chunk) - 1) :
                     y(k) <= offset /\ offset - y(k) < t.chunk[k + 1]} IN
    IF offset < here THEN Locate(t.left, offset, first, above)
    ELSE IF covers # {}
         THEN LET k == CHOOSE j \in covers : TRUE IN
              [index |-> index + k, y |-> y(k)]
    ELSE Locate(t.right, offset, index + Len(t.chunk), y(Len(t.chunk)))

(* prefix_impl: the height of the first records.                           *)
RECURSIVE Prefix(_, _)
Prefix(t, n) ==
    IF t = Leaf THEN 0
    ELSE IF n <= Count(t.left) THEN Prefix(t.left, n)
    ELSE LET rest == n - Count(t.left)
             local == IF rest <= Len(t.chunk) THEN rest ELSE Len(t.chunk) IN
         Tall(t.left) + SumOf(SubSeq(t.chunk, 1, local))
           + (IF rest = local THEN 0 ELSE Prefix(t.right, rest - local))
--------------------------------------------------------------------------------
Init == root = Leaf /\ plain = <<>>

Insert(i, x) ==
    /\ Len(plain) < MaxLength
    /\ root' = Inserted(root, i, x)
    /\ plain' = InsertAt(plain, i + 1, x)

Erase(i) ==
    /\ root' = Erased(root, i)
    /\ plain' = RemoveAt(plain, i + 1)

Move(i, j) ==
    /\ i # j
    /\ root' = Inserted(Erased(root, i), j, At(root, i, 0).record)
    /\ plain' = InsertAt(RemoveAt(plain, i + 1), j + 1, plain[i + 1])

UpdateHeight(i, h) ==
    /\ root' = Replaced(root, i, h)
    /\ plain' = [plain EXCEPT ![i + 1] = h]

Indices == 0..(Len(plain) - 1)

Next == \/ \E i \in 0..Len(plain), x \in Heights : Insert(i, x)
        \/ \E i \in Indices : Erase(i)
        \/ \E i, j \in Indices : Move(i, j)
        \/ \E i \in Indices, h \in Heights : UpdateHeight(i, h)

Spec == Init /\ [][Next]_vars
--------------------------------------------------------------------------------
(* Every node of the tree is balanced, its chunk neither empty nor too     *)
(* long, and what it caches is what is below it.                           *)
RECURSIVE WellBuilt(_)
WellBuilt(t) ==
    t = Leaf \/ /\ Len(t.chunk) \in 1..MaxChunk
                /\ Depth(t.left) <= Depth(t.right) + 1
                /\ Depth(t.right) <= Depth(t.left) + 1
                /\ t = Node(t.chunk, t.left, t.right)
                /\ WellBuilt(t.left) /\ WellBuilt(t.right)
SequenceTypeOK == WellBuilt(root) /\ plain \in Seq(Heights)

(* Whatever was inserted, erased, moved or measured, through however many  *)
(* splits, joins and rotations, the tree answers as the plain sequence     *)
(* would: by index, by height offset and for every prefix.                 *)
Above(i) == SumOf(SubSeq(plain, 1, i))
AnswersAsSequence ==
    /\ Count(root) = Len(plain)
    /\ Tall(root) = SumOf(plain)
    /\ \A i \in Indices : At(root, i, 0) = [record |-> plain[i + 1], y |-> Above(i)]
    /\ \A n \in 0..Len(plain) : Prefix(root, n) = Above(n)
    /\ \A i \in Indices : \A o \in Above(i)..(Above(i + 1) - 1) :
          Locate(root, o, 0, 0) = [index |-> i, y |-> Above(i)]
================================================================================
