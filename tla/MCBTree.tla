------------------------------ MODULE MCBTree -------------------------------
(* Instances of BTree for TLC. *)
EXTENDS BTree, TLC

\* All keys of one length, as in the extents tree.
EqualLengths == [k \in Keys |-> 1]

\* Some keys short and some long, as in the catalog and attributes trees.
CONSTANTS LongKeys, Short, Long, a, b
MixedLengths == [k \in Keys |-> IF k \in LongKeys THEN Long ELSE Short]

ValueSymmetry == Permutations({a, b})
=============================================================================
