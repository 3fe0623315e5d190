---------------------------- MODULE MCBlockAlloc ----------------------------
(* Instances of BlockAlloc for TLC. *)
EXTENDS BlockAlloc, TLC

CONSTANTS f1, f2

\* The first and the last block of a small volume hold its headers.
MCReserved == {0, TotalBlocks - 1}
ForkSymmetry == Permutations({f1, f2})
=============================================================================
