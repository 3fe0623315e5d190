----------------------------- MODULE MCRawFile ------------------------------
(* Instances of RawFile for TLC. *)
EXTENDS RawFile, TLC

CONSTANTS f1, f2

MCReserved == {0, TotalBlocks - 1}
ForkSymmetry == Permutations({f1, f2})
=============================================================================
