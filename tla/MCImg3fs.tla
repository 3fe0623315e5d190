------------------------------ MODULE MCImg3fs ------------------------------
(* Instances of Img3fs for TLC. *)
EXTENDS Img3fs, TLC

CONSTANTS t1, t2

ThreadSymmetry == Permutations({t1, t2})
=============================================================================
