------------------------------ MODULE MCYaftl -------------------------------
(***************************************************************************)
(* Yaftl on five superblocks of eighteen pages, two for contexts.          *)
(* The device has been in use: its first context is there with the mark    *)
(* behind it, and a block with fifteen of its sixteen pages of data; a     *)
(* table takes the two pages behind them. The two logical pages have index *)
(* pages of their own. A context is nine pages, two to a control block.    *)
(***************************************************************************)
EXTENDS Yaftl
=============================================================================
