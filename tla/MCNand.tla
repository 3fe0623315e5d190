------------------------------- MODULE MCNand -------------------------------
(***************************************************************************)
(* Chips of blocks of one page: one bank; two banks without and with a gap *)
(* between their addresses; two and three banks with gaps of several blocks*)
(* in all, so that a dump may be aborted behind a gap; one without special *)
(* pages; and two whose banks are not searched for. Kernels of both        *)
(* versions, with the words of the scan in several orders.                 *)
(***************************************************************************)
EXTENDS Nand

MCChips ==
    {[blocks |-> 4, banks |-> 1, ppn |-> FALSE, info |-> 3],
     [blocks |-> 4, banks |-> 2, ppn |-> FALSE, info |-> 3],
     [blocks |-> 6, banks |-> 2, ppn |-> FALSE, info |-> 6],
     [blocks |-> 6, banks |-> 2, ppn |-> FALSE, info |-> -1],
     [blocks |-> 9, banks |-> 3, ppn |-> FALSE, info |-> 10],
     [blocks |-> 4, banks |-> 2, ppn |-> TRUE, info |-> -1],
     [blocks |-> 6, banks |-> 2, ppn |-> TRUE, info |-> -1]}

\* Some page of the second CE may be anything.
MCVaried == {<<1, 2>>}

MCKernels ==
    {[version |-> 4, memory |-> <<>>],
     [version |-> 5, memory |-> <<"method", "withAddress", "pointer">>],
     [version |-> 5, memory |-> <<"withAddress", "method", "pointer">>],
     [version |-> 5, memory |-> <<"pointer", "method", "unreadable">>]}

\* The chips are of the kind the dumper's search is made for.
ASSUME MCTells == Tells
=============================================================================
