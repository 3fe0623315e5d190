----------------------------- MODULE FolderTree -----------------------------
(***************************************************************************)
(* What the catalog of an HFS+ volume promises its callers: a tree of      *)
(* folders and files under one root. A call that returns has made, moved   *)
(* or removed one item, or has changed nothing in the tree.                *)
(***************************************************************************)
EXTENDS Integers, FiniteSets, Functions

CONSTANTS Root, Ids, Names

VARIABLES
    tree,   \* the items: parent, name and kind of each id
    given   \* the ids that items have or have had

Item == [parent : Ids \cup {Root}, name : Names, kind : {"folder", "file"}]

Init == tree = <<>> /\ given = {}

Folders(t) == {Root} \cup {i \in DOMAIN t : t[i].kind = "folder"}
NameFree(t, i, item) ==
    \A j \in DOMAIN t \ {i} : t[j].parent # item.parent \/ t[j].name # item.name

\* Going up from any item ends at the root.
Hangs(t) ==
    \A i \in DOMAIN t :
        LET up[n \in 0 .. Cardinality(DOMAIN t)] ==
                IF n = 0 THEN i ELSE IF up[n - 1] = Root THEN Root ELSE t[up[n - 1]].parent
        IN  up[Cardinality(DOMAIN t)] = Root

Put(t, i, item) == [j \in DOMAIN t \cup {i} |-> IF j = i THEN item ELSE t[j]]

Make ==
    \E i \in Ids \ given :
        /\ given' = given \cup {i}
        /\ \E item \in Item :
              /\ item.parent \in Folders(tree) /\ NameFree(tree, i, item)
              /\ tree' = Put(tree, i, item)

Move ==
    \E i \in DOMAIN tree, parent \in Folders(tree), name \in Names :
        LET item == [tree[i] EXCEPT !.parent = parent, !.name = name]
        IN  /\ NameFree(tree, i, item)
            /\ tree' = Put(tree, i, item)
            /\ Hangs(tree')
            /\ UNCHANGED given

Remove ==
    \E i \in DOMAIN tree :
        /\ \A j \in DOMAIN tree : tree[j].parent # i
        /\ tree' = Restrict(tree, DOMAIN tree \ {i})
        /\ UNCHANGED given

Next == Make \/ Move \/ Remove

Spec == Init /\ [][Next]_<<tree, given>>
=============================================================================
