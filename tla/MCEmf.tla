------------------------------- MODULE MCEmf --------------------------------
(* Instances of Emf for TLC. *)
EXTENDS Emf

Ext(s, n) == [start |-> s, count |-> n]
Entry(t, i) == [type |-> t, id |-> i]

\* Two files in nested folders: fragmented, one behind the other's blocks,
\* one past the end of a truncated image.
MCForks == {
    [a |-> <<Ext(0, 2), Ext(4, 1)>>, b |-> <<Ext(2, 2)>>],
    [a |-> <<Ext(3, 1), Ext(1, 1)>>, b |-> <<Ext(5, 2)>>],
    [a |-> <<>>, b |-> <<Ext(4, 2), Ext(0, 1)>>]
}
MCItems == {
    [root |-> <<Entry("file", "a"), Entry("file", "b")>>, sub |-> <<>>],
    [root |-> <<Entry("folder", "sub"), Entry("file", "b")>>, sub |-> <<Entry("file", "a")>>],
    [root |-> <<Entry("file", "a"), Entry("folder", "sub")>>, sub |-> <<Entry("file", "b")>>]
}
MCAttributes == {[version |-> 2, class |-> c] : c \in {1, 4, 5}} \cup {[version |-> 4, class |-> 4], [version |-> 0, class |-> 0]}
MCVolumes == [items : MCItems, forks : MCForks, cprotect : [{"a", "b"} -> MCAttributes]]

\* A file with a hard link: the link in the root folder, the file itself in
\* the folder of the link targets.
MCLinked == [
    items : {[root |-> <<Entry("folder", "private"), Entry("link", "a")>>, private |-> <<Entry("file", "a")>>]},
    forks : {[a |-> <<Ext(1, 2)>>]},
    cprotect : {[a |-> [version |-> 2, class |-> 4]]}]

ASSUME MCVolumesOrderly == \A v \in MCVolumes : Orderly(v)

MCPlists == {
    [complete |-> TRUE, classes |-> {}, wrong |-> {}],
    [complete |-> TRUE, classes |-> {1, 5}, wrong |-> {}],
    [complete |-> TRUE, classes |-> {1, 2}, wrong |-> {1, 4}],
    [complete |-> FALSE, classes |-> {1}, wrong |-> {}]
}
=============================================================================
