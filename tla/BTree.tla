------------------------------- MODULE BTree --------------------------------
(***************************************************************************)
(* The B-trees of HFS+ (extents, catalog, attributes) as                   *)
(* emf_decrypter/hfs/btree.c keeps them: addToBTree, removeFromBTree and   *)
(* search over the nodes of the tree's file, its header record and its     *)
(* node map.                                                               *)
(*                                                                         *)
(* addRecord and removeRecord recurse from the root to a leaf and do their *)
(* work on the way down and on the way back; every node they write goes to *)
(* the image at once. A step of the model is one activation on its way     *)
(* down, or one on its way back; `path` is the stack of activations. Keys  *)
(* are numbers in the order of tree->compare. Only the lengths of records  *)
(* are kept of their layout, not where in the node they lie.               *)
(***************************************************************************)
EXTENDS Integers, FiniteSets, SequencesExt

CONSTANTS
    Keys,          \* the keys of records
    Values,        \* the data of records
    KeyLength,     \* the length of a key in its node
    DataLength,    \* the length of a record's data, in a leaf
    PointerLength, \* the length of a node number, in an index node
    NodeSpace,     \* what a node has for records and their offsets
    StartNodes,    \* headerRec->totalNodes of the empty tree
    Clump,         \* nodes that one growBTree adds
    AllocateCan,   \* what allocate() may return to growBTree
    MayRemove,     \* bound: the keys that calls remove
    RemoveAbsent,  \* whether callers remove keys that are not there
    MaxNodes,      \* bound: nodes that the map record of the header node covers
    WordRange      \* 2^32, the range of freeNodes

ASSUME LengthAssumption ==
    /\ Keys \subseteq Nat /\ MayRemove \subseteq Keys
    /\ KeyLength \in [Keys -> Nat]
    /\ {DataLength, PointerLength, NodeSpace, Clump} \subseteq Nat

\* HFS+ chooses the node size so that a node holds two records of any length.
ASSUME TwoRecordsFit ==
    \A k \in Keys : 2 * (KeyLength[k] + DataLength) <= NodeSpace
                 /\ 2 * (KeyLength[k] + PointerLength) <= NodeSpace

ASSUME TreeFileAssumption ==
    /\ MaxNodes \in Nat /\ StartNodes \in 1 .. MaxNodes + 1
    /\ AllocateCan \subseteq BOOLEAN /\ RemoveAbsent \in BOOLEAN
    /\ WordRange \in Nat \ {0}

Nodes == 1 .. MaxNodes

VARIABLES
    node,       \* the nodes on the image; a node that is not in use is Blank
    map,        \* the node map: the numbers of the nodes in use
    header,     \* the header record
    pc,         \* where the running call stands
    op,         \* the running call: its kind, its key, its data
    at,         \* the node whose activation runs
    path,       \* the activations above it, the root's first
    newNode,    \* what the activation below has returned
    gone,       \* its *gone
    callAgain   \* *callAgain of the running call

tree == <<node, map, header>>
call == <<pc, op, at, path, newNode, gone, callAgain>>
vars == <<tree, call>>

Blank == [kind |-> "blank"]
NoCall == [kind |-> "none"]

Leaf(n) == n # 0 /\ node[n].kind = "leaf"
Index(n) == n # 0 /\ node[n].kind = "index"

-----------------------------------------------------------------------------
(* Records and nodes *)

\* The length of a record with its length field and its entry in the offsets.
RecordLength(kind, k) == KeyLength[k] + (IF kind = "leaf" THEN DataLength ELSE PointerLength)

\* getFreeSpace
FreeSpace(n) ==
    LET recs == node[n].recs
        taken[i \in 0 .. Len(recs)] ==
            IF i = 0 THEN 0 ELSE taken[i - 1] + RecordLength(node[n].kind, recs[i].key)
    IN  NodeSpace - taken[Len(recs)]

\* Not counting the record's entry in the offsets.
FitsWithoutOffset(free, length) == free + 2 >= length

Fits(free, length) == free >= length

\* The loop of every routine: the number of records in front of the key, and
\* whether the next one has the key itself.
Before(recs, k) ==
    CHOOSE i \in 0 .. Len(recs) :
        /\ \A j \in 1 .. i : recs[j].key < k
        /\ i < Len(recs) => recs[i + 1].key >= k
Exact(recs, k) == \E i \in DOMAIN recs : recs[i].key = k

\* doAddRecord
WithRecord(nd, n, r) ==
    IF Exact(nd[n].recs, r.key) THEN nd
    ELSE [nd EXCEPT ![n].recs = InsertAt(@, Before(@, r.key) + 1, r)]

\* splitNode: the second half of the records moves to a new right sibling. (The
\* first two leave out the link back from the old sibling, and one record.)
SplitUnlinked(nd, n, new) ==
    LET half == Len(nd[n].recs) \div 2
    IN  [nd EXCEPT ![n] = [@ EXCEPT !.recs = SubSeq(@, 1, half), !.fLink = new],
                   ![new] = [nd[n] EXCEPT !.recs = SubSeq(@, half + 1, Len(@)), !.bLink = n]]

SplitOneLost(nd, n, new) ==
    LET half == Len(nd[n].recs) \div 2
    IN  [m \in DOMAIN nd |->
            CASE m = n -> [nd[n] EXCEPT !.recs = SubSeq(@, 1, half), !.fLink = new]
              [] m = new -> [nd[n] EXCEPT !.recs = SubSeq(@, half + 2, Len(@)), !.bLink = n]
              [] m = nd[n].fLink -> [nd[m] EXCEPT !.bLink = new]
              [] OTHER -> nd[m]]

Split(nd, n, new) ==
    LET half == Len(nd[n].recs) \div 2
    IN  [m \in DOMAIN nd |->
            CASE m = n -> [nd[n] EXCEPT !.recs = SubSeq(@, 1, half), !.fLink = new]
              [] m = new -> [nd[n] EXCEPT !.recs = SubSeq(@, half + 1, Len(@)), !.bLink = n]
              [] m = nd[n].fLink -> [nd[m] EXCEPT !.bLink = new]
              [] OTHER -> nd[m]]

\* After a split, a record whose place i is in the first half goes to the left.
SplitWith(n, i, r, new) ==
    LET nd == Split(node, n, new)
    IN  WithRecord(nd, IF i < Len(nd[n].recs) THEN n ELSE new, r)

Link(k, n) == [key |-> k, data |-> n]
FirstKey(n) == node[n].recs[1].key

-----------------------------------------------------------------------------
(* The node map *)

\* findFree takes the lowest clear bit of the map, wherever the file ends.
FreshNode == CHOOSE n \in Nodes \ map : \A m \in Nodes \ map : n <= m

\* getNewNode, with growBTree when freeNodes is 0: growBTree does not look at
\* what allocate() returns. `grown` is the number of nodes the file gained.
Grown(gained) == IF header.freeNodes = 0 THEN gained ELSE 0
GetNewNode(gained, h) ==
    /\ gained \in {IF ok THEN Clump ELSE 0 : ok \in AllocateCan}
    /\ map' = map \cup {FreshNode}
    /\ header' = [h EXCEPT !.totalNodes = @ + Grown(gained),
                           !.freeNodes = (@ + Grown(gained) - 1) % WordRange]

\* splitNode moves the end of the leaves to the new node.
AfterSplit(n) ==
    IF Leaf(n) /\ n = header.lastLeafNode THEN [header EXCEPT !.lastLeafNode = FreshNode] ELSE header

\* removeNode unlinks the node from its siblings and from the header record.
NodeRemoved(nd, n) ==
    [m \in DOMAIN nd |->
        CASE m = n -> Blank
          [] m = nd[n].bLink -> [nd[m] EXCEPT !.fLink = nd[n].fLink]
          [] m = nd[n].fLink -> [nd[m] EXCEPT !.bLink = nd[n].bLink]
          [] OTHER -> nd[m]]

\* (The first forgets freeNodes.)
FreeNodesKept(h, n) ==
    [h EXCEPT !.firstLeafNode = IF @ = n THEN node[n].fLink ELSE @,
              !.lastLeafNode = IF @ = n THEN node[n].bLink ELSE @,
              !.rootNode = IF @ = n THEN 0 ELSE @]
HeaderWithoutNode(h, n) ==
    [h EXCEPT !.freeNodes = @ + 1,
              !.firstLeafNode = IF @ = n THEN node[n].fLink ELSE @,
              !.lastLeafNode = IF @ = n THEN node[n].bLink ELSE @,
              !.rootNode = IF @ = n THEN 0 ELSE @]

-----------------------------------------------------------------------------
\* "Record data extends past offsets": no node ever holds more than it has room
\* for.
RecordsFit == \A n \in map \ {0} : FreeSpace(n) >= 0

\* The call has read something that is no node of the tree, or written records
\* over the offsets of a node: what follows is not modelled.
Astray == pc = "wild" \/ ~RecordsFit \/ (at # 0 /\ node[at] = Blank /\ pc = "descend")
Running(where) == pc = where /\ ~Astray

-----------------------------------------------------------------------------
Init ==
    /\ node = [n \in Nodes |-> Blank]
    /\ map = {0}
    /\ header = [rootNode |-> 0, firstLeafNode |-> 0, lastLeafNode |-> 0, leafRecords |-> 0,
                 treeDepth |-> 0, totalNodes |-> StartNodes, freeNodes |-> StartNodes - 1]
    /\ pc = "idle" /\ op = NoCall /\ at = 0 /\ path = <<>>
    /\ newNode = 0 /\ gone = FALSE /\ callAgain = FALSE

\* addToBTree and removeFromBTree start at the root.
AddStart(k, v) ==
    /\ Running("idle")
    /\ pc' = "descend" /\ op' = [kind |-> "add", key |-> k, data |-> v]
    /\ at' = header.rootNode /\ callAgain' = FALSE
    /\ UNCHANGED <<tree, path, newNode, gone>>

\* An activation returns 0, and so do all above it.
ReturnNothing == pc' = "ascend" /\ newNode' = 0 /\ path' = <<>>

\* addToBTree on an empty tree makes its first leaf.
AddFirstRecord ==
    /\ Running("descend") /\ op.kind = "add" /\ at = 0
    /\ node' = [node EXCEPT ![FreshNode] =
                   [kind |-> "leaf", height |-> 1, fLink |-> 0, bLink |-> 0,
                    recs |-> <<Link(op.key, op.data)>>]]
    /\ \E gained \in {0, Clump} :
          GetNewNode(gained, [header EXCEPT !.rootNode = FreshNode, !.firstLeafNode = FreshNode,
                                            !.lastLeafNode = FreshNode, !.leafRecords = 1,
                                            !.treeDepth = 1])
    /\ ReturnNothing
    /\ UNCHANGED <<op, at, gone, callAgain>>

\* addRecord finds the key, in a leaf or in an index node, and adds nothing.
AddPresent ==
    /\ Running("descend") /\ op.kind = "add" /\ at # 0
    /\ Exact(node[at].recs, op.key)
    /\ ReturnNothing
    /\ UNCHANGED <<tree, op, at, gone, callAgain>>

CountLeafRecord(h) == [h EXCEPT !.leafRecords = @ + 1]

\* addRecord in a leaf that has room, and in one that has not.
AddToLeaf ==
    /\ Running("descend") /\ op.kind = "add" /\ Leaf(at)
    /\ ~Exact(node[at].recs, op.key)
    /\ Fits(FreeSpace(at), RecordLength("leaf", op.key))
    /\ node' = WithRecord(node, at, Link(op.key, op.data))
    /\ header' = CountLeafRecord(header)
    /\ ReturnNothing
    /\ UNCHANGED <<map, op, at, gone, callAgain>>

AddToFullLeaf ==
    /\ Running("descend") /\ op.kind = "add" /\ Leaf(at)
    /\ ~Exact(node[at].recs, op.key)
    /\ ~Fits(FreeSpace(at), RecordLength("leaf", op.key))
    /\ node' = SplitWith(at, Before(node[at].recs, op.key), Link(op.key, op.data), FreshNode)
    /\ \E gained \in {0, Clump} : GetNewNode(gained, CountLeafRecord(AfterSplit(at)))
    /\ pc' = "ascend" /\ newNode' = FreshNode
    /\ UNCHANGED <<op, at, path, gone, callAgain>>

\* One activation calls the next; what it read of its node it keeps.
Call(i, child, exact) ==
    /\ path' = Append(path, [node |-> at, i |-> i, free |-> FreeSpace(at), child |-> child, exact |-> exact])
    /\ at' = child

\* addRecord in an index node: down to the last child whose key is smaller.
AddDescend ==
    LET recs == node[at].recs
        i == Before(recs, op.key)
    IN  /\ Running("descend") /\ op.kind = "add" /\ Index(at)
        /\ ~Exact(recs, op.key) /\ i > 0
        /\ Call(i, recs[i].data, FALSE)
        /\ UNCHANGED <<tree, pc, op, newNode, gone, callAgain>>

\* A key in front of all others replaces the first key of the index node before
\* the record is added below.
LowestKey == Before(node[at].recs, op.key) = 0 /\ ~Exact(node[at].recs, op.key)
Growth == KeyLength[op.key] - KeyLength[FirstKey(at)]

FirstKeyKept == node
FirstKeyReplaced == [node EXCEPT ![at].recs[1].key = op.key]

AddDescendLowest ==
    /\ Running("descend") /\ op.kind = "add" /\ Index(at)
    /\ LowestKey
    /\ Growth <= 0 \/ Fits(FreeSpace(at), Growth)
    /\ node' = FirstKeyReplaced
    /\ Call(0, node[at].recs[1].data, FALSE)
    /\ UNCHANGED <<map, header, pc, op, newNode, gone, callAgain>>

\* "very unlikely. We need to split this node before we can resize the key of
\* this index. Do that first, and tell them to call again."
AddSplitFirst ==
    /\ Running("descend") /\ op.kind = "add" /\ Index(at)
    /\ LowestKey
    /\ Growth > 0 /\ ~Fits(FreeSpace(at), Growth)
    /\ node' = Split(node, at, FreshNode)
    /\ \E gained \in {0, Clump} : GetNewNode(gained, AfterSplit(at))
    /\ callAgain' = TRUE
    /\ pc' = "ascend" /\ newNode' = FreshNode
    /\ UNCHANGED <<op, at, path, gone>>

\* The node that split below gets a record in the node above it, by the free
\* space that was there on the way down.
LinkNewNode(f, nd) ==
    LET r == Link(FirstKey(newNode), newNode)
    IN  IF Fits(f.free, RecordLength("index", r.key))
        THEN /\ node' = WithRecord(nd, f.node, r)
             /\ newNode' = 0
             /\ UNCHANGED <<map, header>>
        ELSE LET sp == Split(nd, f.node, FreshNode)
             IN  /\ node' = WithRecord(sp, IF f.i < Len(sp[f.node].recs) THEN f.node ELSE FreshNode, r)
                 /\ newNode' = FreshNode
                 /\ \E gained \in {0, Clump} : GetNewNode(gained, AfterSplit(f.node))

AddAscend ==
    /\ Running("ascend") /\ op.kind = "add" /\ path # <<>>
    /\ LinkNewNode(Last(path), node)
    /\ path' = IF newNode' = 0 THEN <<>> ELSE Front(path)
    /\ UNCHANGED <<pc, op, at, gone, callAgain>>

-----------------------------------------------------------------------------
\* increaseHeight: a new root above the old one and the node split from it.
IncreaseHeight ==
    LET old == header.rootNode
    IN  /\ Running("ascend") /\ path = <<>> /\ newNode # 0
        /\ node' = [node EXCEPT ![FreshNode] =
                       [kind |-> "index", height |-> header.treeDepth + 1, fLink |-> 0, bLink |-> 0,
                        recs |-> <<Link(FirstKey(old), old), Link(FirstKey(newNode), newNode)>>]]
        /\ \E gained \in {0, Clump} :
              GetNewNode(gained, [header EXCEPT !.rootNode = FreshNode, !.treeDepth = @ + 1])
        /\ newNode' = 0
        /\ UNCHANGED <<pc, op, at, path, gone, callAgain>>

\* The loop of addToBTree and removeFromBTree. (The first does not reset
\* callAgain.)
CallForEver ==
    /\ Running("ascend") /\ path = <<>> /\ newNode = 0 /\ callAgain
    /\ pc' = "descend" /\ at' = header.rootNode
    /\ UNCHANGED <<tree, op, path, newNode, gone, callAgain>>

CallAgain ==
    /\ Running("ascend") /\ path = <<>> /\ newNode = 0 /\ callAgain
    /\ pc' = "descend" /\ at' = header.rootNode /\ callAgain' = FALSE
    /\ UNCHANGED <<tree, op, path, newNode, gone>>

Return ==
    /\ Running("ascend") /\ path = <<>> /\ newNode = 0 /\ ~callAgain
    /\ pc' = "idle" /\ op' = NoCall /\ at' = 0 /\ gone' = FALSE
    /\ UNCHANGED <<tree, path, newNode, callAgain>>

-----------------------------------------------------------------------------
RemoveStart(k) ==
    /\ Running("idle")
    /\ op' = [kind |-> "remove", key |-> k]
    /\ IF header.rootNode # 0
       THEN pc' = "descend" /\ at' = header.rootNode
       ELSE pc' = "wild" /\ UNCHANGED at   \* the header node is read as the root
    /\ callAgain' = FALSE
    /\ UNCHANGED <<tree, path, newNode, gone>>

\* removeRecord in an index node.
RemoveDescend ==
    LET recs == node[at].recs
        i == Before(recs, op.key)
    IN  /\ Running("descend") /\ op.kind = "remove" /\ Index(at)
        /\ IF Exact(recs, op.key)
           THEN Call(i, recs[i + 1].data, TRUE)
           ELSE i > 0 /\ Call(IF i = Len(recs) THEN i - 1 ELSE i, recs[i].data, FALSE)
        /\ UNCHANGED <<tree, pc, op, newNode, gone, callAgain>>

RemoveFromLeaf ==
    LET recs == node[at].recs
        left == [node EXCEPT ![at].recs = RemoveAt(@, Before(@, op.key) + 1)]
        h == [header EXCEPT !.leafRecords = @ - 1]
    IN  /\ Running("descend") /\ op.kind = "remove" /\ Leaf(at)
        /\ Exact(recs, op.key)
        /\ IF Len(recs) > 1
           THEN /\ node' = left /\ header' = h /\ gone' = FALSE
                /\ UNCHANGED map
           ELSE /\ node' = NodeRemoved(left, at) /\ map' = map \ {at}
                /\ header' = HeaderWithoutNode(h, at) /\ gone' = TRUE
        /\ pc' = "ascend" /\ newNode' = 0
        /\ UNCHANGED <<op, at, path, callAgain>>

\* "not found": the key is in front of a record of the leaf, or of all records
\* of the tree.
RemoveNotFound ==
    LET recs == node[at].recs
    IN  /\ Running("descend") /\ op.kind = "remove"
        /\ ~Exact(recs, op.key)
        /\ IF Leaf(at) THEN Before(recs, op.key) < Len(recs) ELSE Before(recs, op.key) = 0
        /\ pc' = "ascend" /\ newNode' = 0 /\ gone' = FALSE
        /\ UNCHANGED <<tree, op, at, path, callAgain>>

\* The key is behind all records of the leaf: the loop ends, and the data of the
\* last record is taken for the number of a child.
RemoveBehindLeaf ==
    LET recs == node[at].recs
    IN  /\ Running("descend") /\ op.kind = "remove" /\ Leaf(at)
        /\ ~Exact(recs, op.key) /\ Before(recs, op.key) = Len(recs)
        /\ pc' = "wild"
        /\ UNCHANGED <<tree, op, at, path, newNode, gone, callAgain>>

\* What an activation does when the one below has returned: drop the record of a
\* child that is gone, or follow a change of the child's first key.
IndexKeyLeft(f) == node
IndexKeyMoved(f) == [node EXCEPT ![f.node].recs[f.i + 1] = Link(FirstKey(f.child), f.child)]
AfterChild(f) ==
    IF gone THEN [node EXCEPT ![f.node].recs = RemoveAt(@, f.i + 1)]
    ELSE IF f.exact THEN IndexKeyMoved(f)
    ELSE node

\* The changed key is longer than the old one and the index node has no room.
KeyTooLong(f) ==
    /\ ~gone /\ f.exact
    /\ KeyLength[FirstKey(f.child)] > KeyLength[op.key]
    /\ ~Fits(f.free, KeyLength[FirstKey(f.child)] - KeyLength[op.key])

RemoveAscend ==
    LET f == Last(path)
        nd == AfterChild(f)
    IN  /\ Running("ascend") /\ op.kind = "remove" /\ path # <<>>
        /\ ~KeyTooLong(f)
        /\ IF newNode # 0 THEN LinkNewNode(f, nd) /\ gone' = FALSE
           ELSE IF nd[f.node].recs = <<>>
           THEN /\ node' = NodeRemoved(nd, f.node) /\ map' = map \ {f.node}
                /\ header' = HeaderWithoutNode(header, f.node) /\ gone' = TRUE
                /\ UNCHANGED newNode
           ELSE node' = nd /\ gone' = FALSE /\ UNCHANGED <<map, header, newNode>>
        /\ path' = Front(path)
        /\ UNCHANGED <<pc, op, at, callAgain>>

RemoveSplitFirst ==
    LET f == Last(path)
    IN  /\ Running("ascend") /\ op.kind = "remove" /\ path # <<>>
        /\ KeyTooLong(f)
        /\ node' = Split(node, f.node, FreshNode)
        /\ \E gained \in {0, Clump} : GetNewNode(gained, AfterSplit(f.node))
        /\ newNode' = FreshNode /\ callAgain' = TRUE /\ gone' = FALSE
        /\ path' = Front(path)
        /\ UNCHANGED <<pc, op, at>>

-----------------------------------------------------------------------------
(* What the tree holds *)

\* The leaves from firstLeafNode along fLink.
LeafChain ==
    LET leaf[i \in 0 .. MaxNodes] ==
            IF i = 0 THEN header.firstLeafNode
            ELSE IF leaf[i - 1] = 0 THEN 0 ELSE node[leaf[i - 1]].fLink
    IN  {leaf[i] : i \in 0 .. MaxNodes} \ {0}

Records == UNION {Range(node[n].recs) : n \in LeafChain}
Content == [k \in {r.key : r \in Records} |-> (CHOOSE r \in Records : r.key = k).data]

\* searchNode: at each node the record with the key, or the last one in front of
\* it; hfs_panic("BTree inconsistent!") when there is neither.
Followed(recs, k) ==
    IF Exact(recs, k) THEN Before(recs, k) + 1 ELSE Before(recs, k)
Search(k) ==
    LET visited[i \in 0 .. MaxNodes] ==
            IF i = 0 THEN header.rootNode
            ELSE LET n == visited[i - 1]
                 IN  IF n = 0 THEN 0
                     ELSE IF Leaf(n) THEN n
                     ELSE LET j == Followed(node[n].recs, k)
                          IN  IF j = 0 THEN 0 ELSE node[n].recs[j].data
        n == visited[MaxNodes]
    IN  IF n = 0 \/ Followed(node[n].recs, k) = 0
        THEN [panic |-> TRUE]
        ELSE [panic |-> FALSE, exact |-> Exact(node[n].recs, k),
              data |-> node[n].recs[Followed(node[n].recs, k)].data]

AddCall == \E k \in Keys, v \in Values : AddStart(k, v)
RemoveCall == \E k \in MayRemove : (RemoveAbsent \/ k \in DOMAIN Content) /\ RemoveStart(k)

Step ==
    \/ AddFirstRecord \/ AddPresent \/ AddToLeaf \/ AddToFullLeaf \/ AddDescend \/ AddDescendLowest \/ AddSplitFirst
    \/ AddAscend \/ IncreaseHeight \/ CallAgain \/ Return
    \/ RemoveDescend \/ RemoveFromLeaf \/ RemoveNotFound \/ RemoveBehindLeaf
    \/ RemoveAscend \/ RemoveSplitFirst

Next ==
    \/ AddCall \/ RemoveCall \/ Step
    \/ Astray /\ UNCHANGED vars

Spec == Init /\ [][Next]_vars
FairSpec == Spec /\ WF_vars(Step)

-----------------------------------------------------------------------------
Children(n) == IF Index(n) THEN {r.data : r \in Range(node[n].recs)} ELSE {}
Reachable ==
    LET level[i \in 0 .. MaxNodes] ==
            IF i = 0 THEN {header.rootNode} \ {0} ELSE UNION {Children(n) : n \in level[i - 1]}
    IN  UNION {level[i] : i \in 0 .. MaxNodes}

\* traverseNode of debugBTree: between calls the records of a node are in order,
\* an index record has the first key of its child, and heights fall by one down
\* to the leaves.
TraverseConsistent ==
    pc = "idle" =>
        \A n \in Reachable :
            LET recs == node[n].recs
            IN  /\ recs # <<>>
                /\ \A i \in 1 .. Len(recs) - 1 : recs[i].key < recs[i + 1].key
                /\ Leaf(n) <=> node[n].height = 1
                /\ n = header.rootNode => node[n].height = header.treeDepth
                /\ Index(n) => \A r \in Range(recs) :
                        node[r.data].height = node[n].height - 1 /\ FirstKey(r.data) = r.key

\* linearCheck of debugBTree: between calls the nodes of a height are linked in
\* the order of their keys, all of them in one chain, the leaves from
\* firstLeafNode to lastLeafNode, and leafRecords counts their records.
LinearConsistent ==
    pc = "idle" =>
        /\ \A n \in Reachable :
              LET next == node[n].fLink
              IN  /\ next # 0 => /\ next \in Reachable
                                 /\ node[next].bLink = n
                                 /\ node[next].height = node[n].height
                                 /\ Last(node[n].recs).key < FirstKey(next)
                  /\ \A m \in Reachable \ {n} : node[m].height = node[n].height =>
                        node[m].bLink # node[n].bLink /\ node[m].fLink # next
        /\ LeafChain = {n \in Reachable : Leaf(n)}
        /\ header.lastLeafNode # 0 => node[header.lastLeafNode].fLink = 0
        /\ (header.firstLeafNode = 0) = (header.rootNode = 0)
        /\ (header.lastLeafNode = 0) = (header.rootNode = 0)
        /\ header.leafRecords = Cardinality(Records)

\* mapNodes and the last check of debugBTree: between calls the map marks the
\* header node and the nodes of the tree, no node is lost, and freeNodes counts
\* the others.
MapConsistent ==
    pc = "idle" =>
        /\ map = {0} \cup Reachable
        /\ header.freeNodes = header.totalNodes - Cardinality(map)

\* Between calls search() finds the record of every key that is in the tree, and
\* says of every other key behind the first that it is not.
SearchFinds ==
    pc = "idle" =>
        \A k \in Keys :
            (\E j \in DOMAIN Content : j <= k) =>
                LET s == Search(k)
                IN  /\ ~s.panic
                    /\ s.exact = (k \in DOMAIN Content)
                    /\ s.exact => s.data = Content[k]

\* Callers see a map: the records of the leaves change as the call asks, once
\* and completely.
Request ==
    IF pc = "idle" THEN [op |-> "none"]
    ELSE IF op.kind = "add" THEN [op |-> "add", key |-> op.key, val |-> op.data]
    ELSE [op |-> "remove", key |-> op.key]
Map == INSTANCE Dictionary WITH content <- Content, request <- Request
TreeIsDictionary == Map!Spec

\* A call leaves the records of all other keys alone at each of its steps, in
\* the splits and removals of nodes and even in a tree that an earlier call has
\* left inconsistent.
OthersKept ==
    [][LET before == Content
           after == Content'
       IN  \A k \in Keys : (op = NoCall \/ op.key # k) =>
               /\ (k \in DOMAIN before) = (k \in DOMAIN after)
               /\ k \in DOMAIN before => after[k] = before[k]]_vars

\* Every call returns, unless it goes astray.
CallReturns == (pc # "idle") ~> (pc = "idle" \/ Astray)
=============================================================================
