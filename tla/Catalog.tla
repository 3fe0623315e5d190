------------------------------ MODULE Catalog -------------------------------
(***************************************************************************)
(* The catalog of an HFS+ volume: the lookups and the calls of             *)
(* emf_decrypter/hfs/catalog.c that change it, over the records that       *)
(* BTree's Dictionary keeps.                                               *)
(*                                                                         *)
(* A call looks its paths up, changes copies of records and the volume     *)
(* header in memory, and then adds, removes and rewrites records one after *)
(* the other; each of these writes reaches the image at once. `todo` holds *)
(* the writes that the running call has still to make. Link texts are      *)
(* sequences of names; all names have the same length. What no call checks *)
(* (a name that is taken, a folder moved into itself) leaves records that  *)
(* mean nothing: such a call is followed to its end and no call after it.  *)
(***************************************************************************)
EXTENDS Integers, FiniteSets, SequencesExt

CONSTANTS
    Names,       \* the names of items
    NoName,      \* the empty name in the key of a thread record
    VolumeName,  \* the name of the root folder
    LinkTexts,   \* what symbolic links are made to say, relative to their folder
    MaxRenames,  \* bound: renames inside one folder
    MaxID,       \* bound: the largest id given
    MaxPath,     \* bound: the longest path in a call
    MaxWords     \* bound: words that one lookup reads, links included

RootParent == 1    \* kHFSRootParentID
Root == 2          \* kHFSRootFolderID
FirstID == 3       \* stands for kHFSFirstUserCatalogNodeID
Ids == FirstID .. MaxID
Paths == UNION {[1 .. n -> Names] : n \in 1 .. MaxPath}

ASSUME InputAssumption ==
    /\ LinkTexts \subseteq Seq(Names)
    /\ NoName \notin Names \cup {VolumeName} /\ VolumeName \notin Names
    /\ {MaxID, MaxPath, MaxWords, MaxRenames} \subseteq Nat

VARIABLES
    catalog,      \* the records of the catalog B-tree, by key <<parent id, name>>
    text,         \* what the data fork of each symbolic link says
    header,       \* nextCatalogID, fileCount and folderCount
    savedHeader,  \* the same on the image
    todo,         \* the writes the running call has still to make
    before,       \* history: the catalog and next id when it began, and its item
    renamed,      \* history: for each folder, the items renamed without leaving it
    broken        \* history: a call was made that no call checks for

vars == <<catalog, text, header, savedHeader, todo, before, renamed, broken>>

-----------------------------------------------------------------------------
(* Records and their keys *)

ThreadKey(id) == <<id, NoName>>
Folder(id) == [kind |-> "folder", id |-> id, valence |-> 0]
File(id) == [kind |-> "file", id |-> id, link |-> FALSE]
Thread(parent, name) == [kind |-> "thread", parent |-> parent, name |-> name]
RootKey == <<RootParent, VolumeName>>

NoKey == <<0, NoName>>
Found(key) == key # NoKey
IsFolder(key) == Found(key) /\ catalog[key].kind = "folder"

KeyOf(id) == LET t == catalog[ThreadKey(id)] IN <<t.parent, t.name>>
RecordByCNID(id) == catalog[KeyOf(id)]

\* getRecordFromPath3: the words of the path, from the folder reached so far. A
\* link is replaced by the words it says, unless it is the last word and the
\* caller wants the link itself; a file in the middle is not found.
NextWord(w, returnLink) ==
    LET key == <<w.folder, Head(w.words)>>
        rest == Tail(w.words)
        rec == catalog[key]
        last == rest = <<>>
    IN  IF w.words = <<>> THEN w
        ELSE IF key \notin DOMAIN catalog
        THEN [folder |-> 0, words |-> <<>>, key |-> NoKey]
        ELSE IF rec.kind = "folder"
        THEN [folder |-> rec.id, words |-> rest, key |-> key]
        ELSE IF rec.link /\ (returnLink \/ ~last)
        THEN IF text[rec.id] = <<>>
             THEN [folder |-> Root, words |-> rest, key |-> RootKey]
             ELSE [folder |-> w.folder, words |-> text[rec.id] \o rest, key |-> w.key]
        ELSE [folder |-> 0, words |-> <<>>, key |-> IF last THEN key ELSE NoKey]

Walk(path, returnLink) ==
    LET walk[n \in 0 .. MaxWords] ==
            IF n = 0 THEN [folder |-> Root, words |-> path, key |-> RootKey]
            ELSE NextWord(walk[n - 1], returnLink)
    IN  walk[MaxWords]

\* A chain of links with no end is followed until the stack is full.
Ends(path, returnLink) == Walk(path, returnLink).words = <<>>
Lookup(path, returnLink) == Walk(path, returnLink).key

-----------------------------------------------------------------------------
(* The writes *)

AddRecord(key, rec) == [op |-> "add", key |-> key, rec |-> rec]
RemoveKey(key) == [op |-> "remove", key |-> key]
UpdateCatalog(rec) == [op |-> "update", rec |-> rec]
WriteText(id, t) == [op |-> "text", id |-> id, text |-> t]
CountDown(kind) == [op |-> "count", kind |-> kind]
UpdateVolume == [op |-> "save"]

Doing(op) == todo # <<>> /\ Head(todo).op = op
Finish(rest) ==
    /\ todo' = rest
    /\ before' = IF rest = <<>> /\ ~broken
                 THEN [catalog |-> catalog', next |-> header'.next, item |-> 0]
                 ELSE before
    /\ UNCHANGED <<renamed, broken>>

\* addToBTree: a key that is there keeps its record.
DoAdd ==
    /\ Doing("add")
    /\ LET w == Head(todo)
       IN  catalog' = IF w.key \in DOMAIN catalog THEN catalog
                      ELSE [k \in DOMAIN catalog \cup {w.key} |->
                               IF k = w.key THEN w.rec ELSE catalog[k]]
    /\ UNCHANGED <<text, header, savedHeader>>
    /\ Finish(Tail(todo))

\* removeFromBTree; what it does with a key that is not there is undefined.
DoRemove ==
    /\ Doing("remove") /\ Head(todo).key \in DOMAIN catalog
    /\ catalog' = Restrict(catalog, DOMAIN catalog \ {Head(todo).key})
    /\ UNCHANGED <<text, header, savedHeader>>
    /\ Finish(Tail(todo))

\* updateCatalog looks the key up in the thread, removes the record and adds the
\* one in memory.
AddedLast(key, rec) == Append(Tail(todo), AddRecord(key, rec))
AddedBack(key, rec) == <<AddRecord(key, rec)>> \o Tail(todo)

DoUpdate ==
    /\ Doing("update")
    /\ LET rec == Head(todo).rec
       IN  /\ ThreadKey(rec.id) \in DOMAIN catalog /\ KeyOf(rec.id) \in DOMAIN catalog
           /\ catalog' = Restrict(catalog, DOMAIN catalog \ {KeyOf(rec.id)})
           /\ UNCHANGED <<text, header, savedHeader>>
           /\ Finish(AddedBack(KeyOf(rec.id), rec))

DoText ==
    /\ Doing("text")
    /\ text' = [text EXCEPT ![Head(todo).id] = Head(todo).text]
    /\ UNCHANGED <<catalog, header, savedHeader>>
    /\ Finish(Tail(todo))

DoCount ==
    /\ Doing("count")
    /\ header' = IF Head(todo).kind = "folder" THEN [header EXCEPT !.folders = @ - 1]
                 ELSE [header EXCEPT !.files = @ - 1]
    /\ UNCHANGED <<catalog, text, savedHeader>>
    /\ Finish(Tail(todo))

DoSave ==
    /\ Doing("save")
    /\ savedHeader' = header
    /\ UNCHANGED <<catalog, text, header>>
    /\ Finish(Tail(todo))

Write == DoAdd \/ DoRemove \/ DoUpdate \/ DoText \/ DoCount \/ DoSave

-----------------------------------------------------------------------------
Init ==
    /\ catalog = [k \in {RootKey, ThreadKey(Root)} |->
                     IF k = RootKey THEN Folder(Root) ELSE Thread(RootParent, VolumeName)]
    /\ text = [i \in Ids |-> <<>>]
    /\ header = [next |-> FirstID, files |-> 0, folders |-> 0]
    /\ savedHeader = header
    /\ todo = <<>>
    /\ before = [catalog |-> catalog, next |-> FirstID, item |-> 0]
    /\ renamed = [i \in {Root} \cup Ids |-> 0]
    /\ broken = FALSE

Ready == todo = <<>> /\ ~broken

Begin(item, writes) ==
    /\ todo' = writes
    /\ before' = [before EXCEPT !.item = item]
    /\ UNCHANGED <<catalog, text, savedHeader>>

More(folder) == [folder EXCEPT !.valence = @ + 1]
LessKept(folder) == folder
Less(folder) == [folder EXCEPT !.valence = @ - 1]

\* A path that names nothing yet: its folder and its last word.
ParentKey(path) == Lookup(Front(path), TRUE)
KeyAt(path) == <<catalog[ParentKey(path)].id, Last(path)>>
Taken(path) == KeyAt(path) \in DOMAIN catalog

\* The writes of newFolder and newFile for a record `rec` at `path`.
CreateWrites(path, rec) ==
    LET parent == catalog[ParentKey(path)]
    IN  <<AddRecord(KeyAt(path), rec),
          AddRecord(ThreadKey(rec.id), Thread(parent.id, Last(path))),
          UpdateCatalog(More(parent)), UpdateVolume>>

CanCreate(path) ==
    /\ Ready /\ header.next \in Ids
    /\ Ends(Front(path), TRUE) /\ IsFolder(ParentKey(path))

NewFolder(path) ==
    /\ CanCreate(path)
    /\ broken' = Taken(path) /\ UNCHANGED renamed
    /\ header' = [header EXCEPT !.next = @ + 1, !.folders = @ + 1]
    /\ Begin(header.next, CreateWrites(path, Folder(header.next)))

\* allocate() of a file's data fork, as far as the catalog sees it.
Resize(rec) == <<UpdateVolume, UpdateCatalog(rec)>>

\* add_hfs makes a file when the path leads to nothing, looks it up and gives it its
\* size; behind a link to nothing the name is taken, the lookup fails again and the
\* process ends.
NewFile(path) ==
    LET rec == File(header.next)
    IN  /\ CanCreate(path)
        /\ Ends(path, TRUE) /\ ~Found(Lookup(path, TRUE))
        /\ broken' = Taken(path) /\ UNCHANGED renamed
        /\ header' = [header EXCEPT !.next = @ + 1, !.files = @ + 1]
        /\ Begin(rec.id, CreateWrites(path, rec) \o
                         (IF Taken(path) THEN <<>> ELSE Resize(rec)))

\* add_hfs of a path that leads to a file.
OverwriteFile(path) ==
    LET key == Lookup(path, TRUE)
    IN  /\ Ready /\ Ends(path, TRUE)
        /\ Found(key) /\ catalog[key].kind = "file"
        /\ UNCHANGED <<header, renamed, broken>>
        /\ Begin(catalog[key].id, Resize(catalog[key]))

\* A new link: newFile, then the record again with its type, then allocate() and
\* the text.
MakeSymlink(path, t) ==
    LET rec == [File(header.next) EXCEPT !.link = TRUE]
    IN  /\ CanCreate(path)
        /\ ~Found(Lookup(path, FALSE))
        /\ header' = [header EXCEPT !.next = @ + 1, !.files = @ + 1]
        /\ UNCHANGED <<renamed, broken>>
        /\ Begin(rec.id, CreateWrites(path, File(rec.id)) \o
                         <<UpdateCatalog(rec)>> \o Resize(rec) \o <<WriteText(rec.id, t)>>)

\* A link that is there is written over from its first byte; the rest of a longer
\* text stays.
WrittenOver(old, t) == t \o SubSeq(old, Len(t) + 1, Len(old))

RewriteSymlink(path, t) ==
    LET key == Lookup(path, FALSE)
        rec == catalog[key]
    IN  /\ Ready /\ Ends(path, FALSE)
        /\ Found(key) /\ rec.kind = "file" /\ rec.link
        /\ UNCHANGED <<header, renamed, broken>>
        /\ Begin(rec.id,
                 (IF Len(t) > Len(text[rec.id]) THEN Resize(rec) ELSE <<>>)
                 \o <<WriteText(rec.id, WrittenOver(text[rec.id], t))>>)

\* The folders from `id` up to the root, `id` among them.
Above(id) ==
    LET up[n \in 0 .. MaxID] ==
            IF n = 0 THEN id ELSE IF up[n - 1] = Root THEN Root ELSE KeyOf(up[n - 1])[1]
    IN  {up[n] : n \in 0 .. MaxID}

MovedThreadStays(from, to, name) == Thread(from, name)
MovedThread(from, to, name) == Thread(to, name)

\* move(): the valences of both parents are taken from copies read at the start, so
\* that a rename inside one folder leaves the second copy's count. The old name is
\* gone before the new one is added.
Unchecked(key, dest, to) ==
    \/ Taken(dest) /\ KeyAt(dest) # key
    \/ catalog[key].id \in Above(to.id)

Move(source, dest) ==
    LET key == Lookup(source, FALSE)
        rec == catalog[key]
        from == RecordByCNID(key[1])
        to == catalog[ParentKey(dest)]
    IN  /\ Ready
        /\ Ends(source, FALSE) /\ Found(key)
        /\ Ends(Front(dest), TRUE) /\ IsFolder(ParentKey(dest))
        /\ broken' = Unchecked(key, dest, to)
        /\ IF from.id = to.id
           THEN /\ renamed[to.id] < MaxRenames
                /\ renamed' = [renamed EXCEPT ![to.id] = @ + 1]
           ELSE UNCHANGED renamed
        /\ UNCHANGED header
        /\ Begin(rec.id,
                 <<RemoveKey(key), RemoveKey(ThreadKey(rec.id)),
                   AddRecord(KeyAt(dest), rec),
                   AddRecord(ThreadKey(rec.id), MovedThread(from.id, to.id, Last(dest))),
                   UpdateCatalog(Less(from)), UpdateCatalog(More(to))>>)

\* The end of removeFile.
LeaveParentUnsaved(kind, parent) ==
    <<UpdateVolume, CountDown(kind), UpdateCatalog(Less(parent))>>
LeaveParent(kind, parent) ==
    <<CountDown(kind), UpdateCatalog(Less(parent)), UpdateVolume>>

NotEmptyIgnored(rec) == FALSE
NotEmpty(rec) == rec.kind = "folder" /\ rec.valence > 0

\* The data fork of a file is given back first: allocate(0) writes the header and
\* the file's record.
RecordBeforeFork(key, rec) ==
    <<RemoveKey(key), RemoveKey(ThreadKey(rec.id)), UpdateVolume, UpdateCatalog(rec)>>
RemoveRecord(key, rec) ==
    (IF rec.kind = "file" THEN <<WriteText(rec.id, <<>>)>> \o Resize(rec) ELSE <<>>)
    \o <<RemoveKey(key), RemoveKey(ThreadKey(rec.id))>>

\* A link is removed itself, not what it leads to.
RemovedBehindLink(path) == Lookup(path, TRUE)
Removed(path) == Lookup(path, FALSE)

RemoveFile(path) ==
    LET key == Removed(path)
        rec == catalog[key]
    IN  /\ Ready
        /\ Ends(path, FALSE) /\ Found(key)
        /\ ~NotEmpty(rec)
        /\ UNCHANGED <<header, renamed, broken>>
        /\ Begin(rec.id, RemoveRecord(key, rec) \o LeaveParent(rec.kind, RecordByCNID(key[1])))

\* chmodFile and chownFile: the record with other permissions.
SetPermissions(path) ==
    /\ Ready
    /\ Ends(path, TRUE) /\ Found(Lookup(path, TRUE))
    /\ UNCHANGED <<header, renamed, broken>>
    /\ Begin(catalog[Lookup(path, TRUE)].id, <<UpdateCatalog(catalog[Lookup(path, TRUE)])>>)

Call ==
    \/ \E p \in Paths : NewFolder(p) \/ NewFile(p) \/ OverwriteFile(p) \/ RemoveFile(p)
    \/ \E p \in Paths, t \in LinkTexts : MakeSymlink(p, t) \/ RewriteSymlink(p, t)
    \/ \E p, q \in Paths : Move(p, q)
    \/ \E p \in Paths \cup {<<>>} : SetPermissions(p)

NotFollowed == broken /\ todo = <<>> /\ UNCHANGED vars

Next == Call \/ Write \/ NotFollowed

Spec == Init /\ [][Next]_vars

-----------------------------------------------------------------------------
ItemKeys(c) == {k \in DOMAIN c : k[2] # NoName}
Items(c) == ItemKeys(c) \ {RootKey}
Kind(c, kind) == {k \in Items(c) : c[k].kind = kind}

\* Between calls the thread of every item leads back to the item, and no thread
\* leads to anything else: a file found by its id is the file found by its path.
ThreadsMatch ==
    Ready =>
        /\ \A k \in ItemKeys(catalog) :
              /\ ThreadKey(catalog[k].id) \in DOMAIN catalog
              /\ KeyOf(catalog[k].id) = k
        /\ \A k \in DOMAIN catalog \ ItemKeys(catalog) :
              /\ KeyOf(k[1]) \in DOMAIN catalog
              /\ RecordByCNID(k[1]).id = k[1]

\* Between calls a folder's valence is the number of items in it, and of the renames
\* that there have been inside it: removeFile takes it for the first.
ValenceExact ==
    Ready =>
        \A k \in ItemKeys(catalog) : catalog[k].kind = "folder" =>
            catalog[k].valence = renamed[catalog[k].id]
                                 + Cardinality({j \in Items(catalog) : j[1] = catalog[k].id})

\* Between calls the header on the image counts the files and folders on the image
\* and has no id to give that an item has already.
CountsExact ==
    Ready =>
        /\ savedHeader = header
        /\ header.files = Cardinality(Kind(catalog, "file"))
        /\ header.folders = Cardinality(Kind(catalog, "folder"))
        /\ \A k \in Items(catalog) : catalog[k].id < header.next

\* No call removes or rewrites a record that is not there: removeFromBTree would
\* follow a leaf's data as a node number.
KeysPresent ==
    /\ Doing("remove") => Head(todo).key \in DOMAIN catalog
    /\ Doing("update") => /\ ThreadKey(Head(todo).rec.id) \in DOMAIN catalog
                          /\ KeyOf(Head(todo).rec.id) \in DOMAIN catalog

\* A process that dies inside a call leaves an image that has lost at most one
\* record, apart from those of the item the call is about: the record that
\* updateCatalog has removed and not added again. (A folder moved onto an item inside
\* itself takes that item's record: of a call that nothing checks nothing is said.)
DeathCostsOneRecord ==
    \A k \in DOMAIN before.catalog : ~broken =>
        LET old == before.catalog[k]
            id == IF old.kind = "thread" THEN k[1] ELSE old.id
        IN  id # before.item =>
                \/ /\ k \in DOMAIN catalog
                   /\ catalog[k].kind = old.kind
                   /\ old.kind # "thread" => catalog[k].id = id
                \/ Doing("add") /\ Head(todo).key = k

\* Callers see a tree of items under one root, which a call changes in one place
\* or not at all, up to a call that nothing checks.
TreeOf(c) ==
    [i \in {c[k].id : k \in Items(c)} |->
        LET k == CHOOSE j \in Items(c) : c[j].id = i
        IN  [parent |-> k[1], name |-> k[2], kind |-> c[k].kind]]

Tree == INSTANCE FolderTree WITH
    tree <- TreeOf(before.catalog),
    given <- FirstID .. before.next - 1
CatalogIsTree == Tree!Spec
=============================================================================
