------------------------------ MODULE Commands ------------------------------
(***************************************************************************)
(* The commands of emf_decrypter/hfs/hfslib.c and hfs.c that make several  *)
(* calls of the catalog: rmall empties a folder and removes it, addall     *)
(* merges a folder of the host into one of the volume, untar unpacks an    *)
(* archive. Each step looks its path up again in what the steps before it  *)
(* have left. `plan` holds the steps that the running command has still to *)
(* take; addall's merging of a folder into an item of another kind, or     *)
(* into a link, has no defined result and is left out.                     *)
(***************************************************************************)
EXTENDS Catalog

CONSTANTS
    HostFolders,   \* what addall merges: the kind of each path in a folder of the host
    Archives,      \* what untar unpacks: sequences of entries, folders before contents
    Programs       \* the paths that addall gives permissions

Sorts == {"dir", "file", "link"}
ArchiveEntries ==
    [op : {"entry"}, path : Seq(Names) \ {<<>>}, type : Sorts, text : Seq(Names)]

ASSUME CommandAssumption ==
    /\ \A host \in HostFolders :
          IsFiniteSet(DOMAIN host) /\ DOMAIN host \subseteq Seq(Names) \ {<<>>}
    /\ Archives \subseteq Seq(ArchiveEntries)

VARIABLES
    plan,   \* the steps still to take
    cmd     \* history: the tree when the command began, and what it is to do

cvars == <<vars, plan, cmd>>

NoCommand == [from |-> <<>>, lost |-> {}, made |-> {}]
Idle == Ready /\ plan = <<>> /\ cmd = NoCommand

Clear(id, path) == [op |-> "clear", id |-> id, path |-> path]
Discard(path) == [op |-> "remove", path |-> path]
Merge(path, host, at) == [op |-> "merge", path |-> path, host |-> host, at |-> at]
WriteFile(path) == [op |-> "write", path |-> path]
Mkdir(path) == [op |-> "mkdir", path |-> path]
Chmod(path) == [op |-> "chmod", path |-> path]
Entry(path, type, t) == [op |-> "entry", path |-> path, type |-> type, text |-> t]
Make(e) == [e EXCEPT !.op = "make"]

Taking(op) == Ready /\ plan # <<>> /\ Head(plan).op = op
Take(steps) == plan' = steps \o Tail(plan) /\ UNCHANGED cmd

Start(steps, lost, made) ==
    /\ plan' = steps
    /\ cmd' = [from |-> TreeOf(catalog), lost |-> lost, made |-> made]
    /\ UNCHANGED vars

-----------------------------------------------------------------------------
(* rmall *)

Contents(id) == {k \in Items(catalog) : k[1] = id}
Inside(id) == {i \in {catalog[k].id : k \in Items(catalog)} : id \in Above(i) \ {i}}

Rmall(path) ==
    LET id == catalog[Lookup(path, TRUE)].id
    IN  /\ Idle
        /\ Ends(path, TRUE) /\ IsFolder(Lookup(path, TRUE))
        /\ Start(<<Clear(id, path)>>,
                 Inside(id) \cup (IF path = <<>> THEN {} ELSE {catalog[Lookup(path, FALSE)].id}),
                 {})

\* removeAllInFolder, for one item of its list: a link is an item like a file.
ClearItem(key, path) ==
    IF IsFolder(key) THEN Clear(catalog[key].id, path) ELSE Discard(path)

\* The list of the folder is read before anything in it is removed.
TakeClear ==
    /\ Taking("clear")
    /\ LET step == Head(plan)
           list == SetToSeq(Contents(step.id))
       IN  Take([i \in DOMAIN list |-> ClearItem(list[i], Append(step.path, list[i][2]))]
                \o (IF step.path = <<>> THEN <<>> ELSE <<Discard(step.path)>>))
    /\ UNCHANGED vars

\* A folder that is not empty, or a name that leads to nothing, ends the process.
TakeRemove ==
    /\ Taking("remove")
    /\ LET path == Head(plan).path
       IN  IF Found(Removed(path)) /\ ~NotEmpty(catalog[Removed(path)])
           THEN RemoveFile(path) /\ Take(<<>>)
           ELSE plan' = <<>> /\ UNCHANGED <<vars, cmd>>

-----------------------------------------------------------------------------
(* addall *)

Sort(key) == IF catalog[key].kind = "folder" THEN "dir"
             ELSE IF catalog[key].link THEN "link" ELSE "file"
Has(path, sort) == Found(Lookup(path, FALSE)) => Sort(Lookup(path, FALSE)) = sort

Addall(host, path) ==
    /\ Idle /\ header.next + Cardinality(DOMAIN host) - 1 \in Ids
    /\ Ends(path, TRUE) /\ IsFolder(Lookup(path, TRUE))
    /\ \A p \in DOMAIN host : Ends(path \o p, FALSE) /\ Has(path \o p, host[p])
    /\ Start(<<Merge(path, host, <<>>)>>, {},
             {[path |-> path \o p, sort |-> host[p]] : p \in DOMAIN host})

\* addAllInFolder: every item of the host's folder, in the order the host gives.
TakeMerge ==
    /\ Taking("merge")
    /\ LET step == Head(plan)
           items == {p \in DOMAIN step.host : Front(p) = step.at}
       IN  \E order \in SetToAllKPermutations(items) :
              /\ Len(order) = Cardinality(items)
              /\ Take(FlattenSeq([i \in DOMAIN order |->
                    LET path == Append(step.path, Last(order[i]))
                    IN  IF step.host[order[i]] = "dir"
                        THEN <<Mkdir(path), Merge(path, step.host, order[i])>>
                        ELSE <<WriteFile(path)>> \o
                             (IF path \in Programs THEN <<Chmod(path)>> ELSE <<>>)]))
    /\ UNCHANGED vars

TakeMkdir ==
    /\ Taking("mkdir")
    /\ \/ NewFolder(Head(plan).path) /\ ~Taken(Head(plan).path)
       \/ IsFolder(Lookup(Head(plan).path, TRUE)) /\ UNCHANGED vars
    /\ Take(<<>>)

TakeWrite ==
    /\ Taking("write")
    /\ NewFile(Head(plan).path) \/ OverwriteFile(Head(plan).path)
    /\ Take(<<>>)

\* A name that leads round in circles ends the process.
TakeChmod ==
    /\ Taking("chmod")
    /\ LET path == Head(plan).path
       IN  \/ SetPermissions(path) /\ Take(<<>>)
           \/ Ends(path, TRUE) /\ ~Found(Lookup(path, TRUE)) /\ Take(<<>>) /\ UNCHANGED vars
           \/ ~Ends(path, TRUE) /\ plan' = <<>> /\ cmd' = NoCommand /\ UNCHANGED vars

-----------------------------------------------------------------------------
(* untar *)

\* The entries that nothing in the volume is in the way of, and the items that
\* entries take the place of.
InTheWay(e) ==
    \/ \E n \in 1 .. Len(e.path) - 1 : ~Has(SubSeq(e.path, 1, n), "dir")
    \/ LET key == Lookup(e.path, FALSE)
       IN  Found(key) /\ (Sort(key) = "dir") # (e.type = "dir")
Replaced(e) ==
    LET key == Lookup(e.path, FALSE)
    IN  IF Found(key) /\ Sort(key) # "dir" /\ e.type # "dir" THEN {catalog[key].id} ELSE {}

Untar(archive) ==
    /\ Idle /\ header.next + Len(archive) - 1 \in Ids
    /\ \A i \in DOMAIN archive : Ends(archive[i].path, FALSE)
    /\ Start(archive, UNION {Replaced(archive[i]) : i \in DOMAIN archive},
             {[path |-> archive[i].path, sort |-> archive[i].type] :
                 i \in {j \in DOMAIN archive : ~InTheWay(archive[j])}})

TakeEntry ==
    /\ Taking("entry")
    /\ LET e == Head(plan)
           key == Lookup(e.path, FALSE)
           ignored == Found(key) /\ (Sort(key) = "dir" \/ e.type = "dir")
       IN  Take(IF ignored THEN <<>>
                ELSE (IF Found(key) THEN <<Discard(e.path)>> ELSE <<>>)
                     \o <<Make(e), Chmod(e.path), Chmod(e.path)>>)
    /\ UNCHANGED vars

TakeMake ==
    /\ Taking("make")
    /\ LET e == Head(plan)
       IN  \/ e.type = "dir" /\ NewFolder(e.path)
           \/ e.type = "file" /\ NewFile(e.path)
           \/ e.type = "link" /\ MakeSymlink(e.path, e.text)
           \/ ~IsFolder(ParentKey(e.path)) /\ UNCHANGED vars
    /\ Take(<<>>)

-----------------------------------------------------------------------------
CommandInit == Init /\ plan = <<>> /\ cmd = NoCommand

EndCommand ==
    /\ todo = <<>> /\ plan = <<>> /\ cmd # NoCommand
    /\ cmd' = NoCommand
    /\ UNCHANGED <<vars, plan>>

Command ==
    \/ \E p \in Paths \cup {<<>>} : Rmall(p) \/ \E h \in HostFolders : Addall(h, p)
    \/ \E archive \in Archives : Untar(archive)

Step == TakeClear \/ TakeRemove \/ TakeMerge \/ TakeMkdir \/ TakeWrite \/ TakeChmod
        \/ TakeEntry \/ TakeMake

CommandNext ==
    \/ Idle /\ Call /\ UNCHANGED <<plan, cmd>>
    \/ Write /\ UNCHANGED <<plan, cmd>>
    \/ NotFollowed /\ UNCHANGED <<plan, cmd>>
    \/ Command \/ Step \/ EndCommand

CommandSpec == CommandInit /\ [][CommandNext]_cvars

-----------------------------------------------------------------------------
\* When a command has ended, exactly the items it was to remove or to replace are
\* gone, however links lead about in the volume, every other item is what and
\* where it was, and what it was to make is there under its name. No folder that
\* rmall is to remove has seen a rename inside it: its valence would not let it go.
CommandDone ==
    (Ready /\ plan = <<>> /\ cmd # NoCommand /\ \A i \in cmd.lost : renamed[i] = 0) =>
        LET now == TreeOf(catalog)
        IN  /\ DOMAIN now \cap cmd.lost = {}
            /\ \A i \in DOMAIN cmd.from \ cmd.lost : i \in DOMAIN now /\ now[i] = cmd.from[i]
            /\ \A m \in cmd.made : Found(Lookup(m.path, FALSE)) /\ Sort(Lookup(m.path, FALSE)) = m.sort
=============================================================================
