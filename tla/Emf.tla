-------------------------------- MODULE Emf ---------------------------------
(***************************************************************************)
(* emf_decrypter (emf/emf_decrypter.c, emf/emf_init.c): decrypts the data  *)
(* forks of an HFS+ image in place, block after block, and keeps no record *)
(* of what it has done. The image is a stdio stream: what was written last *)
(* reaches the file with the next seek or with fclose. The tool may be     *)
(* killed at any step and started again.                                   *)
(***************************************************************************)
EXTENDS Integers, FiniteSets, SequencesExt

CONSTANTS
    Blocks,     \* blocks of the image, from 0
    WordRange,  \* 2^32 div blockSize: offsets are computed in uint32_t
    MaxClass,   \* MAX_CLASS_KEYS
    DKey,       \* CLASS_DKEY
    Volumes,    \* the volumes to consider
    Plists,     \* the key files to consider
    MaxRuns     \* bound: how often the tool is started

ASSUME EmfAssumption ==
    /\ Blocks \in Nat \ {0} /\ WordRange \in Nat \ {0} /\ MaxRuns \in Nat
    /\ MaxClass \in Nat /\ DKey \in 1 .. MaxClass - 1

\* Catalog and extents of a volume: every entry leads to a folder or a fork, and
\* the extents that are in use have blocks.
Entries(v) == [type : {"folder"}, id : DOMAIN v.items] \cup [type : {"file", "link"}, id : DOMAIN v.forks]
Extents == [start : Nat, count : Nat \ {0}]

ASSUME VolumeAssumption ==
    \A v \in Volumes :
        /\ "root" \in DOMAIN v.items
        /\ \A folder \in DOMAIN v.items : v.items[folder] \in Seq(Entries(v))
        /\ \A file \in DOMAIN v.forks : v.forks[file] \in Seq(Extents)
        /\ v.cprotect \in [DOMAIN v.forks -> [version : Nat, class : Nat]]

VARIABLES
    volume,   \* items: folder -> its entries; forks: file -> extents; cprotect: file -> attribute
    plist,    \* the key file: is it complete, the class keys it has, the wrong ones of them
    image,    \* each block: "raw" as dumped, "plain", "garbage", or "torn"
    pending,  \* the block in stdio's buffer and what the file has there
    walk,     \* what EMF_decrypt_folder still has to visit
    work,     \* the file whose blocks are decrypted
    buffer,   \* the block that has been read
    runs,     \* how often the tool was started
    deaths    \* how often it was killed

vars == <<volume, plist, image, pending, walk, work, buffer, runs, deaths>>
fixed == <<volume, plist>>

Root == "root"
NoWork == [file |-> "none", extent |-> 0, i |-> 0]
NoBuffer == [lba |-> -1, data |-> "raw"]
NoPending == [at |-> -1, old |-> "raw"]
Idle == [type |-> "idle"]
Running == walk # <<Idle>>

-----------------------------------------------------------------------------
(* Keys *)

\* EMF_init takes the data partition's key and those classes from 1 to the
\* maximum that have 32 bytes.
Keys == {DKey} \cup {c \in plist.classes : c > 0 /\ c <= MaxClass}

HasKeyShifted(c) == c - 1 \in Keys
HasKey(c) == c \in Keys

\* EMF_unwrap_filekey_forclass: the class must be below the maximum, its key
\* there, and right: AES key wrap notices a wrong one.
Unwraps(c) ==
    /\ c >= 1 /\ c < MaxClass
    /\ HasKey(c)
    /\ c \notin plist.wrong

\* getAttribute: the protection attribute of a file (version 0: it has none).
Attribute(file) == volume.cprotect[file]

\* Version 4, and any length that is not the version's, is left alone.
Usable(file) == Attribute(file).version = 2 /\ Unwraps(Attribute(file).class)

-----------------------------------------------------------------------------
(* The walk *)

\* getFolderContents gives a hard link as the file it links to.
Contents(folder) ==
    [i \in DOMAIN volume.items[folder] |->
        LET item == volume.items[folder][i]
        IN  IF item.type = "link" THEN [item EXCEPT !.type = "file"] ELSE item]

Start ==
    /\ ~Running /\ runs < MaxRuns
    /\ runs' = runs + 1
    /\ walk' = IF plist.complete THEN Contents(Root) ELSE <<Idle>>
    /\ UNCHANGED <<fixed, image, pending, work, buffer, deaths>>

Visit ==
    /\ Running /\ walk # <<>> /\ work = NoWork
    /\ LET item == walk[1]
       IN  IF item.type = "folder"
           THEN walk' = Contents(item.id) \o Tail(walk) /\ UNCHANGED work
           ELSE /\ walk' = Tail(walk)
                /\ work' = IF Usable(item.id) /\ volume.forks[item.id] # <<>>
                           THEN [file |-> item.id, extent |-> 1, i |-> 0] ELSE NoWork
    /\ UNCHANGED <<fixed, image, pending, buffer, runs, deaths>>

-----------------------------------------------------------------------------
(* EMF_decrypt_file_blocks *)
Fork == volume.forks[work.file]
Lba == Fork[work.extent].start + work.i

\* The byte offset of a block is a 32-bit product.
At(lba) == lba % WordRange

NextBlock ==
    IF work.i + 1 < Fork[work.extent].count THEN [work EXCEPT !.i = @ + 1]
    ELSE IF work.extent < Len(Fork) THEN [work EXCEPT !.extent = @ + 1, !.i = 0]
    ELSE NoWork

\* A block that the image file does not have is left out.
Read ==
    /\ work # NoWork /\ buffer = NoBuffer
    /\ pending' = NoPending
    /\ IF At(Lba) < Blocks
       THEN buffer' = [lba |-> Lba, data |-> image[At(Lba)]] /\ UNCHANGED work
       ELSE work' = NextBlock /\ UNCHANGED buffer
    /\ UNCHANGED <<fixed, image, walk, runs, deaths>>

OwnedBy(file, b) == \E e \in Range(volume.forks[file]) : b \in e.start .. e.start + e.count - 1

IvIndex == work.i
Iv == Lba

\* Encrypted with the volume's key, decrypted with the file's, both with the
\* block's number: right for a raw block of this file at that number.
EMF_fix_and_decrypt_block ==
    IF buffer.data = "raw" /\ OwnedBy(work.file, At(buffer.lba)) /\ Iv = At(buffer.lba)
    THEN "plain" ELSE "garbage"

Write ==
    /\ buffer # NoBuffer
    /\ image' = [image EXCEPT ![At(buffer.lba)] = EMF_fix_and_decrypt_block]
    /\ pending' = [at |-> At(buffer.lba), old |-> image[At(buffer.lba)]]
    /\ work' = NextBlock
    /\ buffer' = NoBuffer
    /\ UNCHANGED <<fixed, walk, runs, deaths>>

\* closeVolume() and fclose().
Finish ==
    /\ walk = <<>> /\ work = NoWork
    /\ walk' = <<Idle>> /\ pending' = NoPending
    /\ UNCHANGED <<fixed, image, work, buffer, runs, deaths>>

\* Killed: what stdio still has is lost, or a part of it.
Death ==
    /\ Running
    /\ image' \in IF pending = NoPending THEN {image}
                  ELSE {[image EXCEPT ![pending.at] = s] : s \in {image[pending.at], pending.old, "torn"}}
    /\ walk' = <<Idle>> /\ work' = NoWork /\ buffer' = NoBuffer /\ pending' = NoPending
    /\ deaths' = deaths + 1
    /\ UNCHANGED <<fixed, runs>>

-----------------------------------------------------------------------------
Init ==
    /\ volume \in Volumes /\ plist \in Plists
    /\ image = [b \in 0 .. Blocks - 1 |-> "raw"]
    /\ pending = NoPending /\ walk = <<Idle>> /\ work = NoWork /\ buffer = NoBuffer
    /\ runs = 0 /\ deaths = 0

Next == Start \/ Visit \/ Read \/ Write \/ Finish \/ Death

Spec == Init /\ [][Next]_vars

-----------------------------------------------------------------------------
\* Volumes that one run can decrypt: offsets fit 32 bits, no block is in two
\* places, and the folders are a tree that has every file once, without links.
Blocked(extent) == extent.start .. extent.start + extent.count - 1
NoOffsetWraps(v) ==
    \A file \in DOMAIN v.forks : \A n \in DOMAIN v.forks[file] :
        v.forks[file][n].start + v.forks[file][n].count <= WordRange
ForksApart(v) ==
    \A f, g \in DOMAIN v.forks : \A m \in DOMAIN v.forks[f], n \in DOMAIN v.forks[g] :
        <<f, m>> # <<g, n>> => Blocked(v.forks[f][m]) \cap Blocked(v.forks[g][n]) = {}
ListedOnce(v) ==
    \A f, g \in DOMAIN v.items : \A m \in DOMAIN v.items[f], n \in DOMAIN v.items[g] :
        /\ <<f, m>> # <<g, n>> => v.items[f][m] # v.items[g][n]
        /\ v.items[f][m].type # "link" /\ v.items[f][m] # [type |-> "folder", id |-> Root]
AllHangFromRoot(v) ==
    \A S \in SUBSET DOMAIN v.items :
        /\ Root \in S
        /\ \A f \in S : \A e \in Range(v.items[f]) : e.type = "folder" => e.id \in S
        => \A file \in DOMAIN v.forks : \E f \in S : [type |-> "file", id |-> file] \in Range(v.items[f])
Orderly(v) == NoOffsetWraps(v) /\ ForksApart(v) /\ ListedOnce(v) /\ AllHangFromRoot(v)

\* What the image is to become: the blocks of a file are plain when its class
\* is one of those in use, 1 to 4, and the right key of it was given.
Wanted(b) ==
    IF plist.complete /\ \E f \in DOMAIN volume.forks :
           /\ OwnedBy(f, b) /\ volume.cprotect[f].version = 2
           /\ volume.cprotect[f].class \in ((1 .. MaxClass - 1) \cap (plist.classes \cup {DKey})) \ plist.wrong
    THEN "plain" ELSE "raw"

\* The first run takes every block from what was dumped to what is wanted:
\* while it works, and when it is killed, at most one block is neither; when
\* it ends, every block of every file that has a key is decrypted, and no
\* other block has been changed, whatever the folders and extents are.
EveryFileOnce ==
    runs = 1 =>
        /\ Cardinality({b \in DOMAIN image : image[b] \notin {"raw", Wanted(b)}}) <= 1
        /\ (deaths = 0 => \A b \in DOMAIN image : image[b] \in {"raw", Wanted(b)})
        /\ (deaths = 0 /\ ~Running => \A b \in DOMAIN image : image[b] = Wanted(b))

\* Whatever deaths and repeated runs do to blocks that were decrypted before,
\* a block that is still as dumped stays so until it is decrypted rightly: a
\* later run finishes what an earlier one did not reach.
RawNeverSpoilt ==
    [][\A b \in DOMAIN image : image[b] = "raw" => image'[b] \in {"raw", "plain"}]_vars
=============================================================================
