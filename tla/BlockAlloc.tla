----------------------------- MODULE BlockAlloc -----------------------------
(***************************************************************************)
(* Block allocation of the HFS+ library: allocate(), writeExtents(),       *)
(* removeExtents() and readExtents() of emf_decrypter/hfs/rawfile.c over   *)
(* the volume's bitmap (isBlockUsed, setBlockUsed) and the volume header.  *)
(*                                                                         *)
(* The library is sequential, so one call of allocate() runs at a time;    *)
(* its loops are split into one step per iteration because every           *)
(* setBlockUsed() reaches the image at once while the header, the overflow *)
(* records and the catalog record are written only at the end: a process   *)
(* that dies in between leaves the image as these steps leave it.          *)
(***************************************************************************)
EXTENDS Integers, Sequences, FiniteSets

CONSTANTS
    Files,          \* the open forks (RawFile objects that have a catalog record)
    TotalBlocks,    \* volumeHeader->totalBlocks
    Reserved,       \* blocks used by the volume itself: headers, special files
    Density,        \* extent descriptors per record (8 in HFS+)
    MaxFileBlocks,  \* bound: no call asks for a longer fork
    MaxCrashes      \* bound: how often the process dies in a behaviour

Blocks == 0 .. TotalBlocks - 1

\* The alternate volume header keeps the last block in use for ever.
ASSUME VolumeAssumption ==
    /\ TotalBlocks \in Nat \ {0}
    /\ Reserved \subseteq Blocks
    /\ TotalBlocks - 1 \in Reserved

ASSUME BoundsAssumption ==
    /\ Density \in Nat \ {0}
    /\ MaxFileBlocks \in Nat
    /\ MaxCrashes \in Nat

VARIABLES
    used,            \* the allocation bitmap: the blocks whose bit is set
    freeBlocks,      \* volumeHeader->freeBlocks
    nextAllocation,  \* volumeHeader->nextAllocation
    extents,         \* rawFile->extents: each fork's list of extents
    fork,            \* rawFile->forkData: inline descriptors and totalBlocks
    overflow,        \* the extents B-tree: the overflow records
    savedHeader,     \* the volume header on the image
    savedFork,       \* the fork data in the catalog record on the image
    pc,              \* where allocate() stands
    file,            \* its rawFile
    need,            \* its blocksNeeded
    left,            \* its blocksToAllocate
    cur,             \* its curBlock
    list,            \* the extent list its shrinking branch walks
    idx,             \* the place of its pointer `extent` in that list
    crashes,         \* number of deaths so far
    torn             \* the forks whose shrinking a death interrupted

header == <<freeBlocks, nextAllocation>>
saved == <<savedHeader, savedFork>>
locals == <<file, need, left, cur, list, idx>>
history == <<crashes, torn>>
vars == <<used, header, extents, fork, overflow, saved, pc, locals, history>>

-----------------------------------------------------------------------------
(* Extents and the records that hold them *)

Extent == [start : Nat, count : Nat]
BlocksOf(e) == e.start .. (e.start + e.count - 1)
BlockSum(exts) ==
    LET sum[n \in 0 .. Len(exts)] == IF n = 0 THEN 0 ELSE sum[n - 1] + exts[n].count
    IN  sum[Len(exts)]

Owned(f) == UNION {BlocksOf(extents[f][i]) : i \in DOMAIN extents[f]}

ForkData == [exts : Seq(Extent), total : Nat]
HeaderData == [free : Int, next : Blocks]
NoFork == [exts |-> <<>>, total |-> 0]
OverflowRecord == [file : Files, start : Nat, exts : Seq(Extent)]

Record(f, s) == CHOOSE r \in overflow : r.file = f /\ r.start = s
HasRecord(f, s) == \E r \in overflow : r.file = f /\ r.start = s

\* The loop that readExtents and removeExtents share: after the inline
\* descriptors, the next record is looked up under the file-relative block the
\* walk has reached (extentKey.startBlock = currentBlock).
ExtentWalk(f, fd) ==
    LET walk[n \in 0 .. MaxFileBlocks] ==
            IF n = 0
            THEN [exts |-> fd.exts, keys |-> {}, ok |-> TRUE]
            ELSE LET w == walk[n - 1]
                     at == BlockSum(w.exts)
                 IN  IF at >= fd.total \/ ~w.ok THEN w
                     ELSE IF HasRecord(f, at)
                          THEN [exts |-> w.exts \o Record(f, at).exts,
                                keys |-> w.keys \cup {at}, ok |-> TRUE]
                          ELSE [w EXCEPT !.ok = FALSE]
    IN  walk[MaxFileBlocks]

\* The records writeExtents adds for the extents past the inline ones, Density
\* at a time. Each is filed under the disk block its first extent starts at
\* (extentKey.startBlock = descriptor[0].startBlock).
OverflowRecords(f, exts) ==
    {LET from == k * Density + 1
         to == IF from + Density - 1 < Len(exts) THEN from + Density - 1 ELSE Len(exts)
     IN  [file |-> f, start |-> exts[from].start, exts |-> SubSeq(exts, from, to)] :
        k \in {n \in 1 .. Len(exts) : n * Density + 1 <= Len(exts)}}

-----------------------------------------------------------------------------
Init ==
    /\ used = Reserved
    /\ freeBlocks = Cardinality(Blocks \ Reserved)
    /\ nextAllocation \in Blocks
    /\ extents = [f \in Files |-> <<>>]
    /\ fork = [f \in Files |-> NoFork]
    /\ overflow = {}
    /\ savedHeader = [free |-> freeBlocks, next |-> nextAllocation]
    /\ savedFork = fork
    /\ pc = "idle"
    /\ file \in Files
    /\ need = 0 /\ left = 0 /\ cur = 0 /\ list = <<>> /\ idx = 1
    /\ crashes = 0 /\ torn = {}

\* allocate() has returned: its locals are gone.
LocalsReset ==
    /\ need' = 0 /\ left' = 0 /\ cur' = 0 /\ list' = <<>> /\ idx' = 1
    /\ UNCHANGED file

LastExtent(f) == extents[f][Len(extents[f])]

\* setBlockUsed and the count of the header, which go together.
TakeBlockUnmarked(b) == freeBlocks' = freeBlocks - 1 /\ UNCHANGED used
TakeBlock(b) == used' = used \cup {b} /\ freeBlocks' = freeBlocks - 1

FreeBlockUncounted(b) == used' = used \ {b} /\ UNCHANGED freeBlocks
FreeBlock(b) == used' = used \ {b} /\ freeBlocks' = freeBlocks + 1

\* The allocation pointer moves on and wraps at the end of the volume.
NextBlockStuck(b) == b
NextBlock(b) == IF b + 1 >= TotalBlocks THEN 0 ELSE b + 1

\* allocate() is called with more blocks than the fork has, and the volume has
\* enough of them; otherwise it returns FALSE and nothing changes.
AllocateGrow(f, n) ==
    /\ pc = "idle"
    /\ n > fork[f].total
    /\ n - fork[f].total <= freeBlocks
    /\ pc' = "grow"
    /\ file' = f /\ need' = n
    /\ left' = n - fork[f].total
    /\ IF extents[f] = <<>>
       THEN /\ extents' = [extents EXCEPT ![f] = <<[start |-> 0, count |-> 0]>>]
            /\ cur' = nextAllocation
       ELSE /\ cur' = LastExtent(f).start + LastExtent(f).count
            /\ UNCHANGED extents
    /\ UNCHANGED <<used, header, fork, overflow, saved, list, idx, history>>

\* The block under the scan is taken: start a new extent at the allocation
\* pointer, which moves on.
GrowSkip ==
    /\ pc = "grow" /\ left > 0
    /\ cur \in used
    /\ extents' = IF LastExtent(file).count > 0
                  THEN [extents EXCEPT ![file] = Append(@, [start |-> 0, count |-> 0])]
                  ELSE extents
    /\ cur' = nextAllocation
    /\ nextAllocation' = NextBlock(nextAllocation)
    /\ UNCHANGED <<used, freeBlocks, fork, overflow, saved, pc, file, need, left, list, idx, history>>

\* The block under the scan is free: it becomes the last of the last extent.
GrowTake ==
    /\ pc = "grow" /\ left > 0
    /\ cur \notin used
    /\ extents' = [extents EXCEPT ![file][Len(extents[file])] =
                      [start |-> IF @.count = 0 THEN cur ELSE @.start, count |-> @.count + 1]]
    /\ TakeBlock(cur)
    /\ left' = left - 1
    /\ cur' = IF cur + 1 >= TotalBlocks THEN nextAllocation ELSE cur + 1
    /\ UNCHANGED <<nextAllocation, fork, overflow, saved, pc, file, need, list, idx, history>>

GrowDone ==
    /\ pc = "grow" /\ left = 0
    /\ pc' = "write"
    /\ UNCHANGED <<used, header, extents, fork, overflow, saved, locals, history>>

-----------------------------------------------------------------------------
AllocateShrink(f, n) ==
    /\ pc = "idle"
    /\ n < fork[f].total
    /\ pc' = "walk"
    /\ file' = f /\ need' = n /\ left' = n
    /\ list' = extents[f] /\ idx' = 1
    /\ UNCHANGED <<used, header, extents, fork, overflow, saved, cur, history>>

\* Look for the extent that holds the last block to keep.
ShrinkWalk ==
    /\ pc = "walk" /\ idx \in DOMAIN list
    /\ left > list[idx].count
    /\ left' = left - list[idx].count
    /\ idx' = idx + 1
    /\ UNCHANGED <<used, header, extents, fork, overflow, saved, pc, file, need, cur, list, history>>

\* The first block that is not kept.
CutPointLate == list[idx].start + left + 1
CutPointEarly == list[idx].start + left - 1
CutPoint == list[idx].start + left

\* Cut the list there; what is behind the cut is freed block by block.
ShrinkCut ==
    /\ pc = "walk" /\ idx \in DOMAIN list
    /\ left <= list[idx].count
    /\ extents' = [extents EXCEPT ![file] =
                      IF left = 0 THEN <<>>
                      ELSE Append(SubSeq(list, 1, idx - 1), [list[idx] EXCEPT !.count = left])]
    /\ cur' = CutPoint
    /\ pc' = "free"
    /\ UNCHANGED <<used, header, fork, overflow, saved, file, need, left, list, idx, history>>

ShrinkFree ==
    /\ pc = "free" /\ idx \in DOMAIN list
    /\ cur < list[idx].start + list[idx].count
    /\ FreeBlock(cur)
    /\ cur' = cur + 1
    /\ UNCHANGED <<nextAllocation, extents, fork, overflow, saved, pc, file, need, left, list, idx, history>>

ShrinkNextExtentKeepsCursor ==
    /\ pc = "free" /\ idx \in DOMAIN list
    /\ cur >= list[idx].start + list[idx].count
    /\ idx' = idx + 1
    /\ pc' = IF idx + 1 \in DOMAIN list THEN pc ELSE "write"
    /\ UNCHANGED <<used, header, extents, fork, overflow, saved, file, need, left, cur, list, history>>

ShrinkNextExtent ==
    /\ pc = "free" /\ idx \in DOMAIN list
    /\ cur >= list[idx].start + list[idx].count
    /\ idx' = idx + 1
    /\ IF idx + 1 \in DOMAIN list
       THEN cur' = list[idx + 1].start /\ UNCHANGED pc
       ELSE pc' = "write" /\ UNCHANGED cur
    /\ UNCHANGED <<used, header, extents, fork, overflow, saved, file, need, left, list, history>>

-----------------------------------------------------------------------------
\* The size in blocks is unchanged: allocate() goes straight to writeExtents.
AllocateSame(f) ==
    /\ pc = "idle"
    /\ pc' = "write"
    /\ file' = f /\ need' = fork[f].total
    /\ UNCHANGED <<used, header, extents, fork, overflow, saved, left, cur, list, idx, history>>

\* The descriptors that fit into the fork data itself.
InlineExtents(exts) == SubSeq(exts, 1, IF Len(exts) < Density THEN Len(exts) ELSE Density)

\* writeExtents: drop the fork's overflow records (hfs_panic when the walk finds
\* one missing), write the inline descriptors, add the overflow records (the
\* B-tree keeps the old record when a key is there already), and set
\* forkData->totalBlocks.
WriteExtents ==
    LET walk == ExtentWalk(file, fork[file])
        kept == {r \in overflow : r.file # file \/ r.start \notin walk.keys}
    IN  /\ pc = "write"
        /\ IF walk.ok
           THEN /\ pc' = "volume"
                /\ overflow' = kept \cup {r \in OverflowRecords(file, extents[file]) :
                                  \A k \in kept : k.file # r.file \/ k.start # r.start}
                /\ fork' = [fork EXCEPT ![file] =
                               [exts |-> InlineExtents(extents[file]), total |-> need]]
           ELSE /\ pc' = "panic"
                /\ UNCHANGED <<overflow, fork>>
        /\ UNCHANGED <<used, header, extents, saved, locals, history>>

UpdateVolume ==
    /\ pc = "volume"
    /\ pc' = "catalog"
    /\ savedHeader' = [free |-> freeBlocks, next |-> nextAllocation]
    /\ UNCHANGED <<used, header, extents, fork, overflow, savedFork, locals, history>>

UpdateCatalogSkipped ==
    /\ pc = "catalog"
    /\ pc' = "idle"
    /\ LocalsReset
    /\ UNCHANGED <<used, header, extents, fork, overflow, saved, history>>

UpdateCatalog ==
    /\ pc = "catalog"
    /\ pc' = "idle"
    /\ savedFork' = [savedFork EXCEPT ![file] = fork[file]]
    /\ LocalsReset
    /\ UNCHANGED <<used, header, extents, fork, overflow, savedHeader, history>>

Call ==
    \E f \in Files :
        \/ \E n \in 0 .. MaxFileBlocks : AllocateGrow(f, n) \/ AllocateShrink(f, n)
        \/ AllocateSame(f)

Step ==
    \/ GrowSkip \/ GrowTake \/ GrowDone
    \/ ShrinkWalk \/ ShrinkCut \/ ShrinkFree \/ ShrinkNextExtent
    \/ WriteExtents \/ UpdateVolume \/ UpdateCatalog

Next == Call \/ Step

Spec == Init /\ [][Next]_vars

\* The process dies at any point of allocate() and a new one opens the volume:
\* the header and the fork data are what the image holds, and readExtents
\* rebuilds the lists.
Restart ==
    /\ crashes < MaxCrashes
    /\ pc \notin {"idle", "panic"}
    /\ crashes' = crashes + 1
    /\ torn' = IF pc = "free" \/ (pc \in {"write", "volume", "catalog"} /\ need < savedFork[file].total)
               THEN torn \cup {file} ELSE torn
    /\ freeBlocks' = savedHeader.free
    /\ nextAllocation' = savedHeader.next
    /\ fork' = savedFork
    /\ extents' = [f \in Files |-> ExtentWalk(f, savedFork[f]).exts]
    /\ pc' = IF \A f \in Files : ExtentWalk(f, savedFork[f]).ok THEN "idle" ELSE "panic"
    /\ LocalsReset
    /\ UNCHANGED <<used, overflow, saved>>

RestartSpec == Init /\ [][Next \/ Restart]_vars /\ WF_vars(Step)

-----------------------------------------------------------------------------
TypeOK ==
    /\ used \in SUBSET Blocks
    /\ freeBlocks \in Int
    /\ nextAllocation \in Blocks
    /\ extents \in [Files -> Seq(Extent)]
    /\ fork \in [Files -> ForkData]
    /\ savedHeader \in HeaderData
    /\ savedFork \in [Files -> ForkData]
    /\ overflow \in SUBSET OverflowRecord
    /\ pc \in {"idle", "grow", "walk", "free", "write", "volume", "catalog", "panic"}
    /\ file \in Files
    /\ need \in Nat /\ left \in Nat /\ cur \in Nat
    /\ list \in Seq(Extent) /\ idx \in Nat \ {0}
    /\ crashes \in 0 .. MaxCrashes /\ torn \in SUBSET Files

\* Blocks a shrinking call has cut off and not freed yet, extent by extent.
DoomedIn(i) == (IF i = idx THEN cur ELSE list[i].start) .. (list[i].start + list[i].count - 1)
DoomedExtents == IF pc = "free" THEN {i \in DOMAIN list : i >= idx} ELSE {}
Doomed == UNION {DoomedIn(i) : i \in DoomedExtents}

\* The count in the header is the number of clear bits, at every step of every
\* call: allocate() refuses or accepts by this count alone.
FreeCountExact == freeBlocks = Cardinality(Blocks \ used)

\* No block belongs to two extents, of one fork or of two, and none to the
\* volume itself.
NoBlockShared ==
    /\ \A f, g \in Files : \A i \in DOMAIN extents[f], j \in DOMAIN extents[g] :
          (f # g \/ i # j) => BlocksOf(extents[f][i]) \cap BlocksOf(extents[g][j]) = {}
    /\ \A f \in Files : Owned(f) \cap Reserved = {}

\* A bit is set exactly for the blocks of the volume, of a fork, or of a tail
\* still being freed: no call leaks a block or frees one that is still in use.
BitmapExact == used = Reserved \cup Doomed \cup UNION {Owned(f) : f \in Files}

\* Only the extent a growing call is about to fill is empty.
NoEmptyExtent ==
    \A f \in Files : \A i \in DOMAIN extents[f] :
        extents[f][i].count = 0 =>
            pc = "grow" /\ left > 0 /\ f = file /\ i = Len(extents[f])

\* The scan of a growing call stands inside the volume, and at the end of the
\* last extent as long as that extent has blocks.
GrowCursor ==
    pc = "grow" =>
        /\ extents[file] # <<>>
        /\ cur \in Blocks
        /\ left > 0 /\ LastExtent(file).count > 0 =>
              cur = LastExtent(file).start + LastExtent(file).count

\* The walk of a shrinking call has not changed the list yet; a call that keeps
\* no block cuts at the first extent.
WalkCursor ==
    /\ pc = "walk" => list = extents[file] /\ (left = 0 => idx = 1)
    /\ pc = "free" => idx \in DOMAIN list /\ cur >= list[idx].start

\* What is still to be freed belongs to no fork, and no two of its extents meet.
DoomedApart ==
    \A i \in DoomedExtents :
        /\ \A j \in DoomedExtents : i # j => DoomedIn(i) \cap DoomedIn(j) = {}
        /\ \A f \in Files : DoomedIn(i) \cap Owned(f) = {}
        /\ DoomedIn(i) \cap Reserved = {}

\* The inductive invariant behind FreeCountExact, NoBlockShared and BitmapExact.
AllocInv ==
    /\ TypeOK
    /\ FreeCountExact /\ NoBlockShared /\ BitmapExact
    /\ NoEmptyExtent /\ GrowCursor /\ WalkCursor /\ DoomedApart

\* Between calls each fork has the number of blocks its fork data says, and what
\* readExtents finds on the image is the list in memory.
ReadBack ==
    pc = "idle" =>
        \A f \in Files :
            /\ BlockSum(extents[f]) = fork[f].total
            /\ ExtentWalk(f, savedFork[f]).ok
            /\ ExtentWalk(f, savedFork[f]).exts = extents[f]

\* Every call of allocate() returns, on a volume no process has died on: a death
\* while blocks are taken leaves a free count that is too high, and a later call
\* can then look for a free block for ever.
AllocateReturns == (pc # "idle" /\ crashes = 0) ~> (pc = "idle" \/ crashes > 0)

\* What a crash must not break: as long as no crash fell into the freeing half of
\* a shrinking call, the blocks the image gives to a fork are marked used and
\* belong to that fork alone.
SavedOwned(f) ==
    LET exts == ExtentWalk(f, savedFork[f]).exts
    IN  UNION {BlocksOf(exts[i]) : i \in DOMAIN exts}

CrashKeepsForksApart ==
    torn = {} =>
        \A f \in Files :
            /\ (pc \in {"idle", "grow", "walk"} \/ file # f) => SavedOwned(f) \subseteq used \ Reserved
            /\ \A g \in Files \ {f} : SavedOwned(f) \cap SavedOwned(g) = {}

=============================================================================
