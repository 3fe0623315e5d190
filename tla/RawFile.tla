------------------------------ MODULE RawFile -------------------------------
(***************************************************************************)
(* rawFileRead and rawFileWrite of emf_decrypter/hfs/rawfile.c: the bytes  *)
(* of forks on the image, over the allocation of BlockAlloc. A byte of the *)
(* model is the unit in which callers address a fork; a block has          *)
(* BlockSize of them.                                                      *)
(***************************************************************************)
EXTENDS BlockAlloc

CONSTANTS
    BlockSize,   \* bytes per allocation block (volumeHeader->blockSize)
    Bytes, Zero, \* the values of a byte
    Data,        \* the values callers write
    Sizes,       \* the sizes and offsets, in bytes, that callers use
    WordRange    \* 2^32: allocate() computes the offset of a block it clears in uint32_t

ASSUME DataAssumption ==
    /\ BlockSize \in Nat \ {0}
    /\ Zero \in Bytes /\ Data \subseteq Bytes
    /\ Sizes \subseteq 0 .. MaxFileBlocks * BlockSize
    /\ WordRange \in Nat \ {0}

VARIABLES
    image,   \* the bytes of the volume image
    size,    \* forkData->logicalSize
    target,  \* the size the running allocate() was called with
    write    \* the rest of the running rawFileWrite

fileVars == <<image, size, target, write>>
allVars == <<vars, fileVars>>

MaxSize == MaxFileBlocks * BlockSize
NoWrite == [left |-> 0, loc |-> 0, size |-> 0, ext |-> 0, in |-> 0, byte |-> Zero]

\* blocksNeeded: the size divided by the block size, rounded up.
BlocksNeeded(n) == n \div BlockSize + (IF n % BlockSize = 0 THEN 0 ELSE 1)

\* The loop in front of every read and write: the extent that holds byte `loc`
\* of the fork and the place inside that extent.
Locate(exts, loc) ==
    LET skip[k \in 0 .. Len(exts)] ==
            IF k = 0 THEN [ext |-> 1, in |-> loc]
            ELSE LET at == skip[k - 1]
                 IN  IF at.ext = k /\ exts[k].count * BlockSize <= at.in
                     THEN [ext |-> k + 1, in |-> at.in - exts[k].count * BlockSize]
                     ELSE at
    IN  skip[Len(exts)]

\* rawFileRead, extent by extent.
RawFileRead(f, loc, n) ==
    LET exts == extents[f]
        first == Locate(exts, loc)
        read[k \in 0 .. Len(exts)] ==
            IF k < first.ext THEN <<>>
            ELSE LET got == read[k - 1]
                     in == IF k = first.ext THEN first.in ELSE 0
                     possible == exts[k].count * BlockSize - in
                     now == IF n - Len(got) > possible THEN possible ELSE n - Len(got)
                     at == exts[k].start * BlockSize + in
                 IN  got \o [i \in 1 .. now |-> image[at + i - 1]]
    IN  read[Len(exts)]

-----------------------------------------------------------------------------
RawInit ==
    /\ Init
    /\ image = [a \in 0 .. TotalBlocks * BlockSize - 1 |-> Zero]
    /\ size = [f \in Files |-> 0]
    /\ target = 0
    /\ write = NoWrite

Allocate(f, n) ==
    /\ \/ AllocateGrow(f, BlocksNeeded(n))
       \/ AllocateShrink(f, BlocksNeeded(n))
       \/ BlocksNeeded(n) = fork[f].total /\ AllocateSame(f)
    /\ target' = n

\* writeToHFSFile and removeFile set the size of a fork outright.
SetSize(f, n) ==
    /\ write = NoWrite
    /\ Allocate(f, n)
    /\ UNCHANGED <<image, size, write>>

\* The size a write needs the fork to have.
EndOfWrite(f, loc, n) == loc + n

\* rawFileWrite allocates first when it writes past the logical size.
WriteStart(f, loc, n, b) ==
    /\ pc = "idle" /\ write = NoWrite
    /\ write' = [left |-> n, loc |-> loc, size |-> n, ext |-> 0, in |-> 0, byte |-> b]
    /\ IF size[f] < EndOfWrite(f, loc, n)
       THEN Allocate(f, EndOfWrite(f, loc, n))
       ELSE /\ file' = f
            /\ UNCHANGED <<used, header, extents, fork, overflow, saved, pc, need, left, cur,
                           list, idx, history, target>>
    /\ UNCHANGED <<image, size>>

\* ASSERT(allocate(...)): a full volume ends the process.
WriteRefused(f, loc, n) ==
    /\ pc = "idle" /\ write = NoWrite
    /\ size[f] < EndOfWrite(f, loc, n)
    /\ BlocksNeeded(EndOfWrite(f, loc, n)) - fork[f].total > freeBlocks
    /\ pc' = "panic"
    /\ UNCHANGED <<used, header, extents, fork, overflow, saved, locals, history, fileVars>>

WriteLocate ==
    /\ pc = "idle" /\ write # NoWrite /\ write.ext = 0
    /\ LET at == Locate(extents[file], write.loc)
       IN  write' = [write EXCEPT !.ext = at.ext, !.in = at.in]
    /\ UNCHANGED <<vars, image, size, target>>

Overwrite(at, n, b) ==
    image' = [a \in DOMAIN image |-> IF at <= a /\ a < at + n THEN b ELSE image[a]]

\* What is left of the write goes on at the start of the next extent.
AfterChunkAgain(now) == IF now = write.left THEN NoWrite ELSE [write EXCEPT !.ext = 0]
AfterChunk(now) ==
    IF now = write.left THEN NoWrite ELSE [write EXCEPT !.left = @ - now, !.ext = @ + 1, !.in = 0]

\* One extent's share of the data.
WriteChunk ==
    /\ pc = "idle" /\ write.ext \in DOMAIN extents[file]
    /\ LET e == extents[file][write.ext]
           possible == e.count * BlockSize - write.in
           now == IF write.left > possible THEN possible ELSE write.left
           at == e.start * BlockSize + write.in
       IN  /\ Overwrite(at, now, write.byte)
           /\ write' = AfterChunk(now)
    /\ UNCHANGED <<vars, size, target>>

ClearFirstByte(at) == Overwrite(at, 1, Zero)
ClearBlock(at) == Overwrite(at, BlockSize, Zero)

\* allocate() clears the block it takes, at the offset curBlock * blockSize of
\* two uint32_t.
TakeAndClear ==
    /\ GrowTake
    /\ ClearBlock((cur * BlockSize) % WordRange)
    /\ UNCHANGED <<size, target, write>>

\* forkData->logicalSize is set with the other fork data.
SaveExtents ==
    /\ WriteExtents
    /\ size' = IF pc' = "volume" THEN [size EXCEPT ![file] = target] ELSE size
    /\ UNCHANGED <<image, target, write>>

AllocStep ==
    /\ \/ GrowSkip \/ GrowDone \/ ShrinkWalk \/ ShrinkCut \/ ShrinkFree \/ ShrinkNextExtent
       \/ UpdateVolume \/ UpdateCatalog
    /\ UNCHANGED fileVars

RawStep == WriteLocate \/ WriteChunk \/ TakeAndClear \/ SaveExtents \/ AllocStep

\* hfs_panic has ended the process.
Panicked == pc = "panic" /\ UNCHANGED allVars

RawNext ==
    \/ \E f \in Files, n \in Sizes : SetSize(f, n)
    \/ \E f \in Files, loc \in Sizes, end \in Sizes, b \in Data :
           loc < end /\ (WriteStart(f, loc, end - loc, b) \/ WriteRefused(f, loc, end - loc))
    \/ RawStep
    \/ Panicked

RawSpec == RawInit /\ [][RawNext]_allVars
RawFairSpec == RawSpec /\ WF_allVars(RawStep)

-----------------------------------------------------------------------------
\* A shrinking call has cut the list before it sets the size.
ContentSize(f) ==
    IF f = file /\ pc \in {"free", "write"} /\ need < fork[f].total THEN target ELSE size[f]

\* The call that runs, as FileStore sees it.
Request ==
    IF write # NoWrite
    THEN LET end == write.loc + write.size
         IN  [fork |-> file, size |-> IF size[file] < end THEN end ELSE size[file],
              from |-> end - write.left + 1, to |-> end, byte |-> write.byte]
    ELSE IF pc \in {"idle", "panic"} THEN [size |-> 0, from |-> 1, to |-> 0]
    ELSE [fork |-> file, size |-> target, from |-> 1, to |-> 0, byte |-> Zero]

\* Each fork behaves as a string of bytes of its own, whatever the other forks
\* do: what rawFileRead returns changes only by what a call asks of that fork,
\* and when the call returns all of that has been done.
Store == INSTANCE FileStore WITH
    content <- [f \in Files |-> RawFileRead(f, 0, ContentSize(f))],
    request <- Request
ForksAreStrings == Store!Spec

\* Every call returns, unless the volume is full and the process ends.
CallsReturn == (pc # "idle" \/ write # NoWrite) ~> ((pc = "idle" /\ write = NoWrite) \/ pc = "panic")
=============================================================================
