------------------------------ MODULE Compress ------------------------------
(***************************************************************************)
(* Compressed files of the HFS+ library: emf_decrypter/hfs/hfscompress.c,  *)
(* the attribute that describes them (xattr.c) and the two loops of        *)
(* hfslib.c that read and write them. A compressed file is an attribute,   *)
(* either with all the data or with the size only, and in the second case  *)
(* a resource fork: a header, a table of blocks, the compressed blocks and *)
(* a trailer. The process may die between any two writes to the image.     *)
(***************************************************************************)
EXTENDS Integers, SequencesExt

CONSTANTS
    Chars,        \* what a file is made of
    CompBlock,    \* 0x10000: what is compressed at a time
    Buffer,       \* BUFSIZE of hfslib.c: what is read or written at a time
    InlineLimit,  \* 0x1000 less the headers: the largest block kept in the attribute
    Inputs,       \* the files of the host that are added
    Initial,      \* what the compressed file may hold at first
    MaxDeaths     \* bound: how often the process dies

ASSUME CompressAssumption ==
    /\ CompBlock \in Nat \ {0} /\ Buffer \in Nat \ {0}
    /\ InlineLimit \in Nat /\ MaxDeaths \in Nat
    /\ Inputs \cup Initial \subseteq Seq(Chars)

VARIABLES
    attr,    \* the attribute com.apple.decmpfs
    rsrc,    \* the resource fork, in units
    pc,      \* the next step of the running call
    handle,  \* HFSPlusCompressed of the open file
    job,     \* writeToFile or writeToHFSFile: the file, and how far it has come
    req,     \* the running compressedRead: where, how much is left, what is there
    overran, \* a close has written behind the end of its copy of the attribute
    deaths,
    before, want  \* history: the file in front of the call, and what the call is to leave

vars == <<attr, rsrc, pc, handle, job, req, overran, deaths, before, want>>

Least(m, n) == IF m < n THEN m ELSE n

-----------------------------------------------------------------------------
(* zlib: compressing what repeats takes one unit for each run.             *)
Runs(s) == 1 + Cardinality({i \in 2 .. Len(s) : s[i] # s[i - 1]})
Compressed(s) == [i \in 1 .. Runs(s) |-> [type |-> "zip", of |-> s, unit |-> i]]

\* uncompress() of anything else fails and leaves what malloc() returned.
Garbage == [i \in 1 .. CompBlock |-> "?"]
Uncompressed(units) ==
    IF /\ \A u \in ToSet(units) : u.type = "zip"
       /\ units # <<>> /\ units = Compressed(units[1].of)
    THEN units[1].of
    ELSE Garbage

\* The layout of the resource fork.
HeaderSize == 1
NumBlocks(n) == (n + CompBlock - 1) \div CompBlock
TableSize(n) == 1 + n
FirstOffsetOfOne(n) == TableSize(1)
FirstOffset(n) == TableSize(n)
Written(fork, at, units) ==
    [i \in 1 .. (IF Len(fork) < at + Len(units) THEN at + Len(units) ELSE Len(fork)) |->
        IF i - at \in DOMAIN units THEN units[i - at]
        ELSE IF i <= Len(fork) THEN fork[i] ELSE [type |-> "zero", blocks |-> 0]]

\* A block found through a table; after a death blocks may lie over the table.
BlockAt(fork, table, k) ==
    IF k \in DOMAIN table /\ table[k].type = "entry"
    THEN LET at == HeaderSize + table[k].offset
         IN  Uncompressed(SubSeq(fork, at + 1, at + table[k].size))
    ELSE Garbage
TableIn(fork) ==
    IF fork = <<>> THEN <<>> ELSE SubSeq(fork, HeaderSize + 2, HeaderSize + 1 + fork[HeaderSize + 1].blocks)

\* What an attribute holds that was spoilt in memory has its size and no more.
Spoilt == [type |-> "spoilt"]
Stored(a) ==
    IF a.data[1] = Spoilt THEN [i \in 1 .. a.size |-> "?"] ELSE Uncompressed(a.data)

\* What the next process reads, whatever an earlier one has left behind.
Content(a, fork) ==
    CASE a.type = "none" -> <<>>
      [] a.type = "inline" -> Stored(a)
      [] a.type = "rsrc" ->
            LET all == FlattenSeq([k \in 1 .. NumBlocks(a.size) |-> BlockAt(fork, TableIn(fork), k)])
            IN  SubSeq(all, 1, Least(a.size, Len(all)))

-----------------------------------------------------------------------------
NoAttribute == [type |-> "none", size |-> 0, data |-> <<>>]
NoHandle == [cached |-> <<>>, start |-> 0, size |-> 0, table |-> <<>>, dirty |-> FALSE]
NoJob == [kind |-> "none", sound |-> TRUE, form |-> "none", input |-> <<>>, pos |-> 0, left |-> 0]
NoReq == [loc |-> 0, left |-> 0, buf |-> <<>>, for |-> "none"]

CachedEnd == handle.start + Len(handle.cached)
BlockOf(s, k) == SubSeq(s, CompBlock * k + 1, Least(CompBlock * (k + 1), Len(s)))

FitsInline(s) == Len(s) > 0 /\ NumBlocks(Len(s)) = 1 /\ Runs(s) <= InlineLimit

\* The resource fork of a file that was compressed in one go.
Layout(s) ==
    LET n == NumBlocks(Len(s))
        blocks == [k \in 1 .. n |-> Compressed(BlockOf(s, k - 1))]
        entry(k) == [type |-> "entry", size |-> Len(blocks[k]),
                     offset |-> TableSize(n) + Len(FlattenSeq(SubSeq(blocks, 1, k - 1)))]
    IN  <<[type |-> "head"], [type |-> "table", blocks |-> n]>> \o [k \in 1 .. n |-> entry(k)]
        \o FlattenSeq(blocks) \o <<[type |-> "end"]>>

Init ==
    /\ \E s \in Initial :
          IF FitsInline(s)
          THEN attr = [type |-> "inline", size |-> Len(s), data |-> Compressed(s)] /\ rsrc = <<>>
          ELSE attr = [type |-> "rsrc", size |-> Len(s), data |-> <<>>] /\ rsrc = Layout(s)
    /\ before = Content(attr, rsrc) /\ want = before
    /\ pc = "idle" /\ handle = NoHandle /\ job = NoJob /\ req = NoReq
    /\ overran = FALSE /\ deaths = 0

\* openHFSPlusCompressed: no attribute, all the data in it, or a resource fork.
Opened ==
    CASE attr.type = "none" -> NoHandle
      [] attr.type = "inline" -> [NoHandle EXCEPT !.cached = Stored(attr), !.size = attr.size]
      [] attr.type = "rsrc" -> [NoHandle EXCEPT !.size = attr.size, !.table = TableIn(rsrc)]

\* Every block has its share of the file, which may fail after a death only.
Sound ==
    attr.type = "rsrc" =>
        \A k \in 1 .. NumBlocks(attr.size) :
            Len(BlockAt(rsrc, TableIn(rsrc), k)) >= Least(CompBlock, attr.size - CompBlock * (k - 1))

\* What writing over the front of a file makes of it: a compressed file is
\* never cut, so a shorter input leaves the rest of the file behind.
Overlay(old, new) == new \o SubSeq(old, Len(new) + 1, Len(old))

NewJob(kind, input, n) ==
    [kind |-> kind, form |-> attr.type, sound |-> Sound, input |-> input, pos |-> 0, left |-> n]

\* writeToFile reads the whole file; writeToHFSFile writes the whole input.
Extract ==
    /\ pc = "idle"
    /\ handle' = Opened
    /\ job' = NewJob("extract", <<>>, Opened.size)
    /\ pc' = "loop"
    /\ before' = Content(attr, rsrc) /\ want' = before'
    /\ overran' = FALSE /\ UNCHANGED <<attr, rsrc, req, deaths>>

Add(input) ==
    /\ pc = "idle"
    /\ handle' = Opened
    /\ job' = NewJob("add", input, Len(input))
    /\ pc' = "loop"
    /\ before' = Content(attr, rsrc) /\ want' = Overlay(before', input)
    /\ overran' = FALSE /\ UNCHANGED <<attr, rsrc, req, deaths>>

\* One turn of either loop: at most a buffer.
NextPiece ==
    /\ pc = "loop" /\ job.left > 0
    /\ IF job.kind = "extract"
       THEN /\ req' = [loc |-> job.pos, left |-> Least(Buffer, job.left), buf |-> <<>>, for |-> "extract"]
            /\ pc' = "read"
       ELSE pc' = "write" /\ UNCHANGED req
    /\ UNCHANGED <<attr, rsrc, handle, job, overran, deaths, before, want>>

LastPiece ==
    /\ pc = "loop" /\ job.left = 0
    /\ pc' = "close"
    /\ UNCHANGED <<attr, rsrc, handle, job, req, overran, deaths, before, want>>

-----------------------------------------------------------------------------
(* compressedRead                                                          *)
InCacheEndIncluded(loc) == loc >= handle.start /\ loc <= CachedEnd
InCache(loc) == loc >= handle.start /\ loc < CachedEnd

AfterCopyInPlace(n) == req.loc
AfterCopy(n) == req.loc + n

ReadCached ==
    /\ pc = "read" /\ req.left > 0 /\ InCache(req.loc)
    /\ LET n == Least(CachedEnd - req.loc, req.left)
           from == req.loc - handle.start
       IN  req' = [req EXCEPT !.loc = AfterCopy(n), !.left = @ - n,
                              !.buf = @ \o SubSeq(handle.cached, from + 1, from + n)]
    /\ UNCHANGED <<attr, rsrc, pc, handle, job, overran, deaths, before, want>>

\* One block replaces the cache.
ReadLoad ==
    /\ pc = "read" /\ req.left > 0 /\ ~InCache(req.loc)
    /\ LET block == req.loc \div CompBlock
       IN  handle' = [handle EXCEPT !.cached = BlockAt(rsrc, handle.table, block + 1),
                                    !.start = CompBlock * block]
    /\ UNCHANGED <<attr, rsrc, pc, job, req, overran, deaths, before, want>>

\* The caller goes on: the loop of writeToFile with the next piece,
\* compressedWrite with the whole file in its cache.
ReadDone ==
    /\ pc = "read" /\ req.left = 0
    /\ IF req.for = "extract"
       THEN /\ job' = [job EXCEPT !.input = @ \o req.buf, !.pos = req.loc, !.left = @ - Len(req.buf)]
            /\ pc' = "loop"
            /\ UNCHANGED handle
       ELSE /\ handle' = [handle EXCEPT !.cached = req.buf, !.start = 0]
            /\ pc' = "write"
            /\ UNCHANGED job
    /\ req' = NoReq
    /\ UNCHANGED <<attr, rsrc, overran, deaths, before, want>>

(* compressedWrite                                                         *)
WholeFileCached == handle.start = 0 /\ CachedEnd = handle.size

CacheWholeFile ==
    /\ pc = "write" /\ ~WholeFileCached
    /\ req' = [loc |-> 0, left |-> handle.size, buf |-> <<>>, for |-> "cache"]
    /\ pc' = "read"
    /\ UNCHANGED <<attr, rsrc, handle, job, overran, deaths, before, want>>

WritePiece ==
    /\ pc = "write" /\ WholeFileCached
    /\ LET n == Least(Buffer, job.left)
           end == job.pos + n
           size == IF end > handle.size THEN end ELSE handle.size
       IN  /\ handle' = [handle EXCEPT !.size = size, !.dirty = TRUE,
                 !.cached = [i \in 1 .. size |->
                     IF i > job.pos /\ i <= end THEN job.input[i] ELSE handle.cached[i]]]
           /\ job' = [job EXCEPT !.pos = end, !.left = @ - n]
    /\ pc' = "loop"
    /\ UNCHANGED <<attr, rsrc, req, overran, deaths, before, want>>

-----------------------------------------------------------------------------
(* closeHFSPlusCompressed: blocks, header, table, trailer, attribute.      *)
CloseClean ==
    /\ pc = "close" /\ ~handle.dirty
    /\ pc' = "idle" /\ handle' = NoHandle /\ job' = NoJob
    /\ UNCHANGED <<attr, rsrc, req, overran, deaths, before, want>>

NewAttribute ==
    IF FitsInline(handle.cached)
    THEN [type |-> "inline", size |-> handle.size, data |-> Compressed(handle.cached)]
    ELSE [type |-> "rsrc", size |-> handle.size, data |-> <<>>]

\* The attribute stays as it is until the blocks are there.
AttributeSetFirst == NewAttribute
AttributeMeanwhile == attr

StartBlocks ==
    /\ pc = "close" /\ handle.dirty
    /\ attr' = AttributeMeanwhile
    /\ handle' = [handle EXCEPT !.table = <<>>]
    /\ pc' = "blocks"
    /\ UNCHANGED <<rsrc, job, req, overran, deaths, before, want>>

\* What is kept inline is copied behind the head of the attribute that was read: it
\* has the length it had then, and room for all if there was none.
Room ==
    CASE attr.type = "none" -> InlineLimit
      [] attr.type = "inline" -> Len(attr.data)
      [] attr.type = "rsrc" -> 0

KeepInline ==
    /\ pc = "blocks" /\ FitsInline(handle.cached)
    /\ pc' = "unset"
    /\ overran' = (Runs(handle.cached) > Room)
    /\ UNCHANGED <<attr, rsrc, handle, job, req, deaths, before, want>>

WriteBlock ==
    /\ pc = "blocks" /\ ~FitsInline(handle.cached)
    /\ LET n == NumBlocks(handle.size)
           k == Len(handle.table)
           units == Compressed(BlockOf(handle.cached, k))
           offset == IF k = 0 THEN FirstOffset(n) ELSE handle.table[k].offset + handle.table[k].size
       IN  /\ rsrc' = Written(rsrc, HeaderSize + offset, units)
           /\ handle' = [handle EXCEPT
                 !.table = Append(@, [type |-> "entry", offset |-> offset, size |-> Len(units)])]
           /\ pc' = IF k + 1 = n THEN "head" ELSE "blocks"
    /\ UNCHANGED <<attr, job, req, overran, deaths, before, want>>

WriteHead ==
    /\ pc = "head"
    /\ rsrc' = Written(rsrc, 0, <<[type |-> "head"]>>)
    /\ pc' = "table"
    /\ UNCHANGED <<attr, handle, job, req, overran, deaths, before, want>>

WriteTable ==
    /\ pc = "table"
    /\ rsrc' = Written(rsrc, HeaderSize, <<[type |-> "table", blocks |-> Len(handle.table)]>> \o handle.table)
    /\ pc' = "end"
    /\ UNCHANGED <<attr, handle, job, req, overran, deaths, before, want>>

WriteEnd ==
    /\ pc = "end"
    /\ LET last == handle.table[Len(handle.table)]
       IN  rsrc' = Written(rsrc, HeaderSize + last.offset + last.size, <<[type |-> "end"]>>)
    /\ pc' = "unset"
    /\ UNCHANGED <<attr, handle, job, req, overran, deaths, before, want>>

\* updateAttributes removes the record and then adds it.
RemoveAttribute ==
    /\ pc = "unset"
    /\ attr' = NoAttribute
    /\ pc' = "set"
    /\ UNCHANGED <<rsrc, handle, job, req, overran, deaths, before, want>>

\* What lay behind the end of the copy may have been written over since.
SpoiltAttribute == [NewAttribute EXCEPT !.data = [i \in DOMAIN @ |-> Spoilt]]

SetAttribute ==
    /\ pc = "set"
    /\ \/ attr' = NewAttribute
       \/ overran /\ attr' = SpoiltAttribute
    /\ pc' = "idle" /\ handle' = NoHandle /\ job' = NoJob
    /\ UNCHANGED <<rsrc, req, overran, deaths, before, want>>

\* The process dies, of what it has done to its memory or otherwise; what it has
\* written stays.
Die ==
    /\ pc # "idle"
    /\ \/ overran /\ UNCHANGED deaths
       \/ deaths < MaxDeaths /\ deaths' = deaths + 1
    /\ overran' = FALSE
    /\ pc' = "idle" /\ handle' = NoHandle /\ job' = NoJob /\ req' = NoReq
    /\ before' = Content(attr, rsrc) /\ want' = before'
    /\ UNCHANGED <<attr, rsrc>>

Step ==
    \/ NextPiece \/ LastPiece \/ ReadCached \/ ReadLoad \/ ReadDone \/ CacheWholeFile \/ WritePiece
    \/ CloseClean \/ StartBlocks \/ KeepInline \/ WriteBlock \/ WriteHead \/ WriteTable \/ WriteEnd
    \/ RemoveAttribute \/ SetAttribute

Next == Extract \/ (\E s \in Inputs : Add(s)) \/ Step \/ Die

\* Nothing but a death keeps the library from finishing a call.
Spec == Init /\ [][Next]_vars /\ WF_vars(Step)

-----------------------------------------------------------------------------
\* What a call leaves is the input over the old file, whichever of the two
\* forms the file had and gets, however many blocks and pieces it took and
\* whatever an earlier death has left in the resource fork. (A file kept inline
\* whose compressed data has grown, or that was in the resource fork, is no longer
\* known: its data went behind the end of a buffer.)
FileIsOverlay == pc = "idle" /\ ~overran => Content(attr, rsrc) = want

\* What compressedRead hands out is the file, piece by piece, also where
\* pieces and blocks do not meet.
ReadsTheFile ==
    /\ job.kind = "extract" => IsPrefix(job.input \o req.buf, before)
    /\ job.kind = "extract" /\ pc = "close" => job.input = before
    /\ req.for = "cache" => IsPrefix(req.buf, before)

\* A death costs a file kept in the attribute, or one that had none, no more
\* than all: it is as before, it is as asked for, or it is empty. (A file in
\* the resource fork is written in place and has no such protection.)
AllOrNothing ==
    pc # "idle" /\ job.form # "rsrc" => Content(attr, rsrc) \in {before, want, <<>>}

\* Every call returns: no turn of compressedRead leaves the cache without the
\* byte it is to return next. (It does for ever in a file with a block that
\* is too short, which a death while the blocks are written can leave.)
CallsEnd == (pc # "idle" /\ job.sound) ~> pc = "idle"
=============================================================================
