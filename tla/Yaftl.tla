------------------------------- MODULE Yaftl --------------------------------
(***************************************************************************)
(* The reader of YAFTL images in python_scripts/nand/yaftl.py, beside the  *)
(* device that wrote the flash. Pages are virtual pages: the reader reaches *)
(* flash through vfl.read_single_page only.                                *)
(*                                                                         *)
(* The device is not in the repository. It is modelled from what the       *)
(* reader relies on: it fills blocks page by page, gives each block it     *)
(* opens a higher sequence number (usn), ends a full block with a table of *)
(* its pages (BTOC), saves index pages and a context when it stops in good *)
(* order, and writes no data while there is no readable mark behind its    *)
(* last context. Power can fail between any two pages and inside every     *)
(* page. An image is taken while the device is off; the reader opens it    *)
(* from the context, or from all blocks.                                   *)
(***************************************************************************)
EXTENDS Integers, Sequences, FiniteSetsExt

CONSTANTS
    PagesPerSublk,     \* pages_per_sublk: pages of a superblock
    TocEntriesPerPage, \* tocEntriesPerPage
    Lpns,              \* logical pages
    NumBlocks,         \* superblocks, 0 .. NumBlocks - 1
    CtrlBlocks,        \* control_block: those that hold contexts
    TocArrayPages,     \* nPagesTocPageIndices: pages of tocArrayIndexPages
    Others,            \* pages of a context behind those, which the reader leaves out
    SameName,          \* whether the next image is saved under the same file name
    Filled,            \* pages of data that the device has written at first
    MaxWrites,         \* bound: pages of user data the device writes
    MaxUsn,            \* bound: sequence numbers given
    MaxStops           \* bound: times the device stops

NoPage == -1           \* 0xFFFFFFFF in tables
NoBlock == -1
Exception == -1        \* in place of the version a page holds
Blank == [type |-> "blank"]
Torn == [type |-> "torn"]     \* a page whose writing was cut short
Readable(page) == page.type \notin {"blank", "torn"}

ASSUME LayoutAssumption == Filled < PagesPerSublk /\ TocArrayPages > 0

VARIABLES
    flash,   \* what each virtual page holds
    device,  \* the device's memory
    newest,  \* history: the version of each logical page written last, 0 if none
    reader,  \* the object YAFTL, while an image is open
    cached   \* the file yaftlrestore beside the image; <<>> if there is none

vars == <<flash, device, newest, reader, cached>>

\* The page counts that YAFTL.__init__ derives.
TocPagesPerBlock ==
    PagesPerSublk \div TocEntriesPerPage + IF PagesPerSublk % TocEntriesPerPage # 0 THEN 1 ELSE 0
UserPages == PagesPerSublk - TocPagesPerBlock

\* ctrlBlockPageOffset: the context's first page, its userTOC and indexTOC, a page
\* that is skipped, the array of index pages, and the others; then comes the mark.
TocArray == 2 * TocPagesPerBlock + 2
Offset == TocArray + TocArrayPages + Others

Blocks == 0 .. NumBlocks - 1
FirstPage(b) == b * PagesPerSublk
PagesOf(b) == FirstPage(b) .. FirstPage(b) + PagesPerSublk - 1
UserOffsets == 0 .. UserPages - 1
TocPages == {l \div TocEntriesPerPage : l \in Lpns}
LpnsOf(t) == {l \in Lpns : l \div TocEntriesPerPage = t}

-----------------------------------------------------------------------------
(* The reader: opening *)

Usn(b) == flash[FirstPage(b)].usn

\* The control block whose first page has the highest usn.
FtlCtrlBlock ==
    LET used == {b \in CtrlBlocks : Readable(flash[FirstPage(b)]) /\ Usn(b) > 0}
    IN  IF used = {} THEN NoBlock
        ELSE CHOOSE b \in used : \A c \in used : Usn(c) <= Usn(b)

\* Where contexts may start in a control block; those no readable mark follows.
ContextStarts == {i \in 0 .. PagesPerSublk - Offset - 1 : i % (Offset + 1) = 0}
Unmarked(b) == {i \in ContextStarts : ~Readable(flash[FirstPage(b) + i + Offset])}

\* readCxtInfo: a page that starts a context, or FALSE.
ContextPage ==
    IF FtlCtrlBlock = NoBlock \/ Unmarked(FtlCtrlBlock) = {} THEN NoPage
    ELSE LET page == FirstPage(FtlCtrlBlock) + Min(Unmarked(FtlCtrlBlock))
         IN  IF flash[page].type = "clean" THEN page ELSE NoPage

\* readBTOCPages: the table at the end of a block, <<>> when a page is missing.
BTOC(b) ==
    LET pages == [k \in 0 .. TocPagesPerBlock - 1 |-> flash[FirstPage(b) + UserPages + k]]
    IN  IF \A k \in DOMAIN pages : Readable(pages[k])
        THEN [i \in UserOffsets |-> pages[i \div TocEntriesPerPage].lpns[i % TocEntriesPerPage]]
        ELSE <<>>

\* The logical page at each offset of a user block: from the table, else from
\* the spare data of each page that can be read.
ScannedFrom(b, offsets) == [i \in offsets |-> flash[FirstPage(b) + i].lpn]
ReadableOffsets(b) == {i \in UserOffsets : Readable(flash[FirstPage(b) + i])}
Contents(b) == IF BTOC(b) # <<>> THEN BTOC(b) ELSE ScannedFrom(b, ReadableOffsets(b))

\* userBlocks is keyed by the usn: of two blocks with one usn the later stays.
IsUserBlock(b) == Readable(flash[FirstPage(b)]) /\ flash[FirstPage(b)].type = "lbn"
UserBlocks == {b \in Blocks : IsUserBlock(b) /\ \A c \in Blocks : IsUserBlock(c) /\ Usn(c) = Usn(b) => c <= b}

OffsetsOf(content, l) == {i \in DOMAIN content : content[i] = l}

\* YAFTL_restore: the copy in the block with the highest usn, the last of them.
FirstOf(offsets) == Min(offsets)
LastOf(offsets) == Max(offsets)
Restored ==
    LET content == [b \in UserBlocks |-> Contents(b)]
        holders(l) == {b \in UserBlocks : OffsetsOf(content[b], l) # {}}
        place(l) == LET b == CHOOSE b \in holders(l) : \A c \in holders(l) : Usn(c) <= Usn(b)
                    IN  FirstPage(b) + LastOf(OffsetsOf(content[b], l))
    IN  [l \in {k \in Lpns : holders(k) # {}} |-> place(l)]

Closed == [mode |-> "closed", table |-> <<>>]

\* An exception is raised if userTOCBuffer is empty. The array is what can be read
\* of its pages, which nothing checks.
UserTOCThere(start) == Readable(flash[start + 1])
ArrayPage(start, t) == start + TocArray + t \div TocEntriesPerPage
ArrayFrom(start) ==
    [t \in {u \in TocPages : \A v \in start + TocArray .. ArrayPage(start, u) : Readable(flash[v])}
        |-> flash[ArrayPage(start, t)].toc[t]]

OpenContext ==
    /\ reader.mode = "closed" /\ ~device.on
    /\ ContextPage # NoPage
    /\ reader' = IF UserTOCThere(ContextPage) THEN [mode |-> "context", table |-> ArrayFrom(ContextPage)]
                 ELSE [mode |-> "raised", table |-> <<>>]
    /\ UNCHANGED <<flash, device, newest, cached>>

\* An empty table counts as none: there is nothing to look up then, and the
\* tables of a context were not read.
Restore ==
    /\ reader.mode = "closed" /\ ~device.on
    /\ ContextPage = NoPage
    /\ LET table == IF cached # <<>> THEN cached ELSE Restored
       IN  /\ cached' = table
           /\ reader' = [mode |-> IF table = <<>> THEN "raised" ELSE "restored", table |-> table]
    /\ UNCHANGED <<flash, device, newest>>

-----------------------------------------------------------------------------
(* The reader: looking up *)

\* translateLPNtoVPN: the restored table, or the index page and its entry.
IndexPage(l) == reader.table[l \div TocEntriesPerPage]
Translate(l) ==
    IF reader.mode = "restored"
    THEN IF l \in DOMAIN reader.table THEN reader.table[l] ELSE NoPage
    ELSE IF IndexPage(l) = NoPage \/ ~Readable(flash[IndexPage(l)]) THEN NoPage
         ELSE flash[IndexPage(l)].entries[l]

\* readLPN: the version it returns; an unmapped or unreadable page is all zero
\* (version 0), an array that is too short and a page with another number raise an
\* exception.
ReadLPN(l) ==
    LET vpn == Translate(l)
    IN  IF reader.mode = "context" /\ l \div TocEntriesPerPage \notin DOMAIN reader.table THEN Exception
        ELSE IF vpn = NoPage \/ ~Readable(flash[vpn]) THEN 0
        ELSE IF flash[vpn].lpn # l THEN Exception
        ELSE flash[vpn].data

\* YAFTL_hax2, the scan of the carver, stops at the first page that cannot be read.
DownToFirstGap(b) == {i \in UserOffsets : i .. UserPages - 1 \subseteq ReadableOffsets(b)}
UpToFirstGap(b) == {i \in UserOffsets : 0 .. i \subseteq ReadableOffsets(b)}

Found(b, content, l) == {FirstPage(b) + i : i \in OffsetsOf(content, l)}

Hax2(l) ==
    UNION {Found(b, ScannedFrom(b, UpToFirstGap(b)), l) : b \in {c \in Blocks : IsUserBlock(c)}}

\* carveFile (the slow mode): copies of a logical page but those of its newest block.
Carved(l) ==
    LET usns == {flash[vpn].usn : vpn \in Hax2(l)}
    IN  {vpn \in Hax2(l) : flash[vpn].usn < Max(usns)}

-----------------------------------------------------------------------------
(* The device *)

Program(vpn, page) == flash' = [flash EXCEPT ![vpn] = page]

\* Blocks are filled from their first page on.
NextIn(b) == Cardinality({v \in PagesOf(b) : flash[v] # Blank})
NextPage(b) == FirstPage(b) + NextIn(b)
Free == {b \in Blocks \ (CtrlBlocks \cup {device.user, device.index}) : NextIn(b) = 0}

\* After a context the mark is due before anything else; when the device saves
\* its state, it writes no data until that is done.
CanWrite == device.on /\ ~device.clean /\ device.saving = "no"

WriteData(l) ==
    /\ CanWrite /\ device.user # NoBlock /\ NextIn(device.user) < UserPages
    /\ FoldSet(LAMBDA k, n : newest[k] + n, 0, Lpns) < Filled + MaxWrites
    /\ Program(NextPage(device.user),
               [type |-> "lbn", lpn |-> l, usn |-> device.userUsn, data |-> newest[l] + 1])
    /\ device' = [device EXCEPT !.vpnOf[l] = NextPage(device.user),
                                !.dirty = @ \cup {l \div TocEntriesPerPage}]
    /\ newest' = [newest EXCEPT ![l] = @ + 1]
    /\ UNCHANGED <<reader, cached>>

\* The table of a full block, page by page.
WriteBTOC ==
    /\ CanWrite /\ device.user # NoBlock /\ NextIn(device.user) >= UserPages
    /\ LET k == NextIn(device.user) - UserPages
           listed == {i \in UserOffsets : i \div TocEntriesPerPage = k}
       IN  /\ Program(NextPage(device.user),
                      [type |-> "btoc", usn |-> device.userUsn,
                       lpns |-> [e \in {i % TocEntriesPerPage : i \in listed} |->
                                    flash[FirstPage(device.user) + k * TocEntriesPerPage + e].lpn]])
           /\ device' = IF k = TocPagesPerBlock - 1 THEN [device EXCEPT !.user = NoBlock] ELSE device
    /\ UNCHANGED <<newest, reader, cached>>

OpenUserBlock ==
    /\ CanWrite /\ device.user = NoBlock /\ device.usn < MaxUsn /\ Free # {}
    /\ device' = [device EXCEPT !.user = Min(Free), !.usn = @ + 1, !.userUsn = device.usn + 1]
    /\ UNCHANGED <<flash, newest, reader, cached>>

\* It saves: the index pages that changed, then a context.
Save ==
    /\ CanWrite /\ device.usn < MaxUsn
    /\ device' = [device EXCEPT !.saving = "index"]
    /\ UNCHANGED <<flash, newest, reader, cached>>

OpenIndexBlock ==
    /\ device.on /\ device.saving = "index" /\ device.dirty # {} /\ Free # {}
    /\ device.index # NoBlock => NextIn(device.index) + Cardinality(device.dirty) > UserPages
    /\ device' = [device EXCEPT !.index = Min(Free)]
    /\ UNCHANGED <<flash, newest, reader, cached>>

WriteIndex ==
    /\ device.on /\ device.saving = "index" /\ device.dirty # {}
    /\ device.index # NoBlock /\ NextIn(device.index) + Cardinality(device.dirty) <= UserPages
    /\ LET place(t) == NextPage(device.index) + Cardinality({u \in device.dirty : u < t})
           page(t) == [type |-> "index", lpn |-> t, usn |-> device.usn,
                       entries |-> [l \in LpnsOf(t) |-> device.vpnOf[l]]]
       IN  /\ flash' = [v \in DOMAIN flash |->
                           IF \E t \in device.dirty : place(t) = v
                           THEN page(CHOOSE t \in device.dirty : place(t) = v) ELSE flash[v]]
           /\ device' = [device EXCEPT !.dirty = {},
                            !.toc = [t \in TocPages |-> IF t \in device.dirty THEN place(t) ELSE @[t]]]
    /\ UNCHANGED <<newest, reader, cached>>

\* A context begins behind the mark of the last one, or in another control block,
\* erased first.
ContextBlocks ==
    IF NextIn(device.ctrl) \in ContextStarts /\ Readable(flash[NextPage(device.ctrl) - 1])
    THEN {device.ctrl} ELSE CtrlBlocks \ {device.ctrl}
AtContext == device.on /\ device.saving = "index" /\ device.dirty = {}
Begun(b, page) ==
    IF b = device.ctrl THEN [flash EXCEPT ![NextPage(b)] = page]
    ELSE [v \in DOMAIN flash |-> IF v = FirstPage(b) THEN page
                                 ELSE IF v \in PagesOf(b) THEN Blank ELSE flash[v]]

BeginContext ==
    /\ AtContext
    /\ \E b \in ContextBlocks :
          /\ flash' = Begun(b, [type |-> "clean", usn |-> device.usn + 1])
          /\ device' = [device EXCEPT !.saving = "context", !.usn = @ + 1, !.ctrl = b]
    /\ UNCHANGED <<newest, reader, cached>>

\* Its pages follow, up to the mark; at each a number of the table's pages.
ContextPageAt(offset, toc) ==
    LET listed == {t \in TocPages : TocArray + t \div TocEntriesPerPage = offset}
    IN  IF offset \in TocArray .. TocArray + TocArrayPages - 1
        THEN [type |-> "array", toc |-> [t \in listed |-> toc[t]]]
        ELSE [type |-> "other"]

WriteContext ==
    /\ device.on /\ device.saving = "context"
    /\ LET offset == NextIn(device.ctrl) % (Offset + 1)
       IN  /\ Program(NextPage(device.ctrl), ContextPageAt(offset, device.toc))
           /\ device' = IF offset < Offset - 1 THEN device
                        ELSE [device EXCEPT !.saving = "no", !.clean = TRUE]
    /\ UNCHANGED <<newest, reader, cached>>

WriteMark ==
    /\ device.on /\ device.clean
    /\ Program(NextPage(device.ctrl), [type |-> "mark", usn |-> device.usn])
    /\ device' = [device EXCEPT !.clean = FALSE]
    /\ UNCHANGED <<newest, reader, cached>>

\* A block that holds nothing in use is erased.
Erase(b) ==
    /\ CanWrite /\ b \notin CtrlBlocks \cup {device.user, device.index} /\ NextIn(b) > 0
    /\ \A l \in Lpns : device.vpnOf[l] \notin PagesOf(b)
    /\ \A t \in TocPages : device.toc[t] \notin PagesOf(b)
    /\ flash' = [v \in DOMAIN flash |-> IF v \in PagesOf(b) THEN Blank ELSE flash[v]]
    /\ UNCHANGED <<device, newest, reader, cached>>

\* The device stops at any time; a page that it was writing may be torn.
Writing(b) ==
    \/ b = device.ctrl /\ (device.clean \/ device.saving = "context")
    \/ CanWrite /\ b = device.user /\ NextIn(b) < PagesPerSublk
    \/ device.saving = "index" /\ b = device.index /\ NextIn(b) < UserPages

PowerOff ==
    /\ device.on /\ device.stops < MaxStops
    /\ \/ UNCHANGED flash
       \/ \E b \in Blocks : Writing(b) /\ Program(NextPage(b), Torn)
       \/ AtContext /\ \E b \in ContextBlocks : flash' = Begun(b, Torn)
    /\ device' = [device EXCEPT !.on = FALSE, !.stops = @ + 1]
    /\ UNCHANGED <<newest, reader, cached>>

\* It starts again. Without a clean context it has recovered its tables and opens
\* new blocks. When its last context has no mark and can have none, it saves another
\* before it writes data. The next image is a new file, or one with the same name.
MarkTorn == device.clean /\ flash[NextPage(device.ctrl) - 1] = Torn
PowerOn ==
    /\ ~device.on
    /\ LET recovered == [device EXCEPT !.on = TRUE, !.clean = FALSE, !.user = NoBlock,
                                       !.index = NoBlock, !.dirty = TocPages]
       IN  device' = CASE MarkTorn \/ device.saving = "context" -> [recovered EXCEPT !.saving = "index"]
                       [] device.clean /\ ~MarkTorn -> [device EXCEPT !.on = TRUE]
                       [] OTHER -> [recovered EXCEPT !.saving = "no"]
    /\ reader' = Closed
    /\ cached' = IF SameName THEN cached ELSE <<>>
    /\ UNCHANGED <<flash, newest>>

DeviceStep ==
    \/ \E l \in Lpns : WriteData(l)
    \/ WriteBTOC \/ OpenUserBlock \/ Save \/ OpenIndexBlock \/ WriteIndex
    \/ BeginContext \/ WriteContext \/ WriteMark
    \/ \E b \in Blocks : Erase(b)
    \/ PowerOff \/ PowerOn

ReaderStep == OpenContext \/ Restore

-----------------------------------------------------------------------------
(* A device in use: a context and its mark, and data written since *)

FirstUser == Min(Blocks \ CtrlBlocks)
FirstLpn == Min(Lpns)
EmptyArray == [t \in TocPages |-> NoPage]

DeviceInUse ==
    [on |-> TRUE, stops |-> 0, usn |-> 2, clean |-> FALSE, saving |-> "no",
     dirty |-> {FirstLpn \div TocEntriesPerPage},
     user |-> FirstUser, userUsn |-> 2, index |-> NoBlock, ctrl |-> Min(CtrlBlocks),
     vpnOf |-> [l \in Lpns |-> IF l = FirstLpn THEN FirstPage(FirstUser) + Filled - 1 ELSE NoPage],
     toc |-> EmptyArray]

Init ==
    /\ device = DeviceInUse
    /\ flash = [v \in 0 .. NumBlocks * PagesPerSublk - 1 |->
                  LET context == FirstPage(device.ctrl)
                      data == FirstPage(FirstUser)
                  IN  CASE v = context -> [type |-> "clean", usn |-> 1]
                        [] v \in context + 1 .. context + Offset - 1 ->
                             ContextPageAt(v - context, EmptyArray)
                        [] v = context + Offset -> [type |-> "mark", usn |-> 1]
                        [] v \in data .. data + Filled - 1 ->
                             [type |-> "lbn", lpn |-> FirstLpn, usn |-> 2, data |-> v - data + 1]
                        [] OTHER -> Blank]
    /\ newest = [l \in Lpns |-> IF l = FirstLpn THEN Filled ELSE 0]
    /\ reader = Closed
    /\ cached = <<>>

Next == DeviceStep \/ ReaderStep
Spec == Init /\ [][Next]_vars

-----------------------------------------------------------------------------
(* Properties *)

Open == reader.mode \in {"context", "restored"}

\* An image reads as the data written last, however the device stopped: from
\* the context after a clean stop, from all blocks after any other. Only a context
\* that a stop left unfinished may raise an exception instead; it never reads as
\* older data.
Unfinished == \E v \in ContextPage .. ContextPage + Offset - 1 : ~Readable(flash[v])
ReadsNewest ==
    Open => \A l \in Lpns : \/ ReadLPN(l) = newest[l]
                            \/ reader.mode = "context" /\ Unfinished /\ ReadLPN(l) = Exception

\* The carver of old versions sees every copy that is still on the flash but
\* those in the newest block of a page, and never the copy in use.
Copies(l) == {v \in DOMAIN flash : flash[v].type = "lbn" /\ flash[v].lpn = l}
CarvesOldVersions ==
    Open => \A l \in Lpns :
        LET inUse == {v \in Copies(l) : flash[v].data = newest[l]}
            newestUsn == {flash[v].usn : v \in inUse}
        IN  Carved(l) = {v \in Copies(l) : flash[v].usn \notin newestUsn}

=============================================================================
