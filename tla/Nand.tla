-------------------------------- MODULE Nand --------------------------------
(***************************************************************************)
(* The NAND dumper of ramdisk_tools/ioflash: it replaces a method in the   *)
(* kernel, guesses how many physical banks a chip has, and serves one      *)
(* client at a time, which takes a dump of all pages or reads single pages *)
(* over a proxy. Beside it the host: python_scripts/nand/remote.py, the    *)
(* reader of dumps (image.py) and what nand.py makes of the banks.         *)
(*                                                                         *)
(* A page's data and spare bytes are the address <<ce, page>> they were    *)
(* read from. What the chip returns for a page is its status.              *)
(***************************************************************************)
EXTENDS Integers, FiniteSetsExt, SequencesExt

CONSTANTS
    CECount, PagesPerBlock,  \* gCECount, gPagesPerBlock
    Chips,          \* [blocks, banks, ppn, info]: #ce-blocks, physical banks, ppn-device,
                    \* and the block whose first page says DEVICEINFOBBT (-1: none)
    Varied,         \* bound: the blocks, as <<ce, block>>, whose pages may be anything but good
    FSStart,        \* gFSStartBlock: blocks in front are read as boot pages
    BootBlocks,     \* what remote.py takes for that ("hardcoded for now")
    LastBlocks,     \* 9: blocks in which check_special_pages looks
    MaxBanks,       \* 9: banks that it tries
    Kernels,        \* [version, memory]: iOS 4 or 5; what the scan meets, in order
    MaxStarts,      \* bound: starts of the dumper
    MaxConnections  \* bound: connections of the host

CEs == 0 .. CECount - 1
Garbage == <<"garbage">>    \* bytes of no page
Blank == <<"blank">>        \* all 0xFF

ASSUME NandAssumption ==
    /\ {CECount, PagesPerBlock, MaxBanks} \subseteq Nat \ {0}
    /\ {FSStart, BootBlocks, LastBlocks} \subseteq Nat
    /\ \A c \in Chips : c.blocks \in Nat \ {0} /\ c.banks \in Nat \ {0} /\ c.info \in Int
    /\ \A k \in Kernels : k.memory \in Seq(STRING)

VARIABLES
    chip, status,   \* the chip, and the status of each page of each CE
    kernel,         \* the kernel's memory, where its method pointer leads, and (lost)
                    \* what has befallen the processes that were to write it back
    dumper,         \* the process ioflashstoragekit
    buffer,         \* pageBuffer with `out`: data, spare, ret1
    host,           \* the client, its connection and what it was sent
    image           \* the file the last dump was written to

vars == <<chip, status, kernel, dumper, buffer, host, image>>

-----------------------------------------------------------------------------
(* Banks *)

IsPowerOfTwo(n) == \E k \in 0 .. n : 2^k = n
NextPowerOfTwo(n) ==
    LET val == 2^Max({k \in 0 .. n : 2^k <= n}) IN IF n % val # 0 THEN 2 * val ELSE val

\* set_physical_banks, and the same lines of NAND.__init__.
BlocksPerBank(c, banks) == c.blocks \div banks
BankAddressSpace(c, banks) ==
    IF IsPowerOfTwo(c.blocks) THEN BlocksPerBank(c, banks) ELSE NextPowerOfTwo(BlocksPerBank(c, banks))

StartPage(banks, bank) == BankAddressSpace(chip, banks) * bank * PagesPerBlock
EndPage(banks, bank) == StartPage(banks, bank) + PagesPerBlock * BlocksPerBank(chip, banks)

\* The pages the chip has, by their addresses.
Pages == UNION {StartPage(chip.banks, b) .. EndPage(chip.banks, b) - 1 : b \in 0 .. chip.banks - 1}

-----------------------------------------------------------------------------
(* Reading a page in the kernel *)

IsBoot(page) == page \div PagesPerBlock < FSStart

\* The method fails when it was not given what it needs, or for a raw page; the
\* one it was to replace, in its place, fails always.
CallFails(boot, spare) ==
    /\ kernel.version = 5
    /\ kernel.pointer = "original" \/ ~dumper.withAddress \/ (~boot /\ ~spare) \/ (boot /\ spare)

Status(ce, page) == IF <<ce, page>> \in DOMAIN status THEN status[ce, page] ELSE "other"
ReadAs(ce, page, boot) == IF boot # IsBoot(page) THEN "bad" ELSE Status(ce, page)

\* FSDReadPageHelper drops the result of the call: after one that failed, data
\* and ret1 are those of the call before.
ReadPage(old, ce, page, boot, spare) ==
    IF CallFails(boot, spare) THEN old
    ELSE CASE ReadAs(ce, page, boot) = "good" ->
                [data |-> <<ce, page>>, spare |-> IF spare THEN <<ce, page>> ELSE old.spare, ret1 |-> "good"]
           [] ReadAs(ce, page, boot) = "bad" -> [old EXCEPT !.data = Garbage, !.ret1 = "bad"]
           [] OTHER -> [old EXCEPT !.ret1 = ReadAs(ce, page, boot)]

FreshBuffer == [data |-> Garbage, spare |-> Garbage, ret1 |-> "good"]

-----------------------------------------------------------------------------
(* Starting: the kernel's method and the banks *)

NotRunning == [pc |-> "dead", scanned |-> 0, method |-> FALSE, withAddress |-> FALSE, pointer |-> FALSE,
               handler |-> FALSE, banks |-> 1, bank |-> 0, page |-> 0, ce |-> 0]

Start ==
    /\ dumper.pc = "dead" /\ kernel.starts < MaxStarts
    /\ kernel' = [kernel EXCEPT !.starts = @ + 1]
    /\ dumper' = [NotRunning EXCEPT !.pc = IF kernel.version = 4 THEN "check" ELSE "scan"]
    /\ UNCHANGED <<chip, status, buffer, host, image>>

\* vm_write into the kernel. It may be refused, which write_kernel reports and
\* its callers ignore.
Written(pointer) == {[kernel EXCEPT !.pointer = pointer], [kernel EXCEPT !.lost = @ \cup {"refused"}]}

\* exit() and the end of main() run the destructor restore_handler, which writes
\* the pointer back if this process found it.
NotRestored == {kernel}
Restored == IF dumper.pointer THEN Written("original") ELSE {kernel}
Exit ==
    /\ dumper' = NotRunning
    /\ kernel' \in Restored

\* One word of the kernel. The descriptor function is looked for behind the
\* method only; the scan ends at the pointer to the method. Memory that cannot
\* be read is read again for ever.
Scan ==
    /\ dumper.pc = "scan"
    /\ \/ /\ dumper.scanned = Len(kernel.memory)
          /\ Exit
       \/ /\ dumper.scanned < Len(kernel.memory)
          /\ LET word == kernel.memory[dumper.scanned + 1]
                 found == dumper.method /\ word = "pointer" /\ kernel.pointer = "original"
             IN  /\ word # "unreadable"
                 /\ dumper' = [dumper EXCEPT !.scanned = @ + 1,
                                 !.method = @ \/ word = "method",
                                 !.withAddress = @ \/ (dumper.method /\ word = "withAddress"),
                                 !.pointer = found,
                                 !.pc = IF found THEN "hook" ELSE "scan"]
          /\ UNCHANGED kernel
    /\ UNCHANGED <<chip, status, buffer, host, image>>

\* write_kernel, then signal().
Hook ==
    /\ dumper.pc = "hook"
    /\ kernel' \in Written("replaced")
    /\ dumper' = [dumper EXCEPT !.pc = "handler"]
    /\ UNCHANGED <<chip, status, buffer, host, image>>

InstallHandler ==
    /\ dumper.pc = "handler"
    /\ dumper' = [dumper EXCEPT !.pc = "check", !.handler = TRUE]
    /\ UNCHANGED <<chip, status, kernel, buffer, host, image>>

\* The blocks at the end of the last bank; the bound of the loop is unsigned.
Searched(c, banks) ==
    IF BlocksPerBank(c, banks) < LastBlocks + 1 THEN {}
    ELSE {BankAddressSpace(c, banks) * (banks - 1) + BlocksPerBank(c, banks) - k : k \in 1 .. LastBlocks}

FoundInfo(banks) ==
    /\ ~CallFails(FALSE, TRUE)
    /\ chip.info \in Searched(chip, banks) /\ Status(0, chip.info * PagesPerBlock) = "good"

\* check_special_pages: one number of banks after the other.
CheckSpecialPages ==
    /\ dumper.pc = "check"
    /\ \/ /\ chip.ppn \/ FoundInfo(dumper.banks)
          /\ dumper' = [dumper EXCEPT !.pc = "listen"]
          /\ UNCHANGED kernel
       \/ /\ ~chip.ppn /\ ~FoundInfo(dumper.banks) /\ dumper.banks < MaxBanks
          /\ dumper' = [dumper EXCEPT !.banks = @ + 1]
          /\ UNCHANGED kernel
       \/ /\ ~chip.ppn /\ ~FoundInfo(dumper.banks) /\ dumper.banks = MaxBanks
          /\ Exit
    /\ UNCHANGED <<chip, status, buffer, host, image>>

-----------------------------------------------------------------------------
(* Serving *)

NoReply == [data |-> Garbage, spare |-> Garbage, ret1 |-> "none", size |-> FALSE]
NoHost(n) == [mode |-> "closed", calls |-> n, request |-> <<>>, reply |-> NoReply]
TotalPages == PagesPerBlock * chip.blocks * CECount

\* accept() and the command; nand_dump and nand_proxy get a new page buffer.
Accept ==
    /\ dumper.pc = "listen" /\ host.mode \in {"dump", "proxy"}
    /\ dumper' = [dumper EXCEPT !.pc = host.mode, !.bank = 0, !.page = 0, !.ce = 0]
    /\ buffer' = FreshBuffer
    /\ image' = IF host.mode = "dump" THEN <<>> ELSE image
    /\ UNCHANGED <<chip, status, kernel, host>>

\* The connection is closed; a host that is still there sees the end of file.
Serve == dumper' = [dumper EXCEPT !.pc = "listen"] /\ host' = NoHost(host.calls)

\* The loop's step: the next CE, the next page or the next bank.
NextPageInGap(bank, page) ==
    [bank |-> IF page + 1 < EndPage(dumper.banks, bank) THEN bank ELSE bank + 1, page |-> page + 1]
NextPage(bank, page) ==
    IF page + 1 < EndPage(dumper.banks, bank) THEN [bank |-> bank, page |-> page + 1]
    ELSE [bank |-> bank + 1, page |-> StartPage(dumper.banks, bank + 1)]

Advanced(at) == [dumper EXCEPT !.bank = at.bank, !.page = at.page, !.ce = 0]

\* After the read, blank pages are filled, ret2 is cleared; the rest is sent as
\* the buffer has it.
Cleared(page) == IF page.ret1 = "blank" THEN [page EXCEPT !.data = Blank, !.spare = Blank] ELSE page

\* What has been read of the page the dump has come to.
Dumped == Cleared(ReadPage(buffer, dumper.ce, dumper.page, IsBoot(dumper.page), ~IsBoot(dumper.page)))

DumpPage ==
    /\ dumper.pc = "dump" /\ dumper.bank < dumper.banks /\ host.mode = "dump"
    /\ Dumped.ret1 # "denied"
    /\ buffer' = Dumped
    /\ image' = Append(image, Dumped)
    /\ dumper' = IF dumper.ce + 1 < CECount THEN [dumper EXCEPT !.ce = @ + 1]
                 ELSE Advanced(NextPage(dumper.bank, dumper.page))
    /\ UNCHANGED <<chip, status, kernel, host>>

\* 0xdeadbeef, kIOReturnBadArgument or kIOReturnNotPrivileged: exit(0).
Denied ==
    /\ dumper.pc = "dump" /\ dumper.bank < dumper.banks
    /\ Dumped.ret1 = "denied"
    /\ Exit
    /\ host' = NoHost(host.calls)
    /\ UNCHANGED <<chip, status, buffer, image>>

\* write() fails: "Abort dump". The page number is set to what would be the last
\* one, and the loop goes on from there.
FirstPage(bank) == StartPage(dumper.banks, bank)
LastPage(bank) == PagesPerBlock * chip.blocks
Abort ==
    /\ dumper.pc = "dump" /\ dumper.bank < dumper.banks /\ host.mode # "dump"
    /\ Dumped.ret1 # "denied"
    /\ buffer' = Dumped
    /\ dumper' = Advanced(NextPage(dumper.bank, LastPage(dumper.bank)))
    /\ UNCHANGED <<chip, status, kernel, host, image>>

DumpEnd ==
    /\ dumper.pc = "dump" /\ dumper.bank = dumper.banks
    /\ Serve
    /\ UNCHANGED <<chip, status, kernel, buffer, image>>

\* One read of nand_proxy: page, spare bytes and ret1 go to the host as they are.
Proxy ==
    /\ dumper.pc = "proxy" /\ host.mode = "proxy" /\ host.request # <<>> /\ host.reply = NoReply
    /\ LET boot == IsBoot(host.request.page)
           spare == host.request.spare /\ ~boot
           read == ReadPage([buffer EXCEPT !.spare = Garbage], host.request.ce, host.request.page,
                            boot \/ host.request.boot, spare)
       IN  /\ buffer' = read
           /\ host' = [host EXCEPT !.reply = [data |-> read.data, spare |-> read.spare,
                                              ret1 |-> read.ret1, size |-> spare]]
    /\ UNCHANGED <<chip, status, kernel, dumper, image>>

ProxyEnd ==
    /\ dumper.pc = "proxy" /\ host.mode # "proxy"
    /\ dumper' = [dumper EXCEPT !.pc = "listen"]
    /\ UNCHANGED <<chip, status, kernel, buffer, host, image>>

-----------------------------------------------------------------------------
(* The end of the process *)

Ends ==
    /\ dumper.pc # "dead"
    /\ dumper' = NotRunning
    /\ host' = NoHost(host.calls)
    /\ UNCHANGED <<chip, status, buffer, image>>

\* Ctrl-C (SIGINT): the handler, once installed, restores the pointer. Before,
\* and with the pointer replaced, it is too early.
Interrupt ==
    /\ Ends
    /\ IF dumper.handler THEN kernel' \in Restored
       ELSE kernel' = IF dumper.pc = "handler" THEN [kernel EXCEPT !.lost = @ \cup {"early"}] ELSE kernel

\* SIGTERM, SIGHUP, SIGKILL or a fault: neither the handler nor the destructor
\* runs.
Kill ==
    /\ Ends
    /\ kernel' = IF dumper.pointer THEN [kernel EXCEPT !.lost = @ \cup {"killed"}] ELSE kernel

-----------------------------------------------------------------------------
(* The host *)

Connect(mode) ==
    /\ host.mode = "closed" /\ dumper.pc = "listen" /\ host.calls < MaxConnections
    /\ host' = [NoHost(host.calls + 1) EXCEPT !.mode = mode]
    /\ UNCHANGED <<chip, status, kernel, dumper, buffer, image>>

\* NANDRemote.readPage.
Request(ce, page) ==
    /\ host.mode = "proxy" /\ host.request = <<>>
    /\ LET boot == page < BootBlocks * PagesPerBlock
       IN  host' = [host EXCEPT !.request = [ce |-> ce, page |-> page, spare |-> ~boot, boot |-> boot]]
    /\ UNCHANGED <<chip, status, kernel, dumper, buffer, image>>

\* It waits for as many bytes as it expects.
Complete == host.reply # NoReply /\ host.reply.size = host.request.spare
RemoteRead == IF host.reply.ret1 = "blank" THEN <<>> ELSE host.reply.data

Take ==
    /\ host.mode = "proxy" /\ host.request # <<>> /\ Complete
    /\ host' = [host EXCEPT !.request = <<>>, !.reply = NoReply]
    /\ UNCHANGED <<chip, status, kernel, dumper, buffer, image>>

\* The host's program ends, at any time.
Leave ==
    /\ host.mode # "closed"
    /\ host' = NoHost(host.calls)
    /\ UNCHANGED <<chip, status, kernel, dumper, buffer, image>>

\* NAND.readPage: the place of a page in the dump, without the gaps between banks.
Unbanked(page) ==
    LET space == BankAddressSpace(chip, chip.banks) * PagesPerBlock
    IN  (page \div space) * BlocksPerBank(chip, chip.banks) * PagesPerBlock + (page % space)

\* NANDImageFlat: a dump that is too short is refused; only ret1 = 0 counts.
Accepted == Len(image) >= TotalPages
ImageRead(ce, page) ==
    LET entry == image[Unbanked(page) * CECount + ce + 1]
    IN  IF entry.ret1 # "good" THEN [data |-> <<>>, spare |-> <<>>]
        ELSE [data |-> entry.data, spare |-> entry.spare]

-----------------------------------------------------------------------------
\* The pages of some blocks may be anything.
AnyStatus ==
    \E varied \in [Varied -> {"good", "blank", "bad", "denied", "other"}] :
        status = [a \in CEs \X Pages |->
                     LET block == <<a[1], a[2] \div PagesPerBlock>>
                     IN  IF block \in Varied THEN varied[block] ELSE "good"]

Init ==
    /\ chip \in Chips /\ AnyStatus
    /\ \E k \in Kernels :
          kernel = [version |-> k.version, memory |-> k.memory, pointer |-> "original",
                    starts |-> 0, lost |-> {}]
    /\ dumper = NotRunning
    /\ buffer = FreshBuffer
    /\ host = NoHost(0)
    /\ image = <<>>

DumperStep ==
    \/ Scan \/ Hook \/ InstallHandler \/ CheckSpecialPages
    \/ Accept \/ DumpPage \/ Denied \/ Abort \/ DumpEnd \/ Proxy \/ ProxyEnd

HostStep ==
    \/ \E mode \in {"dump", "proxy"} : Connect(mode)
    \/ \E ce \in CEs, page \in Pages : Request(ce, page)
    \/ Take \/ Leave

Next == Start \/ DumperStep \/ Interrupt \/ Kill \/ HostStep
Spec == Init /\ [][Next]_vars /\ WF_vars(DumperStep)

-----------------------------------------------------------------------------
Working == kernel.version = 4 \/ (dumper.withAddress /\ "refused" \notin kernel.lost)
Guessed == chip.ppn => IsPowerOfTwo(chip.blocks) \/ chip.banks = 1

\* What check_special_pages relies on: the banks are of one size and apart, and
\* the special pages are not where another number of banks, that orders the
\* pages in another way, would have them.
Telling(c) ==
    /\ c.blocks = c.banks * BlocksPerBank(c, c.banks)
    /\ BankAddressSpace(c, c.banks) \in BlocksPerBank(c, c.banks) .. 2 * BlocksPerBank(c, c.banks)
    /\ ~c.ppn => \A n \in 1 .. MaxBanks :
                    c.info \in Searched(c, n) => n = c.banks \/ IsPowerOfTwo(c.blocks)

\* The chips are of this kind, and the host takes no page for a boot page that is not one.
Tells == BootBlocks <= FSStart /\ \A c \in Chips : Telling(c)

\* The host reads what the chip holds: for every page of the chip, whatever its
\* banks, a dump that is accepted has that page's data, and its spare bytes
\* unless it is a boot page, and nothing for a page that could not be read; and
\* a reply of the proxy that is complete has the page that was asked for.
HostReadsNand ==
    /\ Accepted /\ Working /\ Guessed /\ dumper.pc = "listen" =>
          \A ce \in CEs, page \in Pages :
              IF Status(ce, page) = "good"
              THEN /\ ImageRead(ce, page).data = <<ce, page>>
                   /\ ~IsBoot(page) => ImageRead(ce, page).spare = <<ce, page>>
              ELSE ImageRead(ce, page).data = <<>>
    /\ host.request # <<>> /\ Complete /\ Working =>
          CASE Status(host.request.ce, host.request.page) = "good" ->
                 /\ RemoteRead = <<host.request.ce, host.request.page>>
                 /\ host.request.spare => host.reply.spare = RemoteRead
            [] Status(host.request.ce, host.request.page) = "blank" -> RemoteRead = <<>>
            [] OTHER -> TRUE

\* However a process comes to its end, it leaves no pointer into its own memory
\* in the kernel, unless what was to write it back could not: the process was
\* interrupted between the replacing of the pointer and the call of signal(),
\* was ended by what runs no handler, or the kernel refused a write.
KernelLeftAsFound == dumper.pc = "dead" => kernel.pointer = "original" \/ kernel.lost # {}

\* The dumper comes back to accept() when its client has gone, unless it aborts
\* in a bank that begins behind a gap: there `the last page` is in the middle.
BehindGap == \E b \in 0 .. dumper.banks - 1 : PagesPerBlock * chip.blocks + 1 < EndPage(dumper.banks, b)
ServesAgain ==
    (dumper.pc \in {"dump", "proxy"} /\ host.mode = "closed") ~>
        (dumper.pc \in {"listen", "dead"} \/ BehindGap)
=============================================================================
