----------------------------- MODULE NandProofs -----------------------------
(***************************************************************************)
(* For every chip, every kernel, every number of starts and connections    *)
(* and every moment of an interruption: the dumper leaves the kernel as it *)
(* found it, and what the host reads is what the chip holds.               *)
(*                                                                         *)
(* KernelLeftAsFound speaks of dead processes only. PointerInv says what a *)
(* living process knows: that it has found the pointer whenever it may     *)
(* have replaced it, and that the handler is there from the moment on in   *)
(* which it goes on to work.                                               *)
(*                                                                         *)
(* HostReadsNand speaks of dumps that are finished. ReadsInv says what     *)
(* holds before: what a process has found when it is at some word of the   *)
(* kernel (ScanOK), that its banks are the chip's or order the pages in    *)
(* the same way (BanksOK), at which page the loop is when the image has    *)
(* some length, and what each entry written so far holds (DumpOK), and     *)
(* that a reply not yet taken is the reply to the request (HostOK).        *)
(***************************************************************************)
EXTENDS Nand, TLAPS

DumperFields == {"pc", "scanned", "method", "withAddress", "pointer", "handler", "banks", "bank", "page", "ce"}
KernelFields == {"version", "memory", "pointer", "starts", "lost"}

Before == {"dead", "scan", "hook"}              \* the pointer is untouched
Replacing == {"hook", "handler"}                \* the pointer was found
Serving == {"check", "listen", "dump", "proxy"}

\* The fields of both records, as far as the argument needs them.
Fields ==
    /\ dumper = [f \in DumperFields |-> dumper[f]]
    /\ kernel = [f \in KernelFields |-> kernel[f]]
    /\ dumper.pc \in Before \cup Replacing \cup Serving
    /\ dumper.pointer \in BOOLEAN /\ dumper.handler \in BOOLEAN

PointerKept ==
    \/ kernel.lost # {}
    \/ /\ dumper.pc \in Before => kernel.pointer = "original"
       /\ dumper.pc \in Replacing => dumper.pointer
       /\ dumper.pc \in Serving =>
             kernel.pointer = "original" \/ (dumper.pointer /\ dumper.handler)

\* Before it is used the pointer was replaced, or the write was refused.
Hooked ==
    dumper.pc \in {"handler"} \cup Serving =>
        kernel.version = 4 \/ kernel.pointer = "replaced" \/ "refused" \in kernel.lost

PointerInv == Fields /\ PointerKept /\ Hooked

-----------------------------------------------------------------------------
\* What a process that does not run has in its fields.
LEMMA NotRunningFields ==
    /\ NotRunning = [f \in DumperFields |-> NotRunning[f]]
    /\ NotRunning.pc = "dead" /\ NotRunning.pointer = FALSE /\ NotRunning.handler = FALSE
BY DEF NotRunning, DumperFields

\* A step that leaves the kernel and these fields of the process alone.
LEMMA Kept ==
    ASSUME PointerInv, kernel' = kernel,
           dumper' = [f \in DumperFields |-> dumper'[f]],
           dumper'.pointer = dumper.pointer, dumper'.handler = dumper.handler,
           dumper'.pc = dumper.pc \/ (dumper.pc \in Serving /\ dumper'.pc \in Serving)
    PROVE  PointerInv'
BY DEF PointerInv, Fields, PointerKept, Hooked, Before, Replacing, Serving

\* vm_write: the pointer is written, or the write is refused.
LEMMA Writing ==
    ASSUME PointerInv, NEW pointer, NEW new \in Written(pointer)
    PROVE  /\ new = [f \in KernelFields |-> new[f]] /\ new.version = kernel.version
           /\ \/ new.pointer = pointer /\ new.lost = kernel.lost
              \/ new.pointer = kernel.pointer /\ new.lost = kernel.lost \cup {"refused"}
BY DEF Written, PointerInv, Fields, KernelFields

\* restore_handler: a process that ends by it leaves the pointer as it was.
LEMMA Restoring ==
    ASSUME PointerInv, dumper' = NotRunning, kernel' \in Restored,
           dumper.pc \in Before \/ dumper.pc \in Serving
    PROVE  PointerInv'
<1>1. /\ kernel' = [f \in KernelFields |-> kernel'[f]]
      /\ \/ kernel'.pointer = "original" /\ kernel'.lost = kernel.lost
         \/ kernel'.lost # {}
         \/ ~dumper.pointer /\ kernel' = kernel
  <2>1. CASE dumper.pointer
    BY <2>1, Writing DEF Restored
  <2>2. CASE ~dumper.pointer
    BY <2>2 DEF Restored, PointerInv, Fields
  <2> QED
    BY <2>1, <2>2
<1>2. /\ dumper' = [f \in DumperFields |-> dumper'[f]]
      /\ dumper'.pc = "dead" /\ dumper'.pointer = FALSE /\ dumper'.handler = FALSE
  BY NotRunningFields
<1>3. dumper.pc \in Before /\ kernel.lost = {} => kernel.pointer = "original"
  BY DEF PointerInv, PointerKept
<1>4. dumper.pc \in Serving /\ kernel.lost = {} => kernel.pointer = "original" \/ dumper.pointer
  BY DEF PointerInv, PointerKept
<1>5. PointerKept' /\ Hooked'
  BY <1>1, <1>2, <1>3, <1>4 DEF PointerKept, Hooked, Before, Replacing, Serving
<1> QED
  BY <1>1, <1>2, <1>5 DEF PointerInv, Fields, Before

\* Before the tool starts the kernel is as it was.
LEMMA InitPointer == Init => PointerInv
<1> SUFFICES ASSUME Init PROVE PointerInv
  OBVIOUS
<1>1. dumper = NotRunning
  BY DEF Init
<1>2. /\ kernel = [f \in KernelFields |-> kernel[f]]
      /\ kernel.pointer = "original" /\ kernel.lost = {}
  <2>1. PICK k \in Kernels :
           kernel = [version |-> k.version, memory |-> k.memory, pointer |-> "original",
                     starts |-> 0, lost |-> {}]
    BY DEF Init
  <2> QED
    BY <2>1 DEF KernelFields
<1> QED
  BY <1>1, <1>2, NotRunningFields DEF PointerInv, Fields, PointerKept, Hooked, Before, Replacing, Serving

\* The tool starts.
LEMMA StartPointer == ASSUME PointerInv, Start PROVE PointerInv'
<1>1. kernel' = [kernel EXCEPT !.starts = @ + 1]
  BY DEF Start
<1>2. dumper' = [NotRunning EXCEPT !.pc = IF kernel.version = 4 THEN "check" ELSE "scan"]
  BY DEF Start
<1>3. dumper.pc = "dead"
  BY DEF Start
<1> QED
  BY <1>1, <1>2, <1>3, NotRunningFields
  DEF PointerInv, Fields, PointerKept, Hooked, Before, Replacing, Serving, DumperFields, KernelFields

\* One step of the search through kernel memory.
LEMMA ScanPointer == ASSUME PointerInv, Scan PROVE PointerInv'
<1>1. CASE Exit
  <2>1. dumper.pc \in Before
    BY DEF Scan, Before
  <2> QED
    BY <1>1, <2>1, Restoring DEF Exit
<1>2. CASE kernel' = kernel /\ ~Exit
  <2> DEFINE word == kernel.memory[dumper.scanned + 1]
             found == dumper.method /\ word = "pointer" /\ kernel.pointer = "original"
  <2>1. dumper' = [dumper EXCEPT !.scanned = @ + 1,
                                 !.method = @ \/ word = "method",
                                 !.withAddress = @ \/ (dumper.method /\ word = "withAddress"),
                                 !.pointer = found,
                                 !.pc = IF found THEN "hook" ELSE "scan"]
    BY <1>2 DEF Scan
  <2>2. dumper.pc = "scan"
    BY DEF Scan
  <2>3. found \in BOOLEAN
    OBVIOUS
  <2> HIDE DEF found
  <2>4. /\ dumper'.pointer = found /\ dumper'.handler = dumper.handler
        /\ dumper'.pc = IF found THEN "hook" ELSE "scan"
        /\ dumper' = [f \in DumperFields |-> dumper'[f]]
    BY <2>1 DEF PointerInv, Fields, DumperFields
  <2> QED
    BY <1>2, <2>2, <2>3, <2>4 DEF PointerInv, Fields, PointerKept, Hooked, Before, Replacing, Serving
<1> QED
  BY <1>1, <1>2 DEF Scan

\* The pointer in the kernel is replaced.
LEMMA HookPointer == ASSUME PointerInv, Hook PROVE PointerInv'
<1>1. dumper.pc = "hook" /\ dumper' = [dumper EXCEPT !.pc = "handler"] /\ kernel' \in Written("replaced")
  BY DEF Hook
<1>2. /\ kernel' = [f \in KernelFields |-> kernel'[f]]
      /\ \/ kernel'.pointer = "replaced" /\ kernel'.lost = kernel.lost
         \/ kernel'.lost = kernel.lost \cup {"refused"}
  BY <1>1, Writing
<1> QED
  BY <1>1, <1>2 DEF PointerInv, Fields, PointerKept, Hooked, Before, Replacing, Serving, DumperFields

\* The handler of interrupts is installed.
LEMMA HandlerPointer == ASSUME PointerInv, InstallHandler PROVE PointerInv'
<1>1. /\ dumper.pc = "handler" /\ kernel' = kernel
      /\ dumper' = [dumper EXCEPT !.pc = "check", !.handler = TRUE]
  BY DEF InstallHandler
<1> QED
  BY <1>1 DEF PointerInv, Fields, PointerKept, Hooked, Before, Replacing, Serving, DumperFields

\* The special pages are looked for.
LEMMA CheckPointer == ASSUME PointerInv, CheckSpecialPages PROVE PointerInv'
<1>1. dumper.pc = "check"
  BY DEF CheckSpecialPages
<1>2. CASE Exit
  BY <1>1, <1>2, Restoring DEF Exit, Serving
<1>3. CASE kernel' = kernel /\ dumper' = [dumper EXCEPT !.pc = "listen"]
  <2>1. /\ dumper' = [f \in DumperFields |-> dumper'[f]]
        /\ dumper'.pointer = dumper.pointer /\ dumper'.handler = dumper.handler
        /\ dumper'.pc = "listen"
    BY <1>3 DEF PointerInv, Fields, DumperFields
  <2> QED
    BY <1>1, <1>3, <2>1, Kept DEF Serving
<1>4. CASE kernel' = kernel /\ dumper' = [dumper EXCEPT !.banks = @ + 1]
  <2>1. /\ dumper' = [f \in DumperFields |-> dumper'[f]]
        /\ dumper'.pointer = dumper.pointer /\ dumper'.handler = dumper.handler
        /\ dumper'.pc = dumper.pc
    BY <1>4 DEF PointerInv, Fields, DumperFields
  <2> QED
    BY <1>4, <2>1, Kept
<1> QED
  BY <1>2, <1>3, <1>4 DEF CheckSpecialPages

\* Serving: the process goes from one of its loops to another or stays in one.
LEMMA ServingPointer ==
    ASSUME PointerInv,
           \/ Accept \/ DumpPage \/ Denied \/ Abort \/ DumpEnd \/ Proxy \/ ProxyEnd
    PROVE  PointerInv'
<1>1. CASE Accept
  <2>1. /\ kernel' = kernel /\ dumper.pc = "listen" /\ host.mode \in {"dump", "proxy"}
        /\ dumper' = [dumper EXCEPT !.pc = host.mode, !.bank = 0, !.page = 0, !.ce = 0]
    BY <1>1 DEF Accept
  <2>2. /\ dumper' = [f \in DumperFields |-> dumper'[f]]
        /\ dumper'.pointer = dumper.pointer /\ dumper'.handler = dumper.handler
        /\ dumper'.pc = host.mode
    BY <2>1 DEF PointerInv, Fields, DumperFields
  <2> QED
    BY <2>1, <2>2, Kept DEF Serving
<1>2. CASE kernel' = kernel /\ dumper' = [dumper EXCEPT !.ce = @ + 1]
  <2>1. /\ dumper' = [f \in DumperFields |-> dumper'[f]]
        /\ dumper'.pointer = dumper.pointer /\ dumper'.handler = dumper.handler
        /\ dumper'.pc = dumper.pc
    BY <1>2 DEF PointerInv, Fields, DumperFields
  <2> QED
    BY <1>2, <2>1, Kept
<1>3. ASSUME NEW at, kernel' = kernel, dumper' = Advanced(at)
      PROVE  PointerInv'
  <2>1. /\ dumper' = [f \in DumperFields |-> dumper'[f]]
        /\ dumper'.pointer = dumper.pointer /\ dumper'.handler = dumper.handler
        /\ dumper'.pc = dumper.pc
    BY <1>3 DEF PointerInv, Fields, DumperFields, Advanced
  <2> QED
    BY <1>3, <2>1, Kept
<1>4. CASE DumpPage
  BY <1>2, <1>3, <1>4 DEF DumpPage
<1>5. CASE Abort
  BY <1>3, <1>5 DEF Abort
<1>6. CASE dumper.pc \in Serving /\ kernel' = kernel /\ dumper' = [dumper EXCEPT !.pc = "listen"]
  <2>1. /\ dumper' = [f \in DumperFields |-> dumper'[f]]
        /\ dumper'.pointer = dumper.pointer /\ dumper'.handler = dumper.handler
        /\ dumper'.pc = "listen"
    BY <1>6 DEF PointerInv, Fields, DumperFields
  <2> QED
    BY <1>6, <2>1, Kept DEF Serving
<1>7. CASE DumpEnd
  BY <1>6, <1>7 DEF DumpEnd, Serve, Serving
<1>8. CASE ProxyEnd
  BY <1>6, <1>8 DEF ProxyEnd, Serving
<1>9. CASE Proxy
  BY <1>9 DEF Proxy, PointerInv, Fields, PointerKept, Hooked
<1>10. CASE Denied
  BY <1>10, Restoring DEF Denied, Exit, Serving
<1> QED
  BY <1>1, <1>4, <1>5, <1>7, <1>8, <1>9, <1>10

\* The tool is interrupted at any step.
LEMMA InterruptPointer == ASSUME PointerInv, Interrupt PROVE PointerInv'
<1>1. dumper' = NotRunning /\ dumper.pc # "dead"
  BY DEF Interrupt, Ends
<1>2. /\ dumper' = [f \in DumperFields |-> dumper'[f]]
      /\ dumper'.pc = "dead" /\ dumper'.pointer = FALSE /\ dumper'.handler = FALSE
  BY <1>1, NotRunningFields
<1>3. CASE dumper.handler
  <2>1. kernel' \in Restored
    BY <1>3 DEF Interrupt
  <2>2. CASE dumper.pointer
    <3>1. /\ kernel' = [f \in KernelFields |-> kernel'[f]]
          /\ kernel'.pointer = "original" \/ kernel'.lost # {}
      BY <2>1, <2>2, Writing DEF Restored
    <3> QED
      BY <1>2, <3>1 DEF PointerInv, Fields, PointerKept, Hooked, Before, Replacing, Serving
  <2>3. CASE ~dumper.pointer
    <3>1. kernel' = kernel
      BY <2>1, <2>3 DEF Restored
    <3> QED
      BY <1>1, <1>2, <1>3, <2>3, <3>1 DEF PointerInv, Fields, PointerKept, Hooked, Before, Replacing, Serving
  <2> QED
    BY <2>2, <2>3
<1>4. CASE ~dumper.handler
  <2>1. kernel' = IF dumper.pc = "handler" THEN [kernel EXCEPT !.lost = @ \cup {"early"}] ELSE kernel
    BY <1>4 DEF Interrupt
  <2>2. /\ kernel' = [f \in KernelFields |-> kernel'[f]]
        /\ IF dumper.pc = "handler" THEN kernel'.lost = kernel.lost \cup {"early"} ELSE kernel' = kernel
    BY <2>1 DEF PointerInv, Fields, KernelFields
  <2> QED
    BY <1>1, <1>2, <1>4, <2>2 DEF PointerInv, Fields, PointerKept, Hooked, Before, Replacing, Serving
<1> QED
  BY <1>3, <1>4

\* The tool is killed at any step.
LEMMA KillPointer == ASSUME PointerInv, Kill PROVE PointerInv'
<1>1. /\ dumper' = NotRunning
      /\ kernel' = IF dumper.pointer THEN [kernel EXCEPT !.lost = @ \cup {"killed"}] ELSE kernel
  BY DEF Kill, Ends
<1>2. /\ dumper' = [f \in DumperFields |-> dumper'[f]]
      /\ dumper'.pc = "dead" /\ dumper'.pointer = FALSE /\ dumper'.handler = FALSE
  BY <1>1, NotRunningFields
<1>3. /\ kernel' = [f \in KernelFields |-> kernel'[f]]
      /\ IF dumper.pointer THEN kernel'.lost = kernel.lost \cup {"killed"} ELSE kernel' = kernel
  BY <1>1 DEF PointerInv, Fields, KernelFields
<1> QED
  BY <1>2, <1>3 DEF PointerInv, Fields, PointerKept, Hooked, Before, Replacing, Serving

\* Every step of the tool and of the dump.
LEMMA NextPointer == ASSUME PointerInv, [Next]_vars PROVE PointerInv'
<1>1. CASE Start
  BY <1>1, StartPointer
<1>2. CASE DumperStep
  BY <1>2, ScanPointer, HookPointer, HandlerPointer, CheckPointer, ServingPointer DEF DumperStep
<1>3. CASE Interrupt \/ Kill
  BY <1>3, InterruptPointer, KillPointer
<1>4. CASE HostStep \/ UNCHANGED vars
  <2>1. UNCHANGED <<dumper, kernel>>
    BY <1>4 DEF HostStep, Connect, Request, Take, Leave, vars
  <2> QED
    BY <2>1 DEF PointerInv, Fields, PointerKept, Hooked
<1> QED
  BY <1>1, <1>2, <1>3, <1>4 DEF Next

\* At every step of every behaviour, whatever the kernel's memory holds: a pointer
\* that leads into the process is one that the process has found and, once it
\* works, will restore.
THEOREM PointerAlways == Spec => []PointerInv
<1>1. PointerInv /\ [Next]_vars => PointerInv'
  BY NextPointer
<1> QED
  BY InitPointer, <1>1, PTL DEF Spec

\* ioflash_kernel.c: a process that exits, or is interrupted once its handler is
\* installed, leaves no pointer of its own in the kernel; only one interrupted
\* before, killed, or refused a write may.
THEOREM KernelLeftAsFoundAlways == Spec => []KernelLeftAsFound
<1>1. PointerInv => KernelLeftAsFound
  BY DEF PointerInv, PointerKept, KernelLeftAsFound, Before
<1> QED
  BY PointerAlways, <1>1, PTL

-----------------------------------------------------------------------------
(* What the host reads *)

HostFields == {"mode", "calls", "request", "reply"}
PageFields == {"data", "spare", "ret1"}
Scanned == {"hook", "handler", "check", "listen", "dump", "proxy"}
Connected == {"listen", "dump", "proxy"}

\* What the first words of the kernel's memory hold.
MethodBy(n) == \E i \in 1 .. n : kernel.memory[i] = "method"
AddressBy(n) == \E i \in 1 .. n : kernel.memory[i] = "withAddress" /\ MethodBy(i - 1)
PointerAt(n) == kernel.memory[n] = "pointer" /\ MethodBy(n - 1)
FirstPointer(n) == n \in 1 .. Len(kernel.memory) /\ PointerAt(n) /\ \A i \in 1 .. n - 1 : ~PointerAt(i)

\* The process has what it needs, and no write to the kernel was refused.
Finds == kernel.version = 4 \/ dumper.withAddress
Unrefused == kernel.version = 4 \/ "refused" \notin kernel.lost

\* Every process finds the descriptor function in this kernel, or none does.
Works == kernel.version = 4 \/ \E n \in 1 .. Len(kernel.memory) : FirstPointer(n) /\ AddressBy(n)

ScanOK ==
    /\ kernel.memory \in Seq(STRING) /\ dumper.scanned \in 0 .. Len(kernel.memory)
    /\ dumper.pc \in {"scan"} \cup Replacing => kernel.version # 4
    /\ dumper.pc = "scan" =>
          /\ dumper.method <=> MethodBy(dumper.scanned)
          /\ dumper.withAddress <=> AddressBy(dumper.scanned)
          /\ kernel.pointer = "original" => \A i \in 1 .. dumper.scanned : ~PointerAt(i)
    /\ dumper.pc \in Scanned => (Finds <=> Works)

\* The process that serves orders the pages as the chip does.
SamePages(n) == n = chip.banks \/ IsPowerOfTwo(chip.blocks)
BanksOK ==
    /\ chip \in Chips
    /\ dumper.banks \in 1 .. MaxBanks
    /\ chip.ppn => dumper.banks = 1
    /\ dumper.pc \in Connected =>
          BlocksPerBank(chip, dumper.banks) >= 1 /\ (Guessed => SamePages(dumper.banks))

\* The pages of a bank, and what a dump has for a page.
BankPages == PagesPerBlock * BlocksPerBank(chip, dumper.banks)
EntryOK(entry, ce, page) ==
    IF Status(ce, page) = "good"
    THEN entry.ret1 = "good" /\ entry.data = <<ce, page>> /\ (~IsBoot(page) => entry.spare = <<ce, page>>)
    ELSE entry.ret1 # "good"

\* The image has been written from the first page on, as far as the loop is.
ImageOK ==
    Works /\ Unrefused /\ Guessed => \A ce \in CEs, page \in Pages :
        Unbanked(page) * CECount + ce + 1 <= Len(image) =>
            EntryOK(image[Unbanked(page) * CECount + ce + 1], ce, page)
PlaceOK ==
    dumper.pc = "dump" /\ host.mode = "dump" /\ Guessed =>
        /\ dumper.bank \in Nat /\ dumper.ce \in CEs
        /\ \E rest \in 0 .. BankPages - 1 :
              /\ dumper.page = StartPage(dumper.banks, dumper.bank) + rest
              /\ Len(image) = (dumper.bank * BankPages + rest) * CECount + dumper.ce
DumpOK ==
    /\ \E S : image \in Seq(S)
    /\ buffer = [f \in PageFields |-> buffer[f]]
    /\ PlaceOK
    /\ ImageOK

\* The reply the proxy's client has not taken yet is the reply to its request.
ReplyOK ==
    host.request # <<>> /\ Complete /\ Working =>
        CASE Status(host.request.ce, host.request.page) = "good" ->
               /\ RemoteRead = <<host.request.ce, host.request.page>>
               /\ host.request.spare => host.reply.spare = RemoteRead
          [] Status(host.request.ce, host.request.page) = "blank" -> RemoteRead = <<>>
          [] OTHER -> TRUE
HostOK ==
    /\ host = [f \in HostFields |-> host[f]]
    /\ host.mode # "closed" => dumper.pc \in Connected
    /\ host.mode # "proxy" => host.request = <<>>
    /\ host.request = <<>> => host.reply = NoReply
    /\ host.request # <<>> => \E ce \in CEs, page \in Pages :
          LET boot == page < BootBlocks * PagesPerBlock
          IN  host.request = [ce |-> ce, page |-> page, spare |-> ~boot, boot |-> boot]
    /\ ReplyOK

ReadsInv == PointerInv /\ ScanOK /\ BanksOK /\ DumpOK /\ HostOK

-----------------------------------------------------------------------------
(* Places of pages *)

\* A number in two parts, of which the lower one is below a base.
LEMMA Digits ==
    ASSUME NEW base \in Nat \ {0}, NEW m \in Nat, NEW n \in Nat, NEW a \in 0 .. base - 1, NEW b \in 0 .. base - 1,
           m * base + a = n * base + b
    PROVE  m = n /\ a = b
<1>1. \A x \in Nat, y \in Nat : x < y => x * base + base <= y * base
  <2>1. SUFFICES ASSUME NEW x \in Nat, NEW y \in Nat, x < y PROVE x * base + base <= y * base
    OBVIOUS
  <2>2. PICK d \in Nat : y = x + 1 + d
    <3>1. y - x - 1 \in Nat /\ y = x + 1 + (y - x - 1)
      BY <2>1
    <3> QED
      BY <3>1
  <2>3. y * base = x * base + base + d * base
    BY <2>2
  <2>4. d * base \in Nat /\ x * base \in Nat
    OBVIOUS
  <2> QED
    BY <2>3, <2>4
<1>2. m * base \in Nat /\ n * base \in Nat
  OBVIOUS
<1>3. ~(m < n) /\ ~(n < m)
  BY <1>1, <1>2
<1> QED
  BY <1>2, <1>3

\* Its parts are its quotient and its remainder.
LEMMA DivMod ==
    ASSUME NEW base \in Nat \ {0}, NEW m \in Nat, NEW a \in 0 .. base - 1
    PROVE  (m * base + a) \div base = m /\ (m * base + a) % base = a
<1> DEFINE n == m * base + a
<1>1. n \in Nat
  <2>1. m * base \in Nat
    OBVIOUS
  <2> QED
    BY <2>1
<1>2. /\ n \div base \in Nat /\ n % base \in 0 .. base - 1
      /\ n = (n \div base) * base + (n % base)
  <2> HIDE DEF n
  <2> QED
    BY <1>1
<1>3. m * base + a = (n \div base) * base + (n % base)
  BY <1>2
<1> HIDE DEF n
<1>4. m = n \div base /\ a = n % base
  BY <1>2, <1>3, Digits
<1> QED
  BY <1>4 DEF n

\* Products of natural numbers.
LEMMA Products ==
    /\ \A a \in Nat, b \in Nat : a * b \in Nat
    /\ \A a \in Nat \ {0}, b \in Nat \ {0} : a * b \in Nat \ {0}
    /\ \A a \in Nat, b \in Nat, c \in Nat : a <= b => a * c <= b * c
    /\ \A a \in Nat, c \in Nat : (a + 1) * c = a * c + c
<1>1. \A a \in Nat, b \in Nat : a * b \in Nat
  OBVIOUS
<1>2. \A a \in Nat \ {0}, b \in Nat \ {0} : a * b \in Nat \ {0}
  OBVIOUS
<1>3. \A a \in Nat, b \in Nat, c \in Nat : a <= b => a * c <= b * c
  <2>1. SUFFICES ASSUME NEW a \in Nat, NEW b \in Nat, NEW c \in Nat, a <= b PROVE a * c <= b * c
    OBVIOUS
  <2>2. PICK d \in Nat : b = a + d
    <3>1. b - a \in Nat /\ b = a + (b - a)
      BY <2>1
    <3> QED
      BY <3>1
  <2>3. b * c = a * c + d * c
    BY <2>2
  <2>4. d * c \in Nat /\ a * c \in Nat
    OBVIOUS
  <2> QED
    BY <2>3, <2>4
<1>4. \A a \in Nat, c \in Nat : (a + 1) * c = a * c + c
  OBVIOUS
<1> QED
  BY <1>1, <1>2, <1>3, <1>4

\* The banks of a chip: their blocks and the space between their addresses.
LEMMA ChipBanks ==
    ASSUME Tells, NEW c \in Chips
    PROVE  /\ c.banks \in Nat \ {0} /\ c.blocks \in Nat \ {0} /\ PagesPerBlock \in Nat \ {0}
           /\ BlocksPerBank(c, c.banks) \in Nat \ {0}
           /\ BankAddressSpace(c, c.banks) \in Nat \ {0}
           /\ BlocksPerBank(c, c.banks) <= BankAddressSpace(c, c.banks)
           /\ c.blocks = c.banks * BlocksPerBank(c, c.banks)
<1>1. /\ c.banks \in Nat \ {0} /\ c.blocks \in Nat \ {0} /\ PagesPerBlock \in Nat \ {0}
      /\ c.blocks = c.banks * BlocksPerBank(c, c.banks)
      /\ BankAddressSpace(c, c.banks) \in BlocksPerBank(c, c.banks) .. 2 * BlocksPerBank(c, c.banks)
  BY NandAssumption DEF Tells, Telling
<1>2. \A m \in Nat, n \in Nat \ {0} : m \div n \in Nat
  OBVIOUS
<1>3. BlocksPerBank(c, c.banks) \in Nat
  BY <1>1, <1>2 DEF BlocksPerBank
<1>4. \A m \in Nat : m * 0 = 0
  OBVIOUS
<1>5. BlocksPerBank(c, c.banks) # 0
  BY <1>1, <1>3, <1>4
<1> QED
  BY <1>1, <1>3, <1>5

\* The bank of a page and its place in it, by its address and in the dump.
LEMMA PagePlace ==
    ASSUME Tells, chip \in Chips, NEW page \in Pages
    PROVE  /\ page \in Nat /\ Unbanked(page) \in Nat
           /\ Unbanked(page) + 1 <= chip.blocks * PagesPerBlock
           /\ \E b \in 0 .. chip.banks - 1, r \in 0 .. PagesPerBlock * BlocksPerBank(chip, chip.banks) - 1 :
                 /\ page = StartPage(chip.banks, b) + r
                 /\ Unbanked(page) = b * (PagesPerBlock * BlocksPerBank(chip, chip.banks)) + r
<1> DEFINE P == PagesPerBlock
           B == BlocksPerBank(chip, chip.banks)
           A == BankAddressSpace(chip, chip.banks)
           L == P * B
<1>1. PICK b \in 0 .. chip.banks - 1 : page \in StartPage(chip.banks, b) .. EndPage(chip.banks, b) - 1
  BY DEF Pages
<1>2. /\ P \in Nat \ {0} /\ B \in Nat \ {0} /\ A \in Nat \ {0} /\ B <= A
      /\ chip.banks \in Nat \ {0} /\ chip.blocks = chip.banks * B
  BY ChipBanks
<1>3. b \in Nat /\ b + 1 <= chip.banks
  BY <1>2
<1>4. StartPage(chip.banks, b) = A * b * P /\ EndPage(chip.banks, b) = A * b * P + L
  BY DEF StartPage, EndPage
<1>5. Unbanked(page) = (page \div (A * P)) * B * P + (page % (A * P))
  BY DEF Unbanked
<1>6. chip.blocks * P = (chip.banks * B) * P
  BY <1>2
<1> HIDE DEF P, B, A
<1>7. A * b * P = b * (A * P) /\ A * P \in Nat \ {0} /\ L \in Nat \ {0} /\ b * (A * P) \in Nat /\ b * L \in Nat
  BY <1>2, <1>3, Products
<1>8. L <= A * P
  BY <1>2, Products
<1>9. PICK r \in 0 .. L - 1 : page = b * (A * P) + r
  <2>1. page \in b * (A * P) .. b * (A * P) + L - 1
    BY <1>1, <1>4, <1>7
  <2>2. page - b * (A * P) \in 0 .. L - 1 /\ page = b * (A * P) + (page - b * (A * P))
    BY <2>1, <1>7
  <2> QED
    BY <2>2
<1>10. r \in 0 .. (A * P) - 1
  BY <1>7, <1>8
<1>11. page \div (A * P) = b /\ page % (A * P) = r
  BY <1>3, <1>7, <1>9, <1>10, DivMod
<1>12. b * B * P = b * L
  BY <1>2, <1>3
<1>13. Unbanked(page) = b * L + r
  BY <1>5, <1>11, <1>12
<1>14. (b + 1) * L <= chip.banks * L
  BY <1>2, <1>3, <1>7, Products
<1>15. (b + 1) * L = b * L + L
  BY <1>3, <1>7
<1>16. chip.banks * L = (chip.banks * B) * P
  BY <1>2
<1>17. page \in Nat /\ Unbanked(page) \in Nat
  BY <1>7, <1>9, <1>13
<1>18. Unbanked(page) + 1 <= chip.banks * L
  <2>1. chip.banks * L \in Nat
    BY <1>2, <1>7, Products
  <2> QED
    BY <1>7, <1>13, <1>14, <1>15, <2>1
<1> QED
  BY <1>4, <1>6, <1>7, <1>9, <1>13, <1>16, <1>17, <1>18 DEF P, B

\* A process with this number of banks reads the page at its place in the dump.
LEMMA SamePlace ==
    ASSUME Tells, chip \in Chips, NEW n \in Nat \ {0}, BlocksPerBank(chip, n) >= 1, SamePages(n),
           NEW page \in Pages, NEW bank \in Nat, NEW rest \in 0 .. PagesPerBlock * BlocksPerBank(chip, n) - 1,
           Unbanked(page) = bank * (PagesPerBlock * BlocksPerBank(chip, n)) + rest
    PROVE  page = StartPage(n, bank) + rest
<1>1. PICK b \in 0 .. chip.banks - 1, r \in 0 .. PagesPerBlock * BlocksPerBank(chip, chip.banks) - 1 :
         /\ page = StartPage(chip.banks, b) + r
         /\ Unbanked(page) = b * (PagesPerBlock * BlocksPerBank(chip, chip.banks)) + r
  BY PagePlace
<1>2. b \in Nat
  BY ChipBanks
<1>3. CASE n = chip.banks
  <2> DEFINE L == PagesPerBlock * BlocksPerBank(chip, chip.banks)
  <2>1. L \in Nat \ {0}
    BY ChipBanks, Products
  <2>2. b * L + r = bank * L + rest /\ rest \in 0 .. L - 1 /\ r \in 0 .. L - 1
    BY <1>1, <1>3
  <2> HIDE DEF L
  <2>3. b = bank /\ r = rest
    BY <1>2, <2>1, <2>2, Digits
  <2> QED
    BY <1>1, <1>3, <2>3
<1>4. CASE IsPowerOfTwo(chip.blocks)
  <2>1. \A m, k : StartPage(m, k) = BlocksPerBank(chip, m) * k * PagesPerBlock
    BY <1>4 DEF StartPage, BankAddressSpace
  <2>2. \A x \in Nat, k \in Nat, p \in Nat : x * k * p = k * (p * x)
    OBVIOUS
  <2>3. /\ PagesPerBlock \in Nat /\ BlocksPerBank(chip, chip.banks) \in Nat /\ chip.blocks \in Nat
    BY ChipBanks
  <2>4. BlocksPerBank(chip, n) \in Nat
    <3>1. \A x \in Nat, y \in Nat \ {0} : x \div y \in Nat
      OBVIOUS
    <3> QED
      BY <2>3, <3>1 DEF BlocksPerBank
  <2>5. page = Unbanked(page)
    BY <1>1, <1>2, <2>1, <2>2, <2>3
  <2>6. StartPage(n, bank) = bank * (PagesPerBlock * BlocksPerBank(chip, n))
    BY <2>1, <2>2, <2>3, <2>4
  <2> QED
    BY <2>5, <2>6
<1> QED
  BY <1>3, <1>4 DEF SamePages

\* remote.py takes no page for a boot page that is not one.
LEMMA BootPages ==
    ASSUME Tells, NEW page \in Nat, page < BootBlocks * PagesPerBlock
    PROVE  IsBoot(page)
<1>1. /\ PagesPerBlock \in Nat \ {0} /\ FSStart \in Nat /\ BootBlocks \in Nat /\ BootBlocks <= FSStart
  BY NandAssumption DEF Tells
<1> DEFINE q == page \div PagesPerBlock
<1>2. \A p \in Nat \ {0} : /\ page \div p \in Nat /\ page % p \in 0 .. p - 1
                           /\ page = (page \div p) * p + (page % p)
  OBVIOUS
<1>3. /\ q \in Nat /\ page % PagesPerBlock \in Nat
      /\ page = q * PagesPerBlock + (page % PagesPerBlock)
  BY <1>1, <1>2
<1> HIDE DEF q
<1>4. q * PagesPerBlock \in Nat /\ BootBlocks * PagesPerBlock \in Nat
  BY <1>1, <1>3, Products
<1>5. q * PagesPerBlock <= page
  BY <1>3, <1>4
<1>6. ~(BootBlocks <= q)
  <2>1. BootBlocks <= q => BootBlocks * PagesPerBlock <= q * PagesPerBlock
    BY <1>1, <1>3, Products
  <2> QED
    BY <1>4, <1>5, <2>1
<1> QED
  BY <1>1, <1>3, <1>6 DEF IsBoot, q

-----------------------------------------------------------------------------
(* What no step changes *)

Fixed ==
    /\ chip' = chip /\ status' = status
    /\ kernel'.version = kernel.version /\ kernel'.memory = kernel.memory
    /\ kernel.lost \subseteq kernel'.lost

\* No step exchanges the chip, its pages or the version and words of the kernel.
LEMMA NextFixed == ASSUME PointerInv, [Next]_vars PROVE Fixed
<1>1. kernel = [f \in KernelFields |-> kernel[f]]
  BY DEF PointerInv, Fields
<1>2. ASSUME \/ kernel' = [kernel EXCEPT !.starts = @ + 1]
             \/ \E p : kernel' \in Written(p)
             \/ \E e : kernel' = [kernel EXCEPT !.lost = @ \cup {e}]
             \/ kernel' \in Restored \/ kernel' = kernel
      PROVE  /\ kernel'.version = kernel.version /\ kernel'.memory = kernel.memory
             /\ kernel.lost \subseteq kernel'.lost
  BY <1>1, <1>2 DEF Restored, Written, KernelFields
<1>3. chip' = chip /\ status' = status
  <2>1. CASE Start \/ Interrupt \/ Kill \/ HostStep \/ UNCHANGED vars
    BY <2>1 DEF Start, Interrupt, Kill, Ends, HostStep, Connect, Request, Take, Leave, vars
  <2>2. CASE DumperStep
    BY <2>2 DEF DumperStep, Scan, Hook, InstallHandler, CheckSpecialPages, Accept, DumpPage, Denied, Abort,
                DumpEnd, Proxy, ProxyEnd
  <2> QED
    BY <2>1, <2>2 DEF Next
<1>4. CASE Start
  BY <1>2, <1>3, <1>4 DEF Start, Fixed
<1>5. CASE Scan \/ CheckSpecialPages \/ Denied
  <2>1. kernel' \in Restored \/ kernel' = kernel
    BY <1>5 DEF Scan, CheckSpecialPages, Denied, Exit
  <2> QED
    BY <1>2, <1>3, <2>1 DEF Fixed
<1>6. CASE Hook
  BY <1>2, <1>3, <1>6 DEF Hook, Fixed
<1>7. CASE Interrupt \/ Kill
  <2>1. \/ kernel' \in Restored
        \/ kernel' = [kernel EXCEPT !.lost = @ \cup {"early"}]
        \/ kernel' = [kernel EXCEPT !.lost = @ \cup {"killed"}]
        \/ kernel' = kernel
    BY <1>7 DEF Interrupt, Kill
  <2>2. kernel' \in Restored \/ (\E e : kernel' = [kernel EXCEPT !.lost = @ \cup {e}]) \/ kernel' = kernel
    BY <2>1
  <2> QED
    BY <1>2, <1>3, <2>2 DEF Fixed
<1>8. CASE InstallHandler \/ Accept \/ DumpPage \/ Abort \/ DumpEnd \/ Proxy \/ ProxyEnd \/ HostStep \/ UNCHANGED vars
  <2>1. kernel' = kernel
    BY <1>8 DEF InstallHandler, Accept, DumpPage, Abort, DumpEnd, Proxy, ProxyEnd,
                HostStep, Connect, Request, Take, Leave, vars
  <2> QED
    BY <1>3, <2>1 DEF Fixed
<1> QED
  BY <1>4, <1>5, <1>6, <1>7, <1>8 DEF Next, DumperStep

\* What depends on the chip and the kernel alone stays what it is.
LEMMA FixedTerms ==
    ASSUME Fixed
    PROVE  /\ Works' <=> Works
           /\ Guessed' <=> Guessed
           /\ Pages' = Pages
           /\ \A page : Unbanked(page)' = Unbanked(page)
           /\ \A ce, page : Status(ce, page)' = Status(ce, page)
           /\ \A entry, ce, page : EntryOK(entry, ce, page)' <=> EntryOK(entry, ce, page)
           /\ \A n, bank : StartPage(n, bank)' = StartPage(n, bank)
           /\ \A n, bank : EndPage(n, bank)' = EndPage(n, bank)
           /\ \A n : SamePages(n)' <=> SamePages(n)
<1> USE DEF Fixed
<1>1. Works' <=> Works
  BY DEF Works, FirstPointer, PointerAt, MethodBy, AddressBy
<1>2. Guessed' <=> Guessed
  BY DEF Guessed
<1>3. \A n, bank : StartPage(n, bank)' = StartPage(n, bank)
  BY DEF StartPage
<1>4. \A n, bank : EndPage(n, bank)' = EndPage(n, bank)
  BY <1>3 DEF EndPage, StartPage
<1>5. Pages' = Pages
  BY DEF Pages, StartPage, EndPage
<1>6. \A page : Unbanked(page)' = Unbanked(page)
  BY DEF Unbanked
<1>7. \A ce, page : Status(ce, page)' = Status(ce, page)
  BY DEF Status
<1>8. \A entry, ce, page : EntryOK(entry, ce, page)' <=> EntryOK(entry, ce, page)
  BY DEF EntryOK, Status
<1>9. \A n : SamePages(n)' <=> SamePages(n)
  BY DEF SamePages
<1> QED
  BY <1>1, <1>2, <1>3, <1>4, <1>5, <1>6, <1>7, <1>8, <1>9

-----------------------------------------------------------------------------
(* The search through the kernel's memory *)

\* A process that has ended.
LEMMA DeadScan == ASSUME ScanOK, Fixed, dumper' = NotRunning PROVE ScanOK'
<1>1. dumper'.pc = "dead" /\ dumper'.scanned = 0
  BY DEF NotRunning
<1>2. kernel'.memory \in Seq(STRING)
  BY DEF ScanOK, Fixed
<1>3. 0 \in 0 .. Len(kernel'.memory)
  BY <1>2
<1> QED
  BY <1>1, <1>2, <1>3 DEF ScanOK, Replacing, Scanned

\* A process that has found what it will find.
LEMMA ScannedKept ==
    ASSUME ScanOK, Fixed, dumper'.scanned = dumper.scanned, dumper'.withAddress = dumper.withAddress,
           dumper.pc \in Scanned, dumper'.pc \in Scanned,
           dumper'.pc \in Replacing => dumper.pc \in Replacing
    PROVE  ScanOK'
<1>1. Works' <=> Works
  BY FixedTerms
<1>2. Finds' <=> Finds
  BY DEF Finds, Fixed
<1> QED
  BY <1>1, <1>2 DEF ScanOK, Fixed, Scanned

\* Before the tool starts.
LEMMA InitScan == Init => ScanOK
<1> SUFFICES ASSUME Init PROVE ScanOK
  OBVIOUS
<1>1. kernel.memory \in Seq(STRING)
  BY NandAssumption DEF Init
<1>2. dumper.pc = "dead" /\ dumper.scanned = 0
  BY DEF Init, NotRunning
<1>3. 0 \in 0 .. Len(kernel.memory)
  BY <1>1
<1> QED
  BY <1>1, <1>2, <1>3 DEF ScanOK, Replacing, Scanned

\* The tool starts: under version 4 nothing has to be found.
LEMMA StartScan == ASSUME ScanOK, Fixed, Start PROVE ScanOK'
<1>1. dumper' = [NotRunning EXCEPT !.pc = IF kernel.version = 4 THEN "check" ELSE "scan"]
  BY DEF Start
<1>2. /\ dumper'.pc = IF kernel.version = 4 THEN "check" ELSE "scan"
      /\ dumper'.scanned = 0 /\ dumper'.method = FALSE /\ dumper'.withAddress = FALSE
  BY <1>1 DEF NotRunning
<1>3. kernel'.memory \in Seq(STRING) /\ kernel'.memory = kernel.memory /\ kernel'.version = kernel.version
  BY DEF ScanOK, Fixed
<1>4. 0 \in 0 .. Len(kernel'.memory) /\ 1 .. 0 = {}
  BY <1>3
<1>5. CASE kernel.version = 4
  <2>1. Finds' /\ Works'
    BY <1>3, <1>5 DEF Finds, Works
  <2>2. dumper'.pc = "check"
    BY <1>2, <1>5
  <2> QED
    BY <1>2, <1>3, <1>4, <2>1, <2>2 DEF ScanOK, Replacing, Scanned
<1>6. CASE kernel.version # 4
  <2>1. dumper'.pc = "scan"
    BY <1>2, <1>6
  <2>2. ~MethodBy(dumper.scanned)' /\ ~AddressBy(dumper.scanned)'
    BY <1>2, <1>4 DEF MethodBy, AddressBy
  <2>3. \A i \in 1 .. dumper'.scanned : ~PointerAt(i)'
    BY <1>2, <1>4
  <2> QED
    BY <1>2, <1>3, <1>4, <1>6, <2>1, <2>2, <2>3 DEF ScanOK, Replacing, Scanned
<1> QED
  BY <1>5, <1>6

\* One word more of the kernel's memory.
LEMMA WordScan ==
    ASSUME PointerInv, ScanOK, Fixed, Scan, dumper.scanned < Len(kernel.memory), kernel' = kernel,
           dumper' = [dumper EXCEPT !.scanned = @ + 1,
                         !.method = @ \/ kernel.memory[dumper.scanned + 1] = "method",
                         !.withAddress = @ \/ (dumper.method /\ kernel.memory[dumper.scanned + 1] = "withAddress"),
                         !.pointer = dumper.method /\ kernel.memory[dumper.scanned + 1] = "pointer"
                                        /\ kernel.pointer = "original",
                         !.pc = IF dumper.method /\ kernel.memory[dumper.scanned + 1] = "pointer"
                                   /\ kernel.pointer = "original" THEN "hook" ELSE "scan"]
    PROVE  ScanOK'
<1> DEFINE n == dumper.scanned + 1
           word == kernel.memory[n]
           found == dumper.method /\ word = "pointer" /\ kernel.pointer = "original"
<1>1. /\ dumper'.scanned = n
      /\ dumper'.method = (dumper.method \/ word = "method")
      /\ dumper'.withAddress = (dumper.withAddress \/ (dumper.method /\ word = "withAddress"))
      /\ dumper'.pc = IF found THEN "hook" ELSE "scan"
  BY DEF PointerInv, Fields, DumperFields
<1>2. dumper.pc = "scan" /\ kernel.version # 4
  BY DEF Scan, ScanOK
<1>3. /\ kernel.memory \in Seq(STRING) /\ dumper.scanned \in 0 .. Len(kernel.memory)
      /\ dumper.method <=> MethodBy(dumper.scanned)
      /\ dumper.withAddress <=> AddressBy(dumper.scanned)
      /\ kernel.pointer = "original" => \A i \in 1 .. dumper.scanned : ~PointerAt(i)
  BY <1>2 DEF ScanOK
<1>4. Len(kernel.memory) \in Nat
  BY <1>3
<1>5. n \in 1 .. Len(kernel.memory) /\ n - 1 = dumper.scanned
  BY <1>3, <1>4
<1>6. 1 .. n = 1 .. dumper.scanned \cup {n}
  BY <1>3, <1>4
<1> HIDE DEF n
<1>7. MethodBy(n) <=> (MethodBy(dumper.scanned) \/ word = "method")
  BY <1>6 DEF MethodBy
<1>8. AddressBy(n) <=> (AddressBy(dumper.scanned) \/ (word = "withAddress" /\ MethodBy(dumper.scanned)))
  BY <1>5, <1>6 DEF AddressBy
<1>9. PointerAt(n) <=> (word = "pointer" /\ MethodBy(dumper.scanned))
  BY <1>5 DEF PointerAt
<1>10. /\ dumper'.method <=> MethodBy(n)
       /\ dumper'.withAddress <=> AddressBy(n)
       /\ found <=> (PointerAt(n) /\ kernel.pointer = "original")
  BY <1>1, <1>3, <1>7, <1>8, <1>9
<1>11. /\ \A i : MethodBy(i)' <=> MethodBy(i)
       /\ \A i : AddressBy(i)' <=> AddressBy(i)
       /\ \A i : PointerAt(i)' <=> PointerAt(i)
  BY DEF MethodBy, AddressBy, PointerAt
<1>12. /\ kernel'.memory \in Seq(STRING) /\ dumper'.scanned \in 0 .. Len(kernel'.memory)
       /\ kernel'.version # 4
  BY <1>1, <1>2, <1>3, <1>4, <1>5
<1>13. CASE found
  <2>1. dumper'.pc = "hook"
    BY <1>1, <1>13
  <2>2. FirstPointer(n)
    <3>1. \A i \in 1 .. n - 1 : ~PointerAt(i)
      BY <1>3, <1>5, <1>13
    <3> QED
      BY <1>5, <1>10, <1>13, <3>1 DEF FirstPointer
  <2>3. \A m \in 1 .. Len(kernel.memory) : FirstPointer(m) => m = n
    <3>1. \A m \in 1 .. Len(kernel.memory) : m = n \/ m \in 1 .. n - 1 \/ n \in 1 .. m - 1
      BY <1>4, <1>5
    <3> QED
      BY <2>2, <3>1 DEF FirstPointer
  <2>4. Works <=> AddressBy(n)
    BY <1>2, <1>5, <2>2, <2>3 DEF Works
  <2>5. Works' <=> Works
    BY FixedTerms
  <2>6. Finds' <=> dumper'.withAddress
    BY <1>2 DEF Finds
  <2>7. Finds' <=> Works'
    BY <1>10, <2>4, <2>5, <2>6
  <2> QED
    BY <1>12, <2>1, <2>7 DEF ScanOK
<1>14. CASE ~found
  <2>1. dumper'.pc = "scan"
    BY <1>1, <1>14
  <2>2. kernel.pointer = "original" => \A i \in 1 .. n : ~PointerAt(i)
    BY <1>3, <1>6, <1>10, <1>14
  <2>3. kernel'.pointer = "original" => \A i \in 1 .. dumper'.scanned : ~PointerAt(i)'
    BY <1>1, <1>11, <2>2
  <2>4. /\ dumper'.method <=> MethodBy(dumper.scanned)'
        /\ dumper'.withAddress <=> AddressBy(dumper.scanned)'
    BY <1>1, <1>10 DEF MethodBy, AddressBy
  <2> QED
    BY <1>12, <2>1, <2>3, <2>4 DEF ScanOK, Scanned
<1> QED
  BY <1>13, <1>14

\* Every step.
LEMMA NextScan == ASSUME PointerInv, ScanOK, Fixed, [Next]_vars PROVE ScanOK'
<1>1. CASE Start
  BY <1>1, StartScan
<1>2. CASE Exit \/ Interrupt \/ Kill
  BY <1>2, DeadScan DEF Exit, Interrupt, Kill, Ends
<1>3. CASE Scan /\ ~Exit
  BY <1>3, WordScan DEF Scan
<1>4. ASSUME dumper'.scanned = dumper.scanned, dumper'.withAddress = dumper.withAddress,
             \/ dumper.pc = "hook" /\ dumper'.pc = "handler"
             \/ dumper.pc \in {"handler"} \cup Serving /\ dumper'.pc \in Serving
      PROVE  ScanOK'
  BY <1>4, ScannedKept DEF Scanned, Serving, Replacing
<1>5. CASE Hook
  <2>1. dumper.pc = "hook" /\ dumper' = [dumper EXCEPT !.pc = "handler"]
    BY <1>5 DEF Hook
  <2> QED
    BY <1>4, <2>1 DEF PointerInv, Fields, DumperFields
<1>6. CASE InstallHandler
  <2>1. dumper.pc = "handler" /\ dumper' = [dumper EXCEPT !.pc = "check", !.handler = TRUE]
    BY <1>6 DEF InstallHandler
  <2> QED
    BY <1>4, <2>1 DEF PointerInv, Fields, DumperFields, Serving
<1>7. CASE CheckSpecialPages /\ ~Exit
  <2>1. /\ dumper.pc = "check"
        /\ \/ dumper' = [dumper EXCEPT !.pc = "listen"]
           \/ dumper' = [dumper EXCEPT !.banks = @ + 1]
    BY <1>7 DEF CheckSpecialPages
  <2> QED
    BY <1>4, <2>1 DEF PointerInv, Fields, DumperFields, Serving
<1>8. CASE Accept
  <2>1. /\ dumper.pc = "listen" /\ host.mode \in {"dump", "proxy"}
        /\ dumper' = [dumper EXCEPT !.pc = host.mode, !.bank = 0, !.page = 0, !.ce = 0]
    BY <1>8 DEF Accept
  <2> QED
    BY <1>4, <2>1 DEF PointerInv, Fields, DumperFields, Serving
<1>9. CASE DumpPage \/ Abort
  <2>1. /\ dumper.pc = "dump"
        /\ \/ dumper' = [dumper EXCEPT !.ce = @ + 1]
           \/ \E at : dumper' = Advanced(at)
    BY <1>9 DEF DumpPage, Abort
  <2> QED
    BY <1>4, <2>1 DEF PointerInv, Fields, DumperFields, Serving, Advanced
<1>10. CASE DumpEnd \/ ProxyEnd
  <2>1. dumper.pc \in {"dump", "proxy"} /\ dumper' = [dumper EXCEPT !.pc = "listen"]
    BY <1>10 DEF DumpEnd, ProxyEnd, Serve
  <2> QED
    BY <1>4, <2>1 DEF PointerInv, Fields, DumperFields, Serving
<1>11. CASE Proxy \/ HostStep \/ UNCHANGED vars
  <2>1. dumper' = dumper /\ kernel' = kernel
    BY <1>11 DEF Proxy, HostStep, Connect, Request, Take, Leave, vars
  <2>2. Works' <=> Works
    BY FixedTerms
  <2>3. /\ \A i : MethodBy(i)' <=> MethodBy(i)
        /\ \A i : AddressBy(i)' <=> AddressBy(i)
        /\ \A i : PointerAt(i)' <=> PointerAt(i)
    BY <2>1 DEF MethodBy, AddressBy, PointerAt
  <2>4. Finds' <=> Finds
    BY <2>1 DEF Finds
  <2>5. MethodBy(dumper.scanned)' <=> MethodBy(dumper.scanned)
    BY <2>1 DEF MethodBy
  <2>6. AddressBy(dumper.scanned)' <=> AddressBy(dumper.scanned)
    BY <2>1 DEF AddressBy, MethodBy
  <2> QED
    BY <2>1, <2>2, <2>3, <2>4, <2>5, <2>6 DEF ScanOK
<1> QED
  BY <1>1, <1>2, <1>3, <1>5, <1>6, <1>7, <1>8, <1>9, <1>10, <1>11 DEF Next, DumperStep, Denied

-----------------------------------------------------------------------------
(* The number of banks *)

\* Before the tool starts.
LEMMA InitBanks == Init => BanksOK
BY NandAssumption DEF Init, BanksOK, NotRunning, Connected

\* A process that does not serve yet, or no more.
LEMMA AwayBanks ==
    ASSUME BanksOK, Fixed, dumper'.banks = 1 \/ dumper'.banks = dumper.banks, dumper'.pc \notin Connected
    PROVE  BanksOK'
BY NandAssumption DEF BanksOK, Fixed

\* A process that goes on serving.
LEMMA SameBanks ==
    ASSUME BanksOK, Fixed, dumper'.banks = dumper.banks, dumper.pc \in Connected
    PROVE  BanksOK'
<1>1. (Guessed' <=> Guessed) /\ chip' = chip
  BY FixedTerms DEF Fixed
<1>2. SamePages(dumper.banks)' <=> SamePages(dumper.banks)
  BY <1>1 DEF SamePages
<1> QED
  BY <1>1, <1>2 DEF BanksOK

\* check_special_pages: the number at which it ends is the chip's, or the pages
\* are in the same order.
LEMMA CheckBanks ==
    ASSUME Tells, PointerInv, BanksOK, Fixed, CheckSpecialPages, dumper' = [dumper EXCEPT !.pc = "listen"],
           chip.ppn \/ FoundInfo(dumper.banks)
    PROVE  BanksOK'
<1>1. dumper'.banks = dumper.banks /\ dumper'.pc = "listen"
  BY DEF PointerInv, Fields, DumperFields
<1>2. chip \in Chips /\ dumper.banks \in 1 .. MaxBanks /\ (chip.ppn => dumper.banks = 1)
  BY DEF BanksOK
<1>3. chip' = chip /\ (Guessed' <=> Guessed)
  BY FixedTerms DEF Fixed
<1>4. BlocksPerBank(chip, dumper.banks) >= 1 /\ (Guessed => SamePages(dumper.banks))
  <2>1. CASE chip.ppn
    <3>1. dumper.banks = 1
      BY <1>2, <2>1
    <3>2. BlocksPerBank(chip, 1) >= 1
      <4>1. chip.blocks \in Nat \ {0}
        BY <1>2, ChipBanks
      <4>2. chip.blocks \div 1 = chip.blocks
        BY <4>1
      <4> QED
        BY <4>1, <4>2 DEF BlocksPerBank
    <3>3. Guessed => SamePages(1)
      BY <2>1 DEF Guessed, SamePages
    <3> QED
      BY <3>1, <3>2, <3>3
  <2>2. CASE ~chip.ppn
    <3>1. chip.info \in Searched(chip, dumper.banks)
      BY <2>2 DEF FoundInfo
    <3>2. SamePages(dumper.banks)
      BY <1>2, <2>2, <3>1 DEF Tells, Telling, SamePages
    <3>3. ~(BlocksPerBank(chip, dumper.banks) < LastBlocks + 1)
      BY <3>1 DEF Searched
    <3>4. BlocksPerBank(chip, dumper.banks) \in Nat
      <4>1. chip.blocks \in Nat /\ dumper.banks \in Nat \ {0}
        BY <1>2, NandAssumption
      <4>2. \A m \in Nat, n \in Nat \ {0} : m \div n \in Nat
        OBVIOUS
      <4> QED
        BY <4>1, <4>2 DEF BlocksPerBank
    <3> QED
      BY <3>2, <3>3, <3>4, NandAssumption
  <2> QED
    BY <2>1, <2>2
<1>5. SamePages(dumper.banks)' <=> SamePages(dumper.banks)
  BY <1>1, <1>3 DEF SamePages
<1> QED
  BY <1>1, <1>2, <1>3, <1>4, <1>5 DEF BanksOK

\* Every step.
LEMMA NextBanks == ASSUME Tells, PointerInv, BanksOK, Fixed, [Next]_vars PROVE BanksOK'
<1>1. CASE Start
  BY <1>1, AwayBanks DEF Start, NotRunning, Connected
<1>2. CASE Exit \/ Interrupt \/ Kill
  BY <1>2, AwayBanks DEF Exit, Interrupt, Kill, Ends, NotRunning, Connected
<1>3. CASE (Scan /\ ~Exit) \/ Hook \/ InstallHandler
  <2>1. dumper'.banks = dumper.banks /\ dumper'.pc \in {"scan", "hook", "handler", "check"}
    <3>1. CASE Scan /\ ~Exit
      BY <3>1 DEF Scan, PointerInv, Fields, DumperFields
    <3>2. CASE Hook
      BY <3>2 DEF Hook, PointerInv, Fields, DumperFields
    <3>3. CASE InstallHandler
      BY <3>3 DEF InstallHandler, PointerInv, Fields, DumperFields
    <3> QED
      BY <1>3, <3>1, <3>2, <3>3
  <2> QED
    BY <2>1, AwayBanks DEF Connected
<1>4. CASE CheckSpecialPages /\ ~Exit
  <2>1. CASE dumper' = [dumper EXCEPT !.pc = "listen"] /\ (chip.ppn \/ FoundInfo(dumper.banks))
    BY <1>4, <2>1, CheckBanks
  <2>2. CASE ~chip.ppn /\ dumper.banks < MaxBanks /\ dumper' = [dumper EXCEPT !.banks = @ + 1]
    <3>1. dumper.pc = "check"
      BY <1>4 DEF CheckSpecialPages
    <3>2. dumper'.banks = dumper.banks + 1 /\ dumper'.pc = dumper.pc
      BY <2>2 DEF PointerInv, Fields, DumperFields
    <3>3. dumper'.banks \in 1 .. MaxBanks
      BY <2>2, <3>2, NandAssumption DEF BanksOK
    <3> QED
      BY <2>2, <3>1, <3>2, <3>3 DEF BanksOK, Connected, Fixed
  <2> QED
    BY <1>4, <2>1, <2>2 DEF CheckSpecialPages
<1>5. CASE Accept \/ DumpPage \/ Abort \/ DumpEnd \/ ProxyEnd
  <2>1. dumper.pc \in Connected
    BY <1>5 DEF Accept, DumpPage, Abort, DumpEnd, ProxyEnd, Connected
  <2>2. dumper'.banks = dumper.banks
    <3>1. \/ dumper' = [dumper EXCEPT !.pc = host.mode, !.bank = 0, !.page = 0, !.ce = 0]
          \/ dumper' = [dumper EXCEPT !.ce = @ + 1]
          \/ \E at : dumper' = Advanced(at)
          \/ dumper' = [dumper EXCEPT !.pc = "listen"]
      BY <1>5 DEF Accept, DumpPage, Abort, DumpEnd, Serve, ProxyEnd
    <3> QED
      BY <3>1 DEF PointerInv, Fields, DumperFields, Advanced
  <2> QED
    BY <2>1, <2>2, SameBanks
<1>6. CASE Proxy \/ HostStep \/ UNCHANGED vars
  <2>1. dumper' = dumper
    BY <1>6 DEF Proxy, HostStep, Connect, Request, Take, Leave, vars
  <2> QED
    BY <2>1, SameBanks, AwayBanks
<1> QED
  BY <1>1, <1>2, <1>3, <1>4, <1>5, <1>6 DEF Next, DumperStep, Denied

-----------------------------------------------------------------------------
(* Reading a page, and what a dump holds *)

IsPage(p) == p = [f \in PageFields |-> p[f]]
ReadBy(old, ce, page) == ReadPage(old, ce, page, IsBoot(page), ~IsBoot(page))

\* The buffer keeps its fields.
LEMMA PageRecords ==
    /\ IsPage(FreshBuffer)
    /\ \A old, ce, page, boot, spare : IsPage(old) => IsPage(ReadPage(old, ce, page, boot, spare))
    /\ \A old : IsPage(old) => IsPage(Cleared(old))
    /\ \A old, x : IsPage(old) => IsPage([old EXCEPT !.spare = x])
<1>1. IsPage(FreshBuffer)
  BY DEF IsPage, FreshBuffer, PageFields
<1>2. ASSUME NEW old, NEW ce, NEW page, NEW boot, NEW spare, IsPage(old)
      PROVE  IsPage(ReadPage(old, ce, page, boot, spare))
  <2>1. CASE CallFails(boot, spare)
    BY <1>2, <2>1 DEF ReadPage
  <2>2. CASE ~CallFails(boot, spare)
    <3>1. CASE ReadAs(ce, page, boot) = "good"
      <4>1. ReadPage(old, ce, page, boot, spare) =
               [data |-> <<ce, page>>, spare |-> IF spare THEN <<ce, page>> ELSE old.spare, ret1 |-> "good"]
        BY <2>2, <3>1 DEF ReadPage
      <4> QED
        BY <4>1 DEF IsPage, PageFields
    <3>2. CASE ReadAs(ce, page, boot) = "bad"
      <4>1. ReadPage(old, ce, page, boot, spare) = [old EXCEPT !.data = Garbage, !.ret1 = "bad"]
        BY <2>2, <3>2 DEF ReadPage
      <4> QED
        BY <1>2, <4>1 DEF IsPage, PageFields
    <3>3. CASE ReadAs(ce, page, boot) \notin {"good", "bad"}
      <4>1. ReadPage(old, ce, page, boot, spare) = [old EXCEPT !.ret1 = ReadAs(ce, page, boot)]
        BY <2>2, <3>3 DEF ReadPage
      <4> QED
        BY <1>2, <4>1 DEF IsPage, PageFields
    <3> QED
      BY <3>1, <3>2, <3>3
  <2> QED
    BY <2>1, <2>2
<1>3. ASSUME NEW old, IsPage(old) PROVE IsPage(Cleared(old))
  BY <1>3 DEF Cleared, IsPage, PageFields
<1>4. ASSUME NEW old, NEW x, IsPage(old) PROVE IsPage([old EXCEPT !.spare = x])
  BY <1>4 DEF IsPage, PageFields
<1> QED
  BY <1>1, <1>2, <1>3, <1>4

\* A page that is read as what it is, by a process that works, is the chip's page
\* or has the chip's answer for its status.
LEMMA ReadTrue ==
    ASSUME PointerInv, dumper.pc \in Serving, Working, NEW old, IsPage(old), NEW ce, NEW page
    PROVE  IF Status(ce, page) = "good"
           THEN /\ ReadBy(old, ce, page).ret1 = "good" /\ ReadBy(old, ce, page).data = <<ce, page>>
                /\ ~IsBoot(page) => ReadBy(old, ce, page).spare = <<ce, page>>
           ELSE ReadBy(old, ce, page).ret1 = Status(ce, page)
<1>1. IsBoot(page) \in BOOLEAN
  BY DEF IsBoot
<1>2. ~CallFails(IsBoot(page), ~IsBoot(page))
  <2>1. kernel.version = 4 \/ (kernel.pointer = "replaced" /\ dumper.withAddress)
    BY DEF PointerInv, Hooked, Working
  <2> QED
    BY <1>1, <2>1 DEF CallFails
<1>3. ReadAs(ce, page, IsBoot(page)) = Status(ce, page)
  BY DEF ReadAs
<1>4. CASE Status(ce, page) = "good"
  <2>1. ReadBy(old, ce, page) =
           [data |-> <<ce, page>>, spare |-> IF ~IsBoot(page) THEN <<ce, page>> ELSE old.spare, ret1 |-> "good"]
    BY <1>2, <1>3, <1>4 DEF ReadBy, ReadPage
  <2> QED
    BY <1>4, <2>1
<1>5. CASE Status(ce, page) = "bad"
  <2>1. ReadBy(old, ce, page) = [old EXCEPT !.data = Garbage, !.ret1 = "bad"]
    BY <1>2, <1>3, <1>5 DEF ReadBy, ReadPage
  <2> QED
    BY <1>5, <2>1 DEF IsPage, PageFields
<1>6. CASE Status(ce, page) \notin {"good", "bad"}
  <2>1. ReadBy(old, ce, page) = [old EXCEPT !.ret1 = Status(ce, page)]
    BY <1>2, <1>3, <1>6 DEF ReadBy, ReadPage
  <2> QED
    BY <1>6, <2>1 DEF IsPage, PageFields
<1> QED
  BY <1>4, <1>5, <1>6

\* What is sent for it.
LEMMA EntryTrue ==
    ASSUME PointerInv, dumper.pc \in Serving, Working, NEW old, IsPage(old), NEW ce, NEW page
    PROVE  EntryOK(Cleared(ReadBy(old, ce, page)), ce, page)
<1> DEFINE r == ReadBy(old, ce, page)
<1>1. IsPage(r)
  BY PageRecords DEF ReadBy
<1>2. Cleared(r).ret1 = r.ret1 /\ (r.ret1 = "good" => Cleared(r) = r)
  BY <1>1 DEF Cleared, IsPage, PageFields
<1> QED
  BY <1>2, ReadTrue DEF EntryOK

\* A sequence and one element more.
LEMMA Appended ==
    ASSUME NEW S, NEW q \in Seq(S), NEW e
    PROVE  /\ \E T : Append(q, e) \in Seq(T)
           /\ Len(q) \in Nat /\ Len(Append(q, e)) = Len(q) + 1
           /\ \A i \in 1 .. Len(q) : Append(q, e)[i] = q[i]
           /\ Append(q, e)[Len(q) + 1] = e
<1>1. q \in Seq(S \cup {e}) /\ e \in S \cup {e}
  OBVIOUS
<1>2. Append(q, e) \in Seq(S \cup {e})
  BY <1>1
<1> QED
  BY <1>1, <1>2

\* An image that is not written, or that is begun again.
LEMMA ImageStays ==
    ASSUME Tells, BanksOK, ImageOK, Fixed, image' = image \/ image' = <<>>
    PROVE  ImageOK'
<1>1. /\ Works' <=> Works
      /\ Guessed' <=> Guessed
      /\ Pages' = Pages
      /\ \A page : Unbanked(page)' = Unbanked(page)
      /\ \A entry, ce, page : EntryOK(entry, ce, page)' <=> EntryOK(entry, ce, page)
  BY FixedTerms
<1>2. CASE image' = image
  <2>1. Unrefused' => Unrefused
    BY DEF Unrefused, Fixed
  <2> QED
    BY <1>1, <1>2, <2>1 DEF ImageOK
<1>3. CASE image' = <<>>
  <2>1. \A ce \in CEs, page \in Pages : ~(Unbanked(page) * CECount + ce + 1 <= 0)
    <3>1. SUFFICES ASSUME NEW ce \in CEs, NEW page \in Pages
                   PROVE  ~(Unbanked(page) * CECount + ce + 1 <= 0)
      OBVIOUS
    <3>2. Unbanked(page) \in Nat
      BY PagePlace DEF BanksOK
    <3>3. CECount \in Nat /\ ce \in Nat
      BY NandAssumption DEF CEs
    <3>4. Unbanked(page) * CECount \in Nat
      BY <3>2, <3>3, Products
    <3> QED
      BY <3>3, <3>4
  <2>2. Len(image') = 0
    BY <1>3
  <2> QED
    BY <1>1, <2>1, <2>2 DEF ImageOK
<1> QED
  BY <1>2, <1>3

\* The addresses a process with this number of banks goes through.
LEMMA BankBounds ==
    ASSUME Tells, chip \in Chips, NEW n \in Nat \ {0}, BlocksPerBank(chip, n) >= 1, SamePages(n), NEW bank \in Nat
    PROVE  /\ PagesPerBlock * BlocksPerBank(chip, n) \in Nat \ {0}
           /\ StartPage(n, bank) \in Nat
           /\ StartPage(n, 0) = 0
           /\ EndPage(n, bank) = StartPage(n, bank) + PagesPerBlock * BlocksPerBank(chip, n)
<1>1. chip.blocks \in Nat /\ PagesPerBlock \in Nat \ {0} /\ BankAddressSpace(chip, chip.banks) \in Nat
  BY ChipBanks
<1>2. BlocksPerBank(chip, n) \in Nat \ {0}
  <2>1. \A x \in Nat, y \in Nat \ {0} : x \div y \in Nat
    OBVIOUS
  <2>2. BlocksPerBank(chip, n) \in Nat
    BY <1>1, <2>1 DEF BlocksPerBank
  <2> QED
    BY <2>2
<1>3. BankAddressSpace(chip, n) \in Nat
  BY <1>1, <1>2 DEF SamePages, BankAddressSpace
<1>4. StartPage(n, bank) \in Nat
  BY <1>1, <1>3, Products DEF StartPage
<1>5. StartPage(n, 0) = 0
  <2>1. \A x \in Nat, y \in Nat : x * 0 * y = 0
    OBVIOUS
  <2> QED
    BY <1>1, <1>3, <2>1 DEF StartPage
<1> QED
  BY <1>1, <1>2, <1>4, <1>5, Products DEF EndPage

\* The place of the page that is dumped.
LEMMA DumpPlace ==
    ASSUME Tells, PointerInv, BanksOK, DumpOK, Fixed, DumpPage PROVE PlaceOK'
<1> SUFFICES ASSUME Guessed' PROVE
        /\ dumper'.bank \in Nat /\ dumper'.ce \in CEs
        /\ \E rest \in 0 .. BankPages' - 1 :
              /\ dumper'.page = StartPage(dumper.banks, dumper.bank)' + rest
              /\ Len(image') = (dumper'.bank * BankPages' + rest) * CECount + dumper'.ce
  BY DEF PlaceOK
<1> DEFINE L == PagesPerBlock * BlocksPerBank(chip, dumper.banks)
           start(bank) == StartPage(dumper.banks, bank)
<1>1. /\ dumper.pc = "dump" /\ host.mode = "dump"
      /\ image' = Append(image, Cleared(ReadBy(buffer, dumper.ce, dumper.page)))
  BY DEF DumpPage, Dumped, ReadBy
<1>2. Guessed
  BY FixedTerms
<1>3. /\ chip \in Chips /\ dumper.banks \in Nat \ {0}
      /\ BlocksPerBank(chip, dumper.banks) >= 1 /\ SamePages(dumper.banks)
  BY <1>1, <1>2, NandAssumption DEF BanksOK, Connected
<1>4. /\ L \in Nat \ {0}
      /\ \A bank \in Nat : start(bank) \in Nat /\ EndPage(dumper.banks, bank) = start(bank) + L
  BY <1>3, BankBounds
<1>5. /\ dumper.bank \in Nat /\ dumper.ce \in CEs
      /\ \E rest \in 0 .. L - 1 :
            /\ dumper.page = start(dumper.bank) + rest
            /\ Len(image) = (dumper.bank * L + rest) * CECount + dumper.ce
  BY <1>1, <1>2 DEF DumpOK, PlaceOK, BankPages
<1>6. PICK rest \in 0 .. L - 1 :
         /\ dumper.page = start(dumper.bank) + rest
         /\ Len(image) = (dumper.bank * L + rest) * CECount + dumper.ce
  BY <1>5
<1>7. Len(image') = Len(image) + 1
  <2>1. PICK S : image \in Seq(S)
    BY DEF DumpOK
  <2> QED
    BY <1>1, <2>1, Appended
<1>8. ASSUME dumper'.banks = dumper.banks
      PROVE  /\ BankPages' = L
             /\ \A bank : bank = dumper'.bank => StartPage(dumper.banks, dumper.bank)' = start(bank)
  BY <1>8 DEF BankPages, StartPage, Fixed
<1> HIDE DEF L, start
<1>9. CECount \in Nat \ {0} /\ CEs = 0 .. CECount - 1 /\ dumper.bank * L \in Nat
  BY <1>4, <1>5, NandAssumption, Products DEF CEs
<1>10. (dumper.bank * L + rest) * CECount \in Nat /\ (dumper.bank + 1) * L = dumper.bank * L + L
  <2>1. dumper.bank * L + rest \in Nat
    BY <1>9
  <2>2. (dumper.bank * L + rest) * CECount \in Nat
    BY <1>9, <2>1, Products
  <2>3. (dumper.bank + 1) * L = dumper.bank * L + L
    BY <1>4, <1>5, Products
  <2> QED
    BY <2>2, <2>3
<1> DEFINE before == (dumper.bank * L + rest) * CECount
<1>13. before \in Nat /\ Len(image') = before + dumper.ce + 1 /\ dumper.ce \in Nat
  <2>1. dumper.ce \in Nat
    BY <1>5, <1>9
  <2> QED
    BY <1>6, <1>7, <1>10, <2>1
<1> HIDE DEF before
<1>11. CASE dumper.ce + 1 < CECount
  <2>1. dumper' = [dumper EXCEPT !.ce = @ + 1]
    BY <1>11 DEF DumpPage
  <2>2. /\ dumper'.bank = dumper.bank /\ dumper'.page = dumper.page /\ dumper'.banks = dumper.banks
        /\ dumper'.ce = dumper.ce + 1
    BY <2>1 DEF PointerInv, Fields, DumperFields
  <2>3. dumper'.ce \in CEs
    BY <1>5, <1>9, <1>11, <2>2
  <2>4. Len(image') = (dumper.bank * L + rest) * CECount + dumper'.ce
    <3>1. Len(image') = before + dumper'.ce
      BY <1>13, <2>2
    <3> QED
      BY <3>1 DEF before
  <2> QED
    BY <1>5, <1>6, <1>8, <2>2, <2>3, <2>4
<1>12. CASE ~(dumper.ce + 1 < CECount)
  <2>1. dumper' = Advanced(NextPage(dumper.bank, dumper.page))
    BY <1>12 DEF DumpPage
  <2>2. /\ dumper'.bank = NextPage(dumper.bank, dumper.page).bank
        /\ dumper'.page = NextPage(dumper.bank, dumper.page).page
        /\ dumper'.banks = dumper.banks /\ dumper'.ce = 0
    BY <2>1 DEF PointerInv, Fields, DumperFields, Advanced
  <2>3. dumper.ce + 1 = CECount /\ 0 \in CEs
    BY <1>5, <1>9, <1>12
  <2>4. Len(image') = (dumper.bank * L + rest + 1) * CECount
    <3>1. dumper.bank * L + rest \in Nat
      BY <1>9
    <3>2. (dumper.bank * L + rest + 1) * CECount = before + CECount
      BY <1>9, <3>1, Products DEF before
    <3>3. Len(image') = before + CECount
      BY <1>9, <1>13, <2>3
    <3> QED
      BY <3>2, <3>3
  <2>5. EndPage(dumper.banks, dumper.bank) = start(dumper.bank) + L /\ start(dumper.bank) \in Nat
    BY <1>4, <1>5
  <2>6. CASE rest + 1 < L
    <3>1. dumper.page + 1 < EndPage(dumper.banks, dumper.bank)
      BY <1>4, <1>6, <2>5, <2>6
    <3>2. dumper'.bank = dumper.bank /\ dumper'.page = dumper.page + 1
      BY <2>2, <3>1 DEF NextPage
    <3>3. rest + 1 \in 0 .. L - 1 /\ dumper'.page = start(dumper.bank) + (rest + 1)
      BY <1>4, <1>6, <2>5, <2>6, <3>2
    <3>4. Len(image') = (dumper.bank * L + (rest + 1)) * CECount + dumper'.ce
      <4>1. dumper.bank * L + rest + 1 = dumper.bank * L + (rest + 1)
        BY <1>9
      <4>2. (dumper.bank * L + (rest + 1)) * CECount \in Nat
        BY <1>9, <3>3, Products
      <4> QED
        BY <2>2, <2>4, <4>1, <4>2
    <3> QED
      BY <1>5, <1>8, <2>2, <2>3, <3>2, <3>3, <3>4
  <2>7. CASE ~(rest + 1 < L)
    <3>1. rest + 1 = L /\ ~(dumper.page + 1 < EndPage(dumper.banks, dumper.bank))
      BY <1>4, <1>6, <2>5, <2>7
    <3>2. dumper'.bank = dumper.bank + 1 /\ dumper'.page = start(dumper.bank + 1)
      BY <2>2, <3>1 DEF NextPage, start
    <3>3. dumper.bank + 1 \in Nat /\ start(dumper.bank + 1) \in Nat
      <4>1. dumper.bank + 1 \in Nat
        BY <1>5
      <4> QED
        BY <1>4, <4>1
    <3>4. Len(image') = ((dumper.bank + 1) * L + 0) * CECount + dumper'.ce
      <4>1. dumper.bank * L + rest + 1 = (dumper.bank + 1) * L + 0
        <5>1. dumper.bank * L + rest + 1 = dumper.bank * L + L /\ dumper.bank * L + L = dumper.bank * L + L + 0
          <6>1. \A x \in Nat : x + rest + 1 = x + L /\ x + L = x + L + 0
            BY <1>4, <3>1
          <6> QED
            BY <1>9, <6>1
        <5> QED
          BY <1>10, <5>1
      <4>2. ((dumper.bank + 1) * L + 0) * CECount \in Nat
        <5>1. dumper.bank * L + L + 0 \in Nat
          <6>1. \A x \in Nat : x + L + 0 \in Nat
            BY <1>4
          <6> QED
            BY <1>9, <6>1
        <5> QED
          BY <1>9, <1>10, <5>1, Products
      <4> QED
        BY <2>2, <2>4, <4>1, <4>2
    <3>5. 0 \in 0 .. L - 1 /\ dumper'.page = start(dumper.bank + 1) + 0
      BY <1>4, <3>2, <3>3
    <3> QED
      BY <1>8, <2>2, <2>3, <3>2, <3>3, <3>4, <3>5
  <2> QED
    BY <2>6, <2>7
<1> QED
  BY <1>11, <1>12

\* The page that is dumped is the one whose place in the image is next.
LEMMA DumpEntry ==
    ASSUME Tells, PointerInv, ScanOK, BanksOK, DumpOK, Fixed, DumpPage PROVE ImageOK'
<1> DEFINE p == Cleared(ReadBy(buffer, dumper.ce, dumper.page))
           Index(ce, page) == Unbanked(page) * CECount + ce + 1
<1>1. dumper.pc = "dump" /\ host.mode = "dump" /\ image' = Append(image, p)
  BY DEF DumpPage, Dumped, ReadBy
<1>2. /\ Works' <=> Works
      /\ Guessed' <=> Guessed
      /\ Pages' = Pages
      /\ \A page : Unbanked(page)' = Unbanked(page)
      /\ \A entry, ce, page : EntryOK(entry, ce, page)' <=> EntryOK(entry, ce, page)
  BY FixedTerms
<1>3. /\ Len(image) \in Nat /\ Len(image') = Len(image) + 1
      /\ \A i \in 1 .. Len(image) : image'[i] = image[i]
      /\ image'[Len(image) + 1] = p
  <2>1. PICK S : image \in Seq(S)
    BY DEF DumpOK
  <2> QED
    BY <1>1, <2>1, Appended
<1>4. SUFFICES ASSUME Works, Unrefused, Guessed, NEW ce \in CEs, NEW page \in Pages, Index(ce, page) <= Len(image')
               PROVE  EntryOK(image'[Index(ce, page)], ce, page)
  <2>1. Unrefused' => Unrefused
    BY DEF Unrefused, Fixed
  <2> QED
    BY <1>2, <2>1 DEF ImageOK
<1>5. CECount \in Nat \ {0} /\ ce \in 0 .. CECount - 1 /\ chip \in Chips
  BY NandAssumption DEF CEs, BanksOK
<1>6. Unbanked(page) \in Nat /\ Unbanked(page) * CECount \in Nat
  BY <1>5, PagePlace, Products
<1>7. CASE Index(ce, page) <= Len(image)
  <2>1. EntryOK(image[Index(ce, page)], ce, page)
    BY <1>4, <1>7 DEF DumpOK, ImageOK
  <2>2. Index(ce, page) \in 1 .. Len(image)
    BY <1>3, <1>5, <1>6, <1>7
  <2> QED
    BY <1>3, <2>1, <2>2
<1>8. CASE ~(Index(ce, page) <= Len(image))
  <2>1. Index(ce, page) = Len(image) + 1 /\ Unbanked(page) * CECount + ce = Len(image)
    BY <1>3, <1>4, <1>5, <1>6, <1>8
  <2> DEFINE L == PagesPerBlock * BlocksPerBank(chip, dumper.banks)
  <2>2. /\ dumper.banks \in Nat \ {0}
        /\ BlocksPerBank(chip, dumper.banks) >= 1 /\ SamePages(dumper.banks)
    BY <1>1, <1>4, NandAssumption DEF BanksOK, Connected
  <2>3. /\ dumper.bank \in Nat /\ dumper.ce \in 0 .. CECount - 1
        /\ \E rest \in 0 .. L - 1 :
              /\ dumper.page = StartPage(dumper.banks, dumper.bank) + rest
              /\ Len(image) = (dumper.bank * L + rest) * CECount + dumper.ce
    BY <1>1, <1>4 DEF DumpOK, PlaceOK, BankPages, CEs
  <2>4. PICK rest \in 0 .. L - 1 :
           /\ dumper.page = StartPage(dumper.banks, dumper.bank) + rest
           /\ Len(image) = (dumper.bank * L + rest) * CECount + dumper.ce
    BY <2>3
  <2>5. L \in Nat \ {0}
    BY <1>5, <2>2, <2>3, BankBounds
  <2> HIDE DEF L
  <2>6. dumper.bank * L + rest \in Nat
    <3>1. dumper.bank * L \in Nat
      BY <2>3, <2>5, Products
    <3> QED
      BY <2>5, <3>1
  <2>7. ce = dumper.ce /\ Unbanked(page) = dumper.bank * L + rest
    <3>1. Unbanked(page) * CECount + ce = (dumper.bank * L + rest) * CECount + dumper.ce
      BY <2>1, <2>4
    <3>2. \A m \in Nat, n \in Nat, a \in 0 .. CECount - 1, b \in 0 .. CECount - 1 :
             m * CECount + a = n * CECount + b => m = n /\ a = b
      BY <1>5, Digits
    <3>3. PICK place \in Nat : place = dumper.bank * L + rest
      BY <2>6
    <3>4. PICK other \in Nat : other = Unbanked(page)
      BY <1>6
    <3>5. PICK next \in 0 .. CECount - 1 : next = dumper.ce
      BY <2>3
    <3>6. other * CECount + ce = place * CECount + next
      BY <3>1, <3>3, <3>4, <3>5
    <3>7. other = place /\ ce = next
      BY <1>5, <3>2, <3>6
    <3> QED
      BY <3>3, <3>4, <3>5, <3>7
  <2>8. page = dumper.page
    BY <1>5, <2>2, <2>3, <2>4, <2>7, SamePlace DEF L
  <2>9. Working /\ dumper.pc \in Serving
    BY <1>1, <1>4 DEF ScanOK, Scanned, Finds, Unrefused, Working, Serving
  <2>10. EntryOK(p, ce, page)
    BY <2>7, <2>8, <2>9, EntryTrue DEF DumpOK, IsPage
  <2> QED
    BY <1>3, <2>1, <2>10
<1> QED
  BY <1>7, <1>8

\* Before the tool starts there is no image.
LEMMA InitDump == ASSUME Tells, Init PROVE DumpOK
<1>1. image = <<>> /\ buffer = FreshBuffer /\ dumper.pc = "dead" /\ chip \in Chips
  BY DEF Init, NotRunning
<1>2. \E S : image \in Seq(S)
  <2>1. image \in Seq({})
    BY <1>1
  <2> QED
    BY <2>1
<1>3. buffer = [f \in PageFields |-> buffer[f]]
  BY <1>1, PageRecords DEF IsPage
<1>4. ImageOK
  <2>1. SUFFICES ASSUME NEW ce \in CEs, NEW page \in Pages
                 PROVE  ~(Unbanked(page) * CECount + ce + 1 <= Len(image))
    BY DEF ImageOK
  <2>2. Unbanked(page) \in Nat /\ CECount \in Nat /\ ce \in Nat
    BY <1>1, PagePlace, NandAssumption DEF CEs
  <2>3. Unbanked(page) * CECount \in Nat /\ Len(image) = 0
    BY <1>1, <2>2, Products
  <2> QED
    BY <2>2, <2>3
<1> QED
  BY <1>1, <1>2, <1>3, <1>4 DEF DumpOK, PlaceOK

\* The first page of a dump, when a client is accepted.
LEMMA AcceptPlace ==
    ASSUME Tells, PointerInv, BanksOK, Fixed, Accept
    PROVE  PlaceOK'
<1>1. /\ dumper.pc = "listen" /\ host.mode \in {"dump", "proxy"} /\ host' = host
      /\ dumper' = [dumper EXCEPT !.pc = host.mode, !.bank = 0, !.page = 0, !.ce = 0]
      /\ image' = IF host.mode = "dump" THEN <<>> ELSE image
  BY DEF Accept
<1>2. /\ dumper'.pc = host.mode /\ dumper'.bank = 0 /\ dumper'.page = 0 /\ dumper'.ce = 0
      /\ dumper'.banks = dumper.banks
  BY <1>1 DEF PointerInv, Fields, DumperFields
<1>3. SUFFICES ASSUME host.mode = "dump", Guessed' PROVE
         /\ dumper'.bank \in Nat /\ dumper'.ce \in CEs
         /\ \E rest \in 0 .. BankPages' - 1 :
               /\ dumper'.page = StartPage(dumper.banks, dumper.bank)' + rest
               /\ Len(image') = (dumper'.bank * BankPages' + rest) * CECount + dumper'.ce
  BY <1>1 DEF PlaceOK
<1>4. /\ chip \in Chips /\ dumper.banks \in Nat \ {0}
      /\ BlocksPerBank(chip, dumper.banks) >= 1 /\ SamePages(dumper.banks)
  BY <1>1, <1>3, FixedTerms, NandAssumption DEF BanksOK, Connected
<1>5. BankPages \in Nat \ {0} /\ StartPage(dumper.banks, 0) = 0
  BY <1>4, BankBounds DEF BankPages
<1>6. BankPages' = BankPages /\ StartPage(dumper.banks, dumper.bank)' = 0
  <2>1. BankPages' = BankPages
    BY <1>2 DEF BankPages, Fixed
  <2>2. StartPage(dumper.banks, dumper.bank)' = StartPage(dumper.banks, 0)
    BY <1>2 DEF StartPage, Fixed
  <2> QED
    BY <1>5, <2>1, <2>2
<1>7. CECount \in Nat \ {0} /\ 0 \in CEs
  BY NandAssumption DEF CEs
<1>8. Len(image') = 0
  BY <1>1, <1>3
<1>9. (0 * BankPages + 0) * CECount + 0 = 0 /\ 0 \in 0 .. BankPages - 1
  BY <1>5, <1>7
<1> QED
  BY <1>2, <1>6, <1>7, <1>8, <1>9

\* Every step.
LEMMA NextDump ==
    ASSUME Tells, PointerInv, ScanOK, BanksOK, DumpOK, HostOK, Fixed, [Next]_vars PROVE DumpOK'
<1>1. ASSUME image' = image \/ image' = <<>>, IsPage(buffer'), PlaceOK' PROVE DumpOK'
  <2>1. \E S : image' \in Seq(S)
    <3>1. <<>> \in Seq({})
      OBVIOUS
    <3> QED
      BY <1>1, <3>1 DEF DumpOK
  <2>2. ImageOK'
    BY <1>1, ImageStays DEF DumpOK
  <2> QED
    BY <1>1, <2>1, <2>2 DEF DumpOK, IsPage
<1>2. IsPage(buffer)
  BY DEF DumpOK, IsPage
<1>3. CASE DumpPage
  <2>1. /\ image' = Append(image, Cleared(ReadBy(buffer, dumper.ce, dumper.page)))
        /\ buffer' = Cleared(ReadBy(buffer, dumper.ce, dumper.page))
    BY <1>3 DEF DumpPage, Dumped, ReadBy
  <2>2. \E S : image' \in Seq(S)
    BY <2>1, Appended DEF DumpOK
  <2>3. IsPage(buffer')
    BY <1>2, <2>1, PageRecords DEF ReadBy
  <2> QED
    BY <1>3, <2>2, <2>3, DumpPlace, DumpEntry DEF DumpOK, IsPage
<1>4. CASE Accept
  BY <1>1, <1>4, AcceptPlace, PageRecords DEF Accept
<1>5. CASE Abort
  <2>1. image' = image /\ host' = host /\ host.mode # "dump"
    BY <1>5 DEF Abort
  <2>2. IsPage(buffer')
    BY <1>2, <1>5, PageRecords DEF Abort, Dumped
  <2> QED
    BY <1>1, <2>1, <2>2 DEF PlaceOK
<1>6. CASE Proxy
  <2>1. image' = image /\ dumper' = dumper /\ dumper.pc = "proxy"
    BY <1>6 DEF Proxy
  <2>2. IsPage(buffer')
    BY <1>2, <1>6, PageRecords DEF Proxy
  <2> QED
    BY <1>1, <2>1, <2>2 DEF PlaceOK
<1>7. ASSUME image' = image, buffer' = buffer, dumper'.pc # "dump" \/ host'.mode # "dump" PROVE DumpOK'
  BY <1>1, <1>2, <1>7 DEF PlaceOK
<1>8. CASE Start \/ Scan \/ Hook \/ InstallHandler \/ CheckSpecialPages
  <2>1. image' = image /\ buffer' = buffer
    BY <1>8 DEF Start, Scan, Hook, InstallHandler, CheckSpecialPages
  <2>2. dumper'.pc # "dump"
    <3>1. CASE Start
      BY <3>1 DEF Start, NotRunning
    <3>2. CASE Scan
      <4>1. CASE Exit
        BY <4>1 DEF Exit, NotRunning
      <4>2. CASE ~Exit
        BY <3>2, <4>2 DEF Scan, PointerInv, Fields, DumperFields
      <4> QED
        BY <4>1, <4>2
    <3>3. CASE Hook
      BY <3>3 DEF Hook, PointerInv, Fields, DumperFields
    <3>4. CASE InstallHandler
      BY <3>4 DEF InstallHandler, PointerInv, Fields, DumperFields
    <3>5. CASE CheckSpecialPages
      <4>1. CASE Exit
        BY <4>1 DEF Exit, NotRunning
      <4>2. CASE ~Exit
        BY <3>5, <4>2 DEF CheckSpecialPages, PointerInv, Fields, DumperFields
      <4> QED
        BY <4>1, <4>2
    <3> QED
      BY <1>8, <3>1, <3>2, <3>3, <3>4, <3>5
  <2> QED
    BY <1>7, <2>1, <2>2
<1>9. CASE DumpEnd \/ ProxyEnd
  <2>1. image' = image /\ buffer' = buffer /\ dumper' = [dumper EXCEPT !.pc = "listen"]
    BY <1>9 DEF DumpEnd, ProxyEnd, Serve
  <2>2. dumper'.pc = "listen"
    BY <2>1 DEF PointerInv, Fields, DumperFields
  <2> QED
    BY <1>7, <2>1, <2>2
<1>10. CASE Interrupt \/ Kill \/ Denied
  BY <1>7, <1>10 DEF Interrupt, Kill, Ends, Denied, Exit, NotRunning
<1>11. CASE HostStep
  <2>1. image' = image /\ buffer' = buffer /\ dumper' = dumper
    BY <1>11 DEF HostStep, Connect, Request, Take, Leave
  <2>2. dumper.pc = "listen" \/ host'.mode # "dump"
    <3>1. ASSUME NEW mode, Connect(mode) PROVE dumper.pc = "listen"
      BY <3>1 DEF Connect
    <3>2. CASE Leave
      BY <3>2 DEF Leave, NoHost
    <3>3. CASE Take
      BY <3>3 DEF Take, HostOK, HostFields
    <3>4. ASSUME NEW ce, NEW page, Request(ce, page) PROVE host'.mode # "dump"
      BY <3>4 DEF Request, HostOK, HostFields
    <3> QED
      BY <1>11, <3>1, <3>2, <3>3, <3>4 DEF HostStep
  <2> QED
    BY <1>7, <2>1, <2>2
<1>12. CASE UNCHANGED vars
  <2>1. image' = image /\ buffer' = buffer /\ dumper' = dumper /\ host' = host
    BY <1>12 DEF vars
  <2>2. PlaceOK'
    <3>1. (Guessed' <=> Guessed) /\ BankPages' = BankPages
      BY <2>1, FixedTerms DEF BankPages, Fixed
    <3>2. StartPage(dumper.banks, dumper.bank)' = StartPage(dumper.banks, dumper.bank)
      BY <2>1 DEF StartPage, Fixed
    <3> QED
      BY <2>1, <3>1, <3>2 DEF DumpOK, PlaceOK
  <2> QED
    BY <1>1, <1>2, <2>1, <2>2
<1> QED
  BY <1>3, <1>4, <1>5, <1>6, <1>8, <1>9, <1>10, <1>11, <1>12 DEF Next, DumperStep, Denied

-----------------------------------------------------------------------------
(* Requests and replies of the proxy *)

\* A host that is not connected has no request.
LEMMA HostGone == ASSUME NEW n, host' = NoHost(n) PROVE HostOK'
<1>1. /\ host' = [f \in HostFields |-> host'[f]]
      /\ host'.mode = "closed" /\ host'.request = <<>> /\ host'.reply = NoReply
  BY DEF NoHost, HostFields
<1> QED
  BY <1>1 DEF HostOK, ReplyOK

\* A step of the dumper that does not talk to the host.
LEMMA HostWaits ==
    ASSUME HostOK, Fixed, host' = host,
           \/ host.mode = "closed"
           \/ dumper'.pc \in Connected /\ dumper'.withAddress = dumper.withAddress
    PROVE  HostOK'
<1>1. \A ce, page : Status(ce, page)' = Status(ce, page)
  BY FixedTerms
<1>2. Pages' = Pages
  BY FixedTerms
<1>3. ReplyOK'
  <2>1. CASE host.mode = "closed"
    BY <2>1 DEF HostOK, ReplyOK
  <2>2. CASE dumper'.withAddress = dumper.withAddress
    <3>1. (Working' => Working) /\ (Complete' <=> Complete) /\ RemoteRead' = RemoteRead
      BY <2>2 DEF Working, Complete, RemoteRead, Fixed
    <3>2. Status(host.request.ce, host.request.page)' = Status(host.request.ce, host.request.page)
      BY DEF Status, Fixed
    <3> QED
      BY <3>1, <3>2 DEF HostOK, ReplyOK
  <2> QED
    BY <2>1, <2>2
<1> QED
  BY <1>2, <1>3 DEF HostOK

\* The host connects, asks for a page and takes the reply, or is gone.
LEMMA HostSteps == ASSUME HostOK, Fixed, HostStep PROVE HostOK'
<1>1. dumper' = dumper /\ Pages' = Pages
  BY FixedTerms DEF HostStep, Connect, Request, Take, Leave
<1>2. ASSUME NEW mode, Connect(mode) PROVE HostOK'
  <2>1. dumper.pc = "listen" /\ host' = [NoHost(host.calls + 1) EXCEPT !.mode = mode]
    BY <1>2 DEF Connect
  <2>2. /\ host' = [f \in HostFields |-> host'[f]]
        /\ host'.mode = mode /\ host'.request = <<>> /\ host'.reply = NoReply
    BY <2>1 DEF NoHost, HostFields
  <2> QED
    BY <1>1, <2>1, <2>2 DEF HostOK, ReplyOK, Connected
<1>3. ASSUME NEW ce \in CEs, NEW page \in Pages, Request(ce, page) PROVE HostOK'
  <2> DEFINE boot == page < BootBlocks * PagesPerBlock
  <2>1. /\ host.mode = "proxy" /\ host.request = <<>>
        /\ host' = [host EXCEPT !.request = [ce |-> ce, page |-> page, spare |-> ~boot, boot |-> boot]]
    BY <1>3 DEF Request
  <2>2. /\ host' = [f \in HostFields |-> host'[f]]
        /\ host'.mode = "proxy" /\ host'.reply = host.reply
        /\ host'.request = [ce |-> ce, page |-> page, spare |-> ~boot, boot |-> boot]
    BY <2>1 DEF HostOK, HostFields
  <2>3. host'.reply = NoReply
    BY <2>1, <2>2 DEF HostOK
  <2>4. ReplyOK'
    BY <2>3 DEF ReplyOK, Complete
  <2>5. dumper'.pc \in Connected
    BY <1>1, <2>1 DEF HostOK
  <2>6. \E c \in CEs, p \in Pages' :
           host'.request = [ce |-> c, page |-> p, spare |-> ~(p < BootBlocks * PagesPerBlock),
                            boot |-> p < BootBlocks * PagesPerBlock]
    BY <1>1, <2>2
  <2> QED
    BY <2>2, <2>3, <2>4, <2>5, <2>6 DEF HostOK
<1>4. CASE Take
  <2>1. /\ host.mode = "proxy" /\ host' = [host EXCEPT !.request = <<>>, !.reply = NoReply]
    BY <1>4 DEF Take
  <2>2. /\ host' = [f \in HostFields |-> host'[f]]
        /\ host'.mode = host.mode /\ host'.request = <<>> /\ host'.reply = NoReply
    BY <2>1 DEF HostOK, HostFields
  <2> QED
    BY <1>1, <2>2 DEF HostOK, ReplyOK
<1>5. CASE Leave
  BY <1>5, HostGone DEF Leave
<1> QED
  BY <1>2, <1>3, <1>4, <1>5 DEF HostStep

\* The proxy: a reply that is complete is of a page that both sides took for the
\* same kind of page.
LEMMA ProxyHost ==
    ASSUME Tells, PointerInv, BanksOK, DumpOK, HostOK, Fixed, Proxy PROVE HostOK'
<1> DEFINE ce == host.request.ce
           page == host.request.page
           spare == host.request.spare /\ ~IsBoot(page)
           old == [buffer EXCEPT !.spare = Garbage]
           read == ReadPage(old, ce, page, IsBoot(page) \/ host.request.boot, spare)
<1>1. /\ dumper.pc = "proxy" /\ host.mode = "proxy" /\ host.request # <<>> /\ dumper' = dumper
      /\ host' = [host EXCEPT !.reply = [data |-> read.data, spare |-> read.spare,
                                         ret1 |-> read.ret1, size |-> spare]]
  BY DEF Proxy
<1>2. PICK c \in CEs, p \in Pages :
         host.request = [ce |-> c, page |-> p, spare |-> ~(p < BootBlocks * PagesPerBlock),
                         boot |-> p < BootBlocks * PagesPerBlock]
  BY <1>1 DEF HostOK
<1>3. /\ ce = c /\ page = p
      /\ host.request.spare = ~(p < BootBlocks * PagesPerBlock)
      /\ host.request.boot = (p < BootBlocks * PagesPerBlock)
  BY <1>2
<1>4. p < BootBlocks * PagesPerBlock => IsBoot(p)
  <2>1. p \in Nat
    BY PagePlace DEF BanksOK
  <2> QED
    BY <2>1, BootPages
<1>5. IsBoot(p) \in BOOLEAN /\ (p < BootBlocks * PagesPerBlock) \in BOOLEAN
  BY DEF IsBoot
<1>6. (IsBoot(page) \/ host.request.boot) = IsBoot(p) /\ spare = ~IsBoot(p)
  BY <1>3, <1>4, <1>5
<1>7. read = ReadBy(old, c, p)
  BY <1>3, <1>6 DEF ReadBy
<1>8. IsPage(old)
  BY PageRecords DEF DumpOK, IsPage
<1> HIDE DEF read, spare, old
<1>9. /\ host' = [f \in HostFields |-> host'[f]]
      /\ host'.mode = host.mode /\ host'.request = host.request
      /\ host'.reply = [data |-> read.data, spare |-> read.spare, ret1 |-> read.ret1, size |-> spare]
  BY <1>1 DEF HostOK, HostFields
<1>10. ReplyOK'
  <2>1. SUFFICES ASSUME Complete', Working'
                 PROVE  CASE Status(c, p) = "good" ->
                                /\ RemoteRead' = <<c, p>>
                                /\ host'.request.spare => host'.reply.spare = RemoteRead'
                          [] Status(c, p) = "blank" -> RemoteRead' = <<>>
                          [] OTHER -> TRUE
    <3>1. Status(host.request.ce, host.request.page)' = Status(c, p)
      <4>1. host'.request.ce = c /\ host'.request.page = p
        BY <1>3, <1>9
      <4>2. Status(host.request.ce, host.request.page)' = Status(host'.request.ce, host'.request.page)
        BY DEF Status, Fixed
      <4> QED
        BY <4>1, <4>2
    <3>2. <<host'.request.ce, host'.request.page>> = <<c, p>>
      BY <1>3, <1>9
    <3> QED
      BY <3>1, <3>2 DEF ReplyOK
  <2>2. Working
    BY <1>1, <2>1 DEF Working, Fixed
  <2>3. /\ host'.reply.data = read.data /\ host'.reply.spare = read.spare
        /\ host'.reply.ret1 = read.ret1 /\ host'.reply.size = spare
    BY <1>9
  <2>4. host'.request.spare => ~IsBoot(p)
    BY <1>6, <2>1, <2>3 DEF Complete
  <2>5. RemoteRead' = IF read.ret1 = "blank" THEN <<>> ELSE read.data
    BY <2>3 DEF RemoteRead
  <2>6. CASE Status(c, p) = "good"
    <3>1. /\ read.ret1 = "good" /\ read.data = <<c, p>>
          /\ ~IsBoot(p) => read.spare = <<c, p>>
      BY <1>1, <1>7, <1>8, <2>2, <2>6, ReadTrue DEF Serving
    <3>2. RemoteRead' = <<c, p>>
      BY <2>5, <3>1
    <3>3. host'.request.spare => host'.reply.spare = RemoteRead'
      BY <2>3, <2>4, <3>1, <3>2
    <3> QED
      BY <2>6, <3>2, <3>3
  <2>7. CASE Status(c, p) = "blank"
    <3>1. read.ret1 = "blank"
      BY <1>1, <1>7, <1>8, <2>2, <2>7, ReadTrue DEF Serving
    <3>2. RemoteRead' = <<>>
      BY <2>5, <3>1
    <3> QED
      BY <2>7, <3>2
  <2>8. CASE Status(c, p) \notin {"good", "blank"}
    BY <2>8
  <2> QED
    BY <2>6, <2>7, <2>8
<1>11. \E x \in CEs, y \in Pages' :
          host'.request = [ce |-> x, page |-> y, spare |-> ~(y < BootBlocks * PagesPerBlock),
                           boot |-> y < BootBlocks * PagesPerBlock]
  BY <1>2, <1>9, FixedTerms
<1> QED
  BY <1>1, <1>9, <1>10, <1>11 DEF HostOK, Connected

\* Every step.
LEMMA NextHost ==
    ASSUME Tells, PointerInv, BanksOK, DumpOK, HostOK, Fixed, [Next]_vars PROVE HostOK'
<1>1. CASE HostStep
  BY <1>1, HostSteps
<1>2. CASE Proxy
  BY <1>2, ProxyHost
<1>3. CASE DumpEnd \/ Interrupt \/ Kill \/ Denied
  BY <1>3, HostGone DEF DumpEnd, Serve, Interrupt, Kill, Ends, Denied
<1>4. CASE Start \/ Scan \/ Hook \/ InstallHandler \/ CheckSpecialPages
  <2>1. host' = host /\ dumper.pc \notin Connected
    BY <1>4 DEF Start, Scan, Hook, InstallHandler, CheckSpecialPages, Connected
  <2> QED
    BY <2>1, HostWaits DEF HostOK
<1>5. CASE Accept \/ DumpPage \/ Abort \/ ProxyEnd
  <2>1. /\ host' = host
        /\ \/ /\ dumper' = [dumper EXCEPT !.pc = host.mode, !.bank = 0, !.page = 0, !.ce = 0]
              /\ host.mode \in {"dump", "proxy"}
           \/ dumper.pc = "dump" /\ dumper' = [dumper EXCEPT !.ce = @ + 1]
           \/ dumper.pc = "dump" /\ \E at : dumper' = Advanced(at)
           \/ dumper' = [dumper EXCEPT !.pc = "listen"]
    BY <1>5 DEF Accept, DumpPage, Abort, ProxyEnd
  <2>2. dumper'.pc \in Connected /\ dumper'.withAddress = dumper.withAddress
    BY <2>1 DEF PointerInv, Fields, DumperFields, Advanced, Connected
  <2> QED
    BY <2>1, <2>2, HostWaits
<1>6. CASE UNCHANGED vars
  <2>1. host' = host /\ dumper' = dumper
    BY <1>6 DEF vars
  <2> QED
    BY <2>1, HostWaits DEF HostOK
<1> QED
  BY <1>1, <1>2, <1>3, <1>4, <1>5, <1>6 DEF Next, DumperStep, Denied

-----------------------------------------------------------------------------
\* The whole invariant: at every step of every behaviour what has been dumped and
\* what has been replied is what the chip holds.
THEOREM ReadsAlways == ASSUME Tells PROVE Spec => []ReadsInv
<1>1. Init => ReadsInv
  <2>1. Init => HostOK
    <3>1. ASSUME Init PROVE HostOK
      <4>1. host = NoHost(0)
        BY <3>1 DEF Init
      <4>2. /\ host = [f \in HostFields |-> host[f]]
            /\ host.mode = "closed" /\ host.request = <<>> /\ host.reply = NoReply
        BY <4>1 DEF NoHost, HostFields
      <4> QED
        BY <4>2 DEF HostOK, ReplyOK
    <3> QED
      BY <3>1
  <2> QED
    BY <2>1, InitPointer, InitScan, InitBanks, InitDump DEF ReadsInv
<1>2. ReadsInv /\ [Next]_vars => ReadsInv'
  BY NextFixed, NextPointer, NextScan, NextBanks, NextDump, NextHost DEF ReadsInv
<1> QED
  BY <1>1, <1>2, PTL DEF Spec

\* image.py, remote.py: for every chip whose special pages tell its banks, every
\* status of every page, every kernel and every client that may leave at any
\* moment, what the host reads is what the chip holds.
THEOREM HostReadsNandAlways == ASSUME Tells PROVE Spec => []HostReadsNand
<1>1. ASSUME ReadsInv, Accepted, Working, Guessed, dumper.pc = "listen", NEW ce \in CEs, NEW page \in Pages
      PROVE  IF Status(ce, page) = "good"
             THEN /\ ImageRead(ce, page).data = <<ce, page>>
                  /\ ~IsBoot(page) => ImageRead(ce, page).spare = <<ce, page>>
             ELSE ImageRead(ce, page).data = <<>>
  <2> DEFINE entry == image[Unbanked(page) * CECount + ce + 1]
  <2>1. chip \in Chips /\ CECount \in Nat \ {0} /\ ce \in 0 .. CECount - 1
    BY <1>1, NandAssumption DEF ReadsInv, BanksOK, CEs
  <2>2. Unbanked(page) \in Nat /\ Unbanked(page) + 1 <= chip.blocks * PagesPerBlock
    BY <2>1, PagePlace
  <2>3. chip.blocks \in Nat /\ PagesPerBlock \in Nat /\ chip.blocks * PagesPerBlock \in Nat
    BY <2>1, ChipBanks, Products
  <2>4. Unbanked(page) * CECount + ce + 1 <= Len(image)
    <3>1. (Unbanked(page) + 1) * CECount <= (chip.blocks * PagesPerBlock) * CECount
      BY <2>1, <2>2, <2>3, Products
    <3>2. (Unbanked(page) + 1) * CECount = Unbanked(page) * CECount + CECount
      BY <2>1, <2>2, Products
    <3>3. TotalPages = (chip.blocks * PagesPerBlock) * CECount
      <4>1. \A x \in Nat, y \in Nat : x * y = y * x
        OBVIOUS
      <4> QED
        BY <2>3, <4>1 DEF TotalPages
    <3>4. /\ Unbanked(page) * CECount \in Nat /\ (chip.blocks * PagesPerBlock) * CECount \in Nat
          /\ Len(image) \in Nat
      <4>1. PICK S : image \in Seq(S)
        BY <1>1 DEF ReadsInv, DumpOK
      <4>2. Len(image) \in Nat
        BY <4>1
      <4> QED
        BY <2>1, <2>2, <2>3, <4>2, Products
    <3>5. Len(image) >= (chip.blocks * PagesPerBlock) * CECount
      BY <1>1, <3>3 DEF Accepted
    <3> QED
      BY <2>1, <3>1, <3>2, <3>4, <3>5
  <2>5. Works /\ Unrefused
    BY <1>1 DEF ReadsInv, ScanOK, Scanned, Working, Finds, Unrefused
  <2>6. EntryOK(entry, ce, page)
    BY <1>1, <2>4, <2>5 DEF ReadsInv, DumpOK, ImageOK
  <2>7. ImageRead(ce, page) = IF entry.ret1 # "good" THEN [data |-> <<>>, spare |-> <<>>]
                              ELSE [data |-> entry.data, spare |-> entry.spare]
    BY DEF ImageRead
  <2> HIDE DEF entry
  <2>8. CASE Status(ce, page) = "good"
    <3>1. /\ entry.ret1 = "good" /\ entry.data = <<ce, page>>
          /\ ~IsBoot(page) => entry.spare = <<ce, page>>
      BY <2>6, <2>8 DEF EntryOK
    <3>2. ImageRead(ce, page) = [data |-> entry.data, spare |-> entry.spare]
      BY <2>7, <3>1
    <3>3. ImageRead(ce, page).data = entry.data /\ ImageRead(ce, page).spare = entry.spare
      BY <3>2
    <3> QED
      BY <2>8, <3>1, <3>3
  <2>9. CASE Status(ce, page) # "good"
    <3>1. ImageRead(ce, page) = [data |-> <<>>, spare |-> <<>>]
      BY <2>6, <2>7, <2>9 DEF EntryOK
    <3>2. ImageRead(ce, page).data = <<>>
      BY <3>1
    <3> QED
      BY <2>9, <3>2
  <2> QED
    BY <2>8, <2>9
<1>2. ReadsInv => HostReadsNand
  <2>1. SUFFICES ASSUME ReadsInv PROVE HostReadsNand
    OBVIOUS
  <2>2. ReplyOK
    BY <2>1 DEF ReadsInv, HostOK
  <2> QED
    BY <1>1, <2>1, <2>2 DEF HostReadsNand, ReplyOK
<1> QED
  BY ReadsAlways, <1>2, PTL
=============================================================================
