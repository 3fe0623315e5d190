------------------------------- MODULE Img3fs -------------------------------
(***************************************************************************)
(* img3fs/img3fs.c: the elements of an IMG3 file as files of a FUSE        *)
(* volume. An encrypted DATA element is decrypted into memory when the     *)
(* volume is mounted and, if it was written to, encrypted back over the    *)
(* mapped file when it is unmounted. All other elements are read and       *)
(* written where they are, through one descriptor that all threads of FUSE *)
(* move. Lengths are counted in cipher blocks.                             *)
(***************************************************************************)
EXTENDS Integers, FiniteSetsExt, SequencesExt

CONSTANTS
    Threads,      \* FUSE's threads
    Values,       \* what is written; blocks hold 0 at first
    DataBlocks,   \* how many whole cipher blocks DATA has
    Rest,         \* 1 if DATA ends in a part of a block, else 0
    Padding,      \* how many cipher blocks its total_length goes beyond the whole ones
    RawBlocks,    \* the length of the other elements
    MaxElements,  \* MAX_IMG3_ELEMENTS
    MaxMounts,    \* bound: how often the image is mounted
    MaxCalls      \* bound: how many reads and writes there are

ASSUME Img3Assumption ==
    /\ Values \subseteq Nat
    /\ DataBlocks \in Nat \ {0} /\ RawBlocks \in Nat \ {0} /\ Rest \in {0, 1}
    /\ Padding \in Nat
    /\ MaxElements \in Nat /\ MaxMounts \in Nat /\ MaxCalls \in Nat

VARIABLES
    file,      \* the blocks of the image, which is mapped and open at the same time
    pos,       \* the offset of the descriptor
    state,     \* "unmounted", "mounted" or "closing"
    elements,  \* img3->elements
    aes,       \* img3->aesType # 0
    decrypted, \* img3->decrypted_data, and what is covered of the memory behind it
    modified,  \* img3->data_was_modified
    left,      \* img3_destroy: the blocks not yet written back
    thread,    \* the call each thread works on
    mounts, calls,
    kept, old, \* history: DATA when it was last unmounted, and in the file in front of that
    died,      \* history: the last process died while it wrote back
    spoilt     \* history: a write went to a place its thread did not ask for

vars == <<file, pos, state, elements, aes, decrypted, modified, left, thread, mounts, calls, kept, old, died, spoilt>>

Junk == -1   \* the bytes of a block that was not decrypted, or not with its predecessor

-----------------------------------------------------------------------------
(* The file: a header, then elements, each a tag with its length and data. *)
(* A block of ciphertext stands for the plaintext up to it: it comes back  *)
(* only behind the block it was chained to.                                *)
TagOf(magic, n, m) == [type |-> "tag", magic |-> magic, len |-> n, span |-> m, of |-> <<>>]
Plain(v) == [type |-> "plain", magic |-> "", len |-> v, span |-> 0, of |-> <<>>]
Cipher(s) == [type |-> "cipher", magic |-> "", len |-> 0, span |-> 0, of |-> s]

\* From the tag of DATA to the next one, and how many whole blocks that is.
Span == DataBlocks + (IF Padding = 0 THEN Rest ELSE Padding)
Covered == DataBlocks + Padding

Raw(magic) == <<TagOf(magic, RawBlocks, RawBlocks)>> \o [i \in 1 .. RawBlocks |-> Plain(0)]
Kbag == <<TagOf("KBAG", 1, 1), Plain(1)>>   \* cryptState 1: DATA is encrypted
Data(encrypted) ==
    <<TagOf("DATA", DataBlocks + Rest, Span)>>
    \o [i \in 1 .. Span |->
          IF encrypted /\ i <= Covered THEN Cipher([j \in 1 .. i |-> 0]) ELSE Plain(0)]

\* The loop of img3_init: from tag to tag by their total_length, which counts the
\* tag, until one makes no sense or the table of elements is full.
NextElement(image, acc) ==
    IF \/ acc.at > Len(image)
       \/ image[acc.at].type # "tag"
       \/ image[acc.at].len > image[acc.at].span + 1
       \/ acc.at + image[acc.at].span > Len(image)
    THEN [acc EXCEPT !.at = Len(image) + 1]
    ELSE [at |-> acc.at + 1 + image[acc.at].span,
          list |-> Append(acc.list, [magic |-> image[acc.at].magic, at |-> acc.at + 1,
                                     len |-> image[acc.at].len, span |-> image[acc.at].span])]
Parse(image) ==
    LET parsed[n \in 0 .. MaxElements] ==
            IF n = 0 THEN [at |-> 1, list |-> <<>>] ELSE NextElement(image, parsed[n - 1])
    IN  parsed[MaxElements].list

\* The last element of a name is kept; any KBAG says that DATA is encrypted.
Places(list, magic) == {i \in DOMAIN list : list[i].magic = magic}
Has(list, magic) == Places(list, magic) # {}
Element(list, magic) == list[Max(Places(list, magic))]
AesType(image, list) == \E i \in Places(list, "KBAG") : image[list[i].at] = Plain(1)

\* EVP_DecryptUpdate of one block: it needs the block in front of it.
DecryptedBlock(image, at, k) ==
    LET c == image[at + k - 1] IN
    IF c.type = "cipher" /\ Len(c.of) = k /\ (k > 1 => image[at + k - 2] = Cipher(Front(c.of)))
    THEN Last(c.of)
    ELSE Junk

\* The buffer has data_length bytes; the whole blocks of total_length are decrypted
\* into it and, if they are more, over the memory behind it. What is left over behind
\* the last whole block keeps what malloc() returned.
DecryptedData(image, e) ==
    [k \in 1 .. e.span |-> IF k <= Covered THEN DecryptedBlock(image, e.at, k) ELSE Junk]

\* EVP_EncryptUpdate: each block is chained to the one in front of it.
EncryptedAlone(k) == Cipher(<<decrypted[k]>>)
Encrypted(k) == Cipher(SubSeq(decrypted, 1, k))

-----------------------------------------------------------------------------
Idle == [pc |-> "idle", op |-> "", e |-> 0, off |-> 0, end |-> 0, val |-> 0, overlapped |-> FALSE]

Init ==
    /\ \E encrypted \in BOOLEAN :
          file = Raw("TYPE") \o (IF encrypted THEN Kbag ELSE <<>>) \o Data(encrypted) \o Raw("SHSH")
    /\ state = "unmounted" /\ pos = 1
    /\ elements = <<>> /\ aes = FALSE /\ decrypted = <<>> /\ modified = FALSE /\ left = 0
    /\ thread = [t \in Threads |-> Idle]
    /\ mounts = 0 /\ calls = 0
    /\ kept = <<>> /\ old = <<>> /\ died = FALSE /\ spoilt = FALSE

\* img3_init; the keys are those of the image.
Mount ==
    /\ state = "unmounted" /\ mounts < MaxMounts
    /\ mounts' = mounts + 1
    /\ elements' = Parse(file)
    /\ aes' = AesType(file, elements')
    /\ decrypted' = IF aes' /\ Has(elements', "DATA")
                    THEN DecryptedData(file, Element(elements', "DATA"))
                    ELSE <<>>
    /\ modified' = FALSE
    /\ pos' = 1
    /\ state' = "mounted"
    /\ UNCHANGED <<file, left, thread, calls, kept, old, died, spoilt>>

InMemory(e) == aes /\ elements[e].magic = "DATA"

\* read and write, cut to the length of the element.
Call(t, op, e, off, n, v) ==
    /\ state = "mounted" /\ thread[t].pc = "idle" /\ calls < MaxCalls
    /\ calls' = calls + 1
    /\ off < elements[e].len
    /\ LET end == IF off + n > elements[e].len THEN elements[e].len ELSE off + n
       IN  thread' = [thread EXCEPT ![t] =
               [pc |-> IF InMemory(e) THEN "copy" ELSE "seek", op |-> op, e |-> e,
                off |-> off, end |-> end, val |-> v, overlapped |-> FALSE]]
    /\ UNCHANGED <<file, pos, state, elements, aes, decrypted, modified, left, mounts, kept, old, died, spoilt>>

ModifiedUnset(op) == modified
ModifiedAfter(op) == modified \/ op = "write"

\* memcpy from or to the decrypted data, which other threads copy at the same time.
Copy(t) ==
    /\ thread[t].pc = "copy"
    /\ modified' = ModifiedAfter(thread[t].op)
    /\ decrypted' = IF thread[t].op = "write"
                    THEN [decrypted EXCEPT ![thread[t].off + 1] = thread[t].val]
                    ELSE decrypted
    /\ thread' = [thread EXCEPT ![t] =
           IF thread[t].off + 1 = thread[t].end THEN Idle ELSE [thread[t] EXCEPT !.off = @ + 1]]
    /\ UNCHANGED <<file, pos, state, elements, aes, left, mounts, calls, kept, old, died, spoilt>>

\* Moving the offset of the descriptor is felt by every thread between its
\* lseek and its read or write.
Overlap(t, new) ==
    thread' = [u \in Threads |->
        IF u = t THEN new
        ELSE IF thread[u].pc = "transfer" THEN [thread[u] EXCEPT !.overlapped = TRUE] ELSE thread[u]]

SeekElement(e, off) == elements[e].at
SeekOffset(e, off) == elements[e].at + off

Seek(t) ==
    /\ thread[t].pc = "seek"
    /\ pos' = SeekOffset(thread[t].e, thread[t].off)
    /\ Overlap(t, [thread[t] EXCEPT !.pc = "transfer"])
    /\ UNCHANGED <<file, state, elements, aes, decrypted, modified, left, mounts, calls, kept, old, died, spoilt>>

Transfer(t) ==
    /\ thread[t].pc = "transfer"
    /\ LET n == thread[t].end - thread[t].off
           size == IF Len(file) < pos + n - 1 THEN pos + n - 1 ELSE Len(file)
       IN  /\ pos' = IF thread[t].op = "write" THEN pos + n
                     ELSE IF pos + n > Len(file) + 1 THEN Len(file) + 1 ELSE pos + n
           /\ IF thread[t].op = "write"
              THEN /\ file' = [i \in 1 .. size |->
                                  IF pos <= i /\ i < pos + n THEN Plain(thread[t].val) ELSE file[i]]
                   /\ spoilt' = (spoilt \/ thread[t].overlapped)
              ELSE UNCHANGED <<file, spoilt>>
    /\ Overlap(t, Idle)
    /\ UNCHANGED <<state, elements, aes, decrypted, modified, left, mounts, calls, kept, old, died>>

\* The memory behind the buffer belongs to others, who write there.
Trample ==
    /\ state = "mounted"
    /\ \E k \in DOMAIN decrypted :
          /\ k > DataBlocks + Rest
          /\ decrypted' = [decrypted EXCEPT ![k] = Junk]
    /\ UNCHANGED <<file, pos, state, elements, aes, modified, left, thread, mounts, calls, kept, old, died, spoilt>>

\* FUSE calls img3_destroy when the last call has returned.
Unmount ==
    /\ state = "mounted"
    /\ \A t \in Threads : thread[t].pc = "idle"
    /\ kept' = decrypted
    /\ old' = IF decrypted = <<>> THEN <<>> ELSE DecryptedData(file, Element(elements, "DATA"))
    /\ IF aes /\ decrypted # <<>> /\ modified
       THEN state' = "closing" /\ left' = Covered /\ died' = TRUE
       ELSE state' = "unmounted" /\ left' = 0 /\ died' = FALSE
    /\ UNCHANGED <<file, pos, elements, aes, decrypted, modified, thread, mounts, calls, spoilt>>

\* A block goes to the mapped file: the last one ends the process.
WriteBack ==
    /\ state = "closing"
    /\ LET k == Covered - left + 1
       IN  file' = [file EXCEPT ![Element(elements, "DATA").at + k - 1] = Encrypted(k)]
    /\ left' = left - 1
    /\ IF left = 1 THEN state' = "unmounted" /\ died' = FALSE ELSE UNCHANGED <<state, died>>
    /\ UNCHANGED <<pos, elements, aes, decrypted, modified, thread, mounts, calls, kept, old, spoilt>>

\* The process dies: the mapped file keeps the blocks that were written.
Die ==
    /\ state = "mounted" \/ state = "closing"
    /\ IF state = "mounted"
       THEN /\ kept' = IF decrypted = <<>> THEN <<>> ELSE DecryptedData(file, Element(elements, "DATA"))
            /\ old' = kept' /\ died' = FALSE
       ELSE UNCHANGED <<kept, old, died>>
    /\ state' = "unmounted" /\ left' = 0
    /\ thread' = [t \in Threads |-> Idle]
    /\ UNCHANGED <<file, pos, elements, aes, decrypted, modified, mounts, calls, spoilt>>

\* The KBAG is left alone: writing it makes another image of the file.
Calls ==
    \E t \in Threads, e \in DOMAIN elements, v \in Values, op \in {"read", "write"} :
        \E off \in 0 .. elements[e].len - 1 : \E n \in 1 .. elements[e].len - off :
            /\ elements[e].magic = "KBAG" => op = "read"
            /\ Call(t, op, e, off, n, v)

Next ==
    \/ Mount \/ Calls
    \/ \E t \in Threads : Copy(t) \/ Seek(t) \/ Transfer(t)
    \/ Trample
    \/ Unmount \/ WriteBack \/ Die

Spec == Init /\ [][Next]_vars

-----------------------------------------------------------------------------
Whole == 1 .. DataBlocks

\* What was in the encrypted DATA when the volume was unmounted is there when
\* it is mounted again: writes of any threads in any order, a second mount, a
\* death while it was mounted. Nothing a mount changes is lost by an unmount.
DataSurvives ==
    state = "mounted" /\ aes /\ ~modified /\ mounts > 1 /\ ~spoilt /\ ~died =>
        \A k \in Whole : decrypted[k] = kept[k]

\* A death while the blocks are written back costs no more than one block: in
\* front of it all are new, behind it all are as they were.
DeathCostsOneBlock ==
    died /\ ~spoilt =>
        LET now == DecryptedData(file, Element(elements, "DATA"))
        IN  \E k \in Whole : \A j \in Whole : (j < k => now[j] = kept[j]) /\ (j > k => now[j] = old[j])

\* A read or write of an element that no other one comes in between finds the
\* descriptor on the place it asked for. (One that does comes to read, and to
\* write, in another element or over a tag.)
OwnElement ==
    \A t \in Threads :
        thread[t].pc = "transfer" /\ ~thread[t].overlapped /\ ~spoilt =>
            \E tag \in DOMAIN file :
                /\ file[tag].type = "tag" /\ file[tag].magic = elements[thread[t].e].magic
                /\ pos = tag + 1 + thread[t].off
                /\ tag + thread[t].end <= tag + file[tag].len
=============================================================================
