# A verification project for sneak-misc

`src/` is a collection of programs. By far the largest part of it is
`dump-imessages/iphone-dataprotection`, the tools that dump an iPhone: a C
library that reads and writes HFS+ volumes, the EMF decrypter built on it, a
FUSE file system for IMG3 files, a USB multiplexer client, the RPC server that
runs on the ramdisk of the device, and Python readers for its flash memory,
keybags and backups. The rest are short scripts.

The project models the parts with state of their own whose mistakes destroy
data, most important first. The HFS+ library comes first: it rewrites volume images
in place, and everything above it trusts its bitmaps, trees and records.

## 1. Inventory

Paths: `I` = `src/dump-imessages/iphone-dataprotection`, `H` = `I/emf_decrypter/hfs`,
`P` = `I/python_scripts`, `R` = `I/ramdisk_tools`.

| component | state it keeps | operations | what makes it correct |
|---|---|---|---|
| block allocation (`H/rawfile.c`, `H/volume.c`) | bitmap, volume header, fork data, extent lists, overflow records | `allocate`, `writeExtents`, `readExtents`, `updateVolume` | no block in two forks, free count = clear bits, nothing leaks, what is read back is what was written |
| raw files (`H/rawfile.c`) | bytes on the image, sizes | `rawFileRead`, `rawFileWrite`, resizing | every fork is a string of bytes of its own |
| B-trees (`H/btree.c`) | nodes, header record, node map | `addToBTree`, `removeFromBTree`, `search`, `growBTree` | the tree is a map from keys to records, nodes are reachable once or free |
| catalog (`H/catalog.c`) | records of folders, files, threads; `nextCatalogID`, counts | lookup, `newFile`, `newFolder`, `makeSymlink`, `move`, `removeFile`, `chmodFile`, `chownFile` | every record has its thread, counts equal what they count, ids are never used twice, everything is reachable from the root |
| attributes (`H/xattr.c`) | records of the attributes tree | get, set, unset, list | names map to the last value set |
| compressed files (`H/hfscompress.c`) | cache, block table, decmpfs record | read, write, truncate, close | what is read is what was written, before and after close |
| folder operations, command line (`H/hfslib.c`, `H/hfs.c`) | none of their own, `grow_hfs` excepted | `add_hfs`, `removeAllInFolder`, `grow_hfs`, ... | as their parts; a grown volume has a bitmap that covers it |
| EMF decrypter (`I/emf_decrypter/emf`, `P/emf_decrypter.py`) | the image, the file being decrypted | `EMF_decrypt_folder`, `EMF_decrypt_file_blocks` | each block is decrypted once |
| img3fs (`I/img3fs/img3fs.c`) | one file descriptor, the clear text of DATA | read, write, encrypt at unmount | a read returns the bytes asked for; what is written comes back after a remount |
| usbmux client, relay (`I/usbmuxd-python-client`) | device list, pending reply, two buffers | `listen`, `process`, `connect`, relay `handle` | bytes arrive once, in order, all of them |
| plist RPC server (`R/restored_external.c`, `R/plist_server.c`, `R/remote_functions.c`, `P/util/ramdiskclient.py`) | boot stage, what is mounted, the client being served, streams cut anywhere | boot, accept, receive, dispatch, search, reply | one reply per request, to that request; every request is answered |
| NAND dumper (`R/ioflash`, `P/nand/remote.py`, `P/nand/image.py`) | a pointer in the kernel, the guessed number of banks, one page buffer | scan and hook, `check_special_pages`, `nand_dump`, `nand_proxy` | the host reads what the chip holds, the kernel is left as it was found, a client that leaves stops nobody |
| ramdisk device access (`R/Apple*.c`, ...) | none | calls of the kernel's user clients | thin wrappers |
| YAFTL reader and carver (`P/nand/yaftl.py`, `P/nand/carver.py`) | the logical-to-virtual table, a cached table on the host | open from a context, rebuild, read, carve | the newest copy of each page is read, older ones are carved |
| VSVFL, VFL, legacy FTL (`P/nand`) | tables the device left | address arithmetic | -- |
| Python readers of HFS+, keybags, backups, IMG3 | caches | read | data transformations |
| everything else | -- | scripts that fetch, parse and print | -- |

`PROJECT.json` lists them all with their sources and status.

How they interact. The HFS library is one thread: a caller holds a `Volume` with
its `RawFile`s and `BTree`s. Catalog operations call the B-tree; the B-tree is
stored in a raw file and grows through `allocate`; `allocate` writes overflow
records into the extents B-tree, the volume header, and the catalog record of
its fork. No layer has a transaction: each write reaches the image when it is
made. The EMF decrypter walks the catalog and rewrites the blocks of each file
under the library. img3fs is called from several FUSE threads. The relay and the
mux client exchange packets with a daemon; the RPC server serves its clients
one at a time.

What is hard in this code: long sequences of legal calls (splits, merges, cuts and
regrowth), state read before a change and used after it, calls that fail halfway
and callers that go on, deaths between two writes, and, outside the library,
concurrent reads and half-closed connections. `PROJECT.json` lists each hazard
at its line with the properties that would catch it.

## 2. Plan

| order | modules | abstract specification | status |
|---|---|---|---|
| 1 | `BlockAlloc`, `RawFileProofs`, `Induction` | -- (inductive invariants) | done, proved, deaths included |
| 2 | `RawFile` (extends `BlockAlloc`), `RawFileProofs` | `FileStore` | done, refinement proved, liveness excepted |
| 3 | `BTree` | `Dictionary` | done, map nodes excepted |
| 4 | `Catalog`, `Commands` (extends it), `CatalogProofs` | `FolderTree` | done, proved, what a command leaves excepted |
| 5 | `Compress`, with the attribute of a compressed file, `CompressProofs` | a string (`want`) | done, proved, liveness excepted |
| 6 | `Emf`, `EmfProofs` | -- | done, proved |
| 7 | `Img3fs` (two threads), `Img3fsProofs`, `Ramdisk` (server and clients), `RamdiskProofs` | -- | done, proved, liveness excepted |
| 8 | `Yaftl` (reader beside the device), `Nand` (dumper beside the host), `NandProofs` | -- | done; `Nand` proved |
| open | map nodes of large trees, `grow_hfs`, the older FTLs, the relay and mux client, the IMG3 block device | -- | section 7 says why |

Every `CONSTANT` that bounds a model is marked `bound:` where it is declared.

## 3. The modules

### BlockAlloc

| variable | code |
|---|---|
| `used` | the allocation file: `isBlockUsed`, `setBlockUsed` |
| `freeBlocks`, `nextAllocation` | the fields of `volumeHeader` |
| `extents` | `rawFile->extents`, a list per fork |
| `fork`, `overflow` | `forkData` and the extents B-tree |
| `savedHeader`, `savedFork` | the header and catalog record on the image |
| `pc`, `file`, `need`, `left`, `cur`, `list`, `idx` | where `allocate()` stands and its locals |

`allocate()` is one action per loop iteration: `AllocateGrow`, `GrowSkip`, `GrowTake`,
`GrowDone` for its growing branch; `AllocateShrink`, `ShrinkWalk`, `ShrinkCut`, `ShrinkFree`,
`ShrinkNextExtent` for the shrinking one; then `WriteExtents`, `UpdateVolume`,
`UpdateCatalog`. `ExtentWalk` is the loop `readExtents` and `removeExtents` share. It looks
the next record up by the block the walk has reached *in the file*, while `writeExtents`
files it by the block the extent starts at *on the disk*: that difference is in the
model as it is in the code. `Restart` (only in `RestartSpec`) is the death of the process
at any step and the opening of the volume by the next one.

The overflow records and the catalog are sets and functions here; the trees
that hold them are `BTree`'s subject. Special files (catalog, extents, attributes)
call the same `allocate`, and are forks like any other here, except that
`updateCatalog` does not apply to them.

### RawFile, FileStore

`RawFile` extends `BlockAlloc` with the bytes of the image and the logical sizes. It
adds `rawFileRead` (`RawFileRead`), `rawFileWrite` (`WriteStart`, `WriteRefused`, `WriteLocate`,
`WriteChunk`: one extent's share per step) and the clearing of new blocks
(`TakeAndClear`, whose offset is computed modulo `WordRange`, 2^32 in the code). `FileStore` is
the promise to callers: a set of independent byte strings. `ForksAreStrings` is the
refinement: the content of a fork is what `rawFileRead` returns. `FileStore` allows what
the code does in the last block of a fork that is cut and grown again: the
cut bytes may come back, since only whole new blocks are cleared.

### BTree, Dictionary

| variable | code |
|---|---|
| `node` | the nodes in the tree's file, with links, height and records |
| `map`, `header` | the map record and header record of node 0 |
| `op`, `at`, `path`, `newNode`, `gone`, `callAgain` | the running `addToBTree`/`removeFromBTree` and the stack of `addRecord`/`removeRecord` activations |

One action per activation on its way down (`AddDescend`, `AddDescendLowest`, `AddToLeaf`,
`AddToFullLeaf`, `AddSplitFirst`, `RemoveDescend`, `RemoveFromLeaf`, ...) and one per activation on its
way back (`AddAscend`, `RemoveAscend`), then what the entry points do at the root (`AddFirstRecord`,
`IncreaseHeight`, `CallAgain`, `Return`). `Split` is `splitNode`, `GetNewNode` is `getNewNode` with
`growBTree`, `NodeRemoved` is `removeNode`. Records have lengths, not bytes: a node has
`NodeSpace`, and `Fits` is the code's comparison. `Search` is `search()`, with its three
outcomes. `TraverseConsistent`, `LinearConsistent` and `MapConsistent` state what the library's own
`debugBTree`/`traverseNode`/`linearCheck`/`mapCheck` look for. `Dictionary` is the promise: a map, and
calls with an effect that is complete when they return.

`pc = "wild"` is a read through a value that is not a node number; from there the code's
behaviour is undefined and the model stops. States in which a
node holds more than it has room for are `Astray` in the same sense.

### Catalog, FolderTree

| variable | code |
|---|---|
| `catalog` | the records of the catalog tree: items under `<<parent, name>>`, threads under `<<id, NoName>>` |
| `text` | the data forks of symbolic links |
| `header`, `savedHeader` | `nextCatalogID`, `fileCount`, `folderCount` in memory and on the image |
| `todo` | the writes the running call has still to make |
| `before`, `renamed`, `broken` | history: what the running call found; how many items each folder has seen renamed inside it; a call was made that nothing checks |

A call (`NewFolder`, `NewFile`, `OverwriteFile`, `MakeSymlink`, `RewriteSymlink`, `Move`, `RemoveFile`,
`SetPermissions`) looks its paths up and computes every record it will write, as the C code does with
its copies; then each primitive write is a step (`DoAdd`, `DoRemove`, `DoUpdate`, `DoText`,
`DoCount`, `DoSave`). `Walk` is `getRecordFromPath3` with `getLinkTarget`: the recursion into
a link's target becomes a rewriting of the words still to read, which reads the same
words in the same order. `RewriteSymlink` keeps the tail of a longer text as the code
does, since it does not truncate. The trees' records are a function here; `Dictionary`
is what `BTree` shows of the structure that holds them.

`FolderTree` is the promise to callers: items under one root, and calls that make, move or
remove one of them or do nothing.

What `catalog.c` does not check, its callers do not either: `cmd_mkdir` and `cmd_mv` (`hfs.c:74-96`) pass
on a name that is taken, `cmd_mv` moves a folder into itself, and `add_hfs` creates through a link that leads
to nothing under the link's own name. All of these are calls of the model and are followed, write by
write, to their end; what they leave (a record that keeps its place under a thread of another, a folder
that hangs from itself) has no meaning, so `broken` then says that such a call was made, no further call
is followed, and the properties about the records between calls end there. `Move` inside one folder is an
ordinary call: both parents are copies of one record, read before the move, and the second written back wins, so the
valence grows by one. `renamed` counts this and `ValenceExact` says that a valence is the items *and*
those renames: exact in a folder without renames, and never too small, so that `removeFile` never takes a folder
for empty that is not (but never removes one that has seen a rename: section 5).

### Commands

The commands of `hfslib.c` and `hfs.c` that make several calls of the catalog: `Rmall`
(`removeAllInFolder` and the removal of the folder), `Addall` (`addAllInFolder`) and `Untar`
(`hfs_untar`). `plan` holds what the running command has still to do, as the C code has it on its
stack: the entries of a folder it has listed, the rest of a host folder, the rest of
an archive. Each step looks its path up again in the catalog as it is then. `cmd` is history:
the tree when the command began, and what the command is to remove and make.

What the model shows of links, and the code does: a relative target is looked up from the
folder of the link, so a link can only lead below its own folder; `rmall` of a link empties the
folder it leads to and then removes the link. Where a command ends the process, the model
does: at an item that is not there or a folder that is not empty (`removeFile` panics, or its
`ASSERT` fails: `TakeRemove`), and at a link that leads to itself, whose lookup never ends (`TakeChmod`; a
path that is merely not found makes `chmodFile` return FALSE, which its callers ignore). What a command of
`hfs.c` is called with when a path ends in an empty word, or is the root alone, is not modelled.

### Compress

| variable | code |
|---|---|
| `attr`, `rsrc` | the attribute `com.apple.decmpfs` and the resource fork on the image |
| `handle` | `HFSPlusCompressed`: the cache with its bounds, the table of blocks, `dirty` |
| `job` | the loops `writeToFile` and `writeToHFSFile` over pieces of `Buffer` bytes |
| `req` | the running `compressedRead` |
| `overran` | the running close, or the last one, has written behind the end of its copy of the attribute |
| `before`, `want` | history: the file in front of the call, and what the call is to leave |

`Extract` and `Add` are the two commands; `ReadCached`, `ReadLoad` and `ReadDone` are the turns of
`compressedRead`; `CacheWholeFile` and `WritePiece` are `compressedWrite`; `closeHFSPlusCompressed` is
one step per write to the image (`StartBlocks`, `WriteBlock`, `WriteHead`, `WriteTable`,
`WriteEnd`, `RemoveAttribute`, `SetAttribute`), or `KeepInline`. zlib is external: compressing takes
one unit per run of equal characters, and uncompressing anything but a whole
compressed block gives `Garbage`, which is what the code leaves in its buffer when it does not
look at the result of `uncompress()`. `Die` may come between any two writes.

`KeepInline` copies the compressed data behind the head of the attribute that was read at opening, and
that memory is as long as the attribute was then (`Room`; `xattr.c:248`). When there is more data
the copy runs over what lies behind (`overran`). From then on the process may die at any step without
that counting as one of the `MaxDeaths`, and what is stored may be the data, or the data spoilt by whoever
else wrote there (`SpoiltAttribute`: it has its size, and uncompresses to nothing known). What the copy
itself does to other memory of the process is not followed.

### Img3fs

Two threads of FUSE read and write elements. An access to an encrypted DATA element is one
step on `decrypted` (`Copy`); every other access is `lseek` (`Seek`) and then `read` or `write`
(`Transfer`) on the one descriptor `pos`, and threads interleave between the two.
`Unmount` begins `img3_destroy`; `WriteBack` is one block of DATA on its way to the mapped
file. CBC is modelled by what matters: a block of ciphertext stands for all plaintext up
to it, and comes back only behind the block it was chained to. `spoilt` and `overlapped` are
history.

The clear text has a buffer of `data_length` bytes, but `total_length - 12` bytes, rounded down to blocks, are decrypted
into it and that many encrypted back (`img3fs.c:256`, `:278`, `:305`). `decrypted` is the buffer and, when the element is padded
(`Padding`), the memory behind it up to there (`Span`, `Covered`); `Trample` is anybody's write to
that memory while the volume is mounted. What the decryption does to other memory of the process is
not followed; that the process dies of it is `Die`.

### Ramdisk

`restored_external`'s boot (`WaitForPartition`, `Fsck`, `InitUsb`, `Spawn`) and the server behind it:
`Accept`, `RecvLength`, `RecvBody`, `Invalid`, `Dispatch`, `SearchStart`, `Search`, `Reboot`, `Bye`; and the
host's `RamdiskToolClient`: `Connect`, `SendReq`, `RecvMsgLength`, `RecvMsgBody`. A message is two units of
length and two of body. A stream hands out any prefix of what was sent, and a connection may be
closed with any part of it unread (`Break`) or reset (`Reset`). The client reads its length with one
`recv` and takes what it gets (`short`); the server's loop over a body does not end when `recv`
returns 0, and the model keeps it there. A client with its replies may leave or stay (`Leave`). What the handlers
compute is one answer per request and mount state; the keybag's handler tries to mount the data partition, which works
or not (`MayMount`), and not at all where boot arguments keep the NAND from being read.

### Emf

| variable | code |
|---|---|
| `volume`, `plist` | the tree, the forks and the `cprotect` attributes; the classes with keys, and which of these are wrong |
| `image` | each block: `raw` as dumped, `plain`, `garbage`, or `torn` by a death |
| `walk`, `work`, `buffer` | the recursion of `EMF_decrypt_folder`, the place in `EMF_decrypt_file_blocks`, the block in memory |
| `pending` | what stdio may not have written yet |

`Start` reads the keys, `Visit` takes the next item of a folder (a hard link as the file it
leads to, which is what `getFolderContents` gives), `Read` and `Write` are a turn of the loop over
blocks, `Finish` closes. `Death` loses what stdio has, or part of it. Byte offsets wrap at
`WordRange`. Encryption is modelled by its fit: the right file key and the block's own number
on a raw block give plaintext, anything else garbage.

### Yaftl

The reader of `yaftl.py` (`OpenContext`, `Restore`, `Translate`, `ReadLPN`) and the slow carver (`Carved`)
beside the device that wrote the flash. The device is not in the repository and is
modelled from what the reader relies on (the module's head says what); these definitions are
marked external. The device writes, closes blocks with a BTOC, saves an index and a
context page by page, marks the context when it goes on, and erases. It stops in good order or loses power between any
two pages or inside any page, pages of a context and marks among them (`PowerOff`); images are taken
while it is off. What is assumed of it beyond the order of its writes is one thing: it writes no data
while its last context has no readable mark behind it. After a torn mark or a half written context it saves
another one first (`PowerOn`). A device that went on without would be read from a stale context, since the
reader takes the first context without a readable mark for the current one.

The reader asks only for the pages of userTOC (`UserTOCThere`); the array of index pages comes from later pages,
is as long as what can be read of them (`ArrayFrom`), and a look-up behind its end is an exception (`ReadLPN`).
`cached` is the file the rebuilt table is kept in; `SameName` says whether a later image
is saved under the same name.

### Nand

The dumper of `ioflash`: the search through kernel memory (`Scan`), the replaced method pointer
(`Hook`, `InstallHandler`), the guess of the number of banks (`CheckSpecialPages`), `nand_dump`
(`DumpPage`, `Abort`, `DumpEnd`) and `nand_proxy` (`Proxy`, `ProxyEnd`), with the one page `buffer` the reads
share; beside it the host of `remote.py` and `image.py` (`Connect`, `Request`, `Take`, `Leave`,
`ImageRead`, and `Unbanked`, which undoes the gaps as `nand.py` does). A process ends in every way it may: by
`exit` (`Exit`: the scan or the search fails, or a page's return code is one of those for which `dump_nand_to_socket`
gives up, `Denied`), by Ctrl-C (`Interrupt`), or by a signal without a handler or a fault (`Kill`), at any step. Every
write into the kernel may be refused (`Written`), which the code reports and ignores. `kernel.lost` remembers
which of the three ways there was to leave the pointer behind.

Chip and kernel are external: what the code relies on of them. `Tells` says which chips the guess
can be right for: banks of one size, apart by less than twice that, and special pages that are not also
where another number of banks would have them, unless the pages are in the same order then (which is so when the
number of blocks is a power of two); and the boot blocks that `remote.py` has hardcoded are boot blocks. The
chips of the run include two whose banks are not searched for: there `HostReadsNand` speaks of
the one that `Guessed` lets through.

## 4. The runs

| run | shows | bounds |
|---|---|---|
| `MCBlockAllocCrash` | one death at any step: saved forks stay apart unless a shrinking call was freeing; every call returns on a volume nobody has died on | 2 forks of up to 3 blocks in 3 free blocks, 1 death, further calls after it |
| `MCRawFile` | bitmap, free count, lists and image agree at every step of `allocate()`; reads, writes and resizings implement `FileStore`; every call returns | 2 forks of up to 3 blocks of 2 bytes in 3 free blocks: every fragmentation of two forks, forks ending inside a block, wrap-around of the allocation pointer, a full volume |
| `MCBTree` | every consistency check of the library holds between calls, nodes never overflow, searches find, and the tree is a `Dictionary` | 5 keys of one length, 7 nodes: up to three levels, splits and removals of leaves and index nodes, growth of the file |
| `MCBTreeMixed` | with keys of two lengths: other keys' records survive, every call returns, also after "call again" | 5 keys, one long; keys 1 and 3 removed |
| `MCCatalog` | threads and saved counts are exact, valences count items and renames; no missing key is removed; at most one record of another item is missing at any step; commands do exactly what they are asked to; callers see a tree | `nextCatalogID` up to 5, 2 names, paths of up to 3 words, 2 link texts (loops, dangling links and links to links among what they make), 1 rename inside each folder, calls up to and with the first that takes a taken name or moves a folder into itself, 3 host folders, 3 archives |
| `MCCompress` | what a call leaves is exact, unless its close wrote behind its copy of the attribute; what it returns is exact; a death costs an inline file all or nothing; calls on a sound file return | 7 inputs and 5 files that end inside, at and behind a block of 3 characters, pieces of 2, 1 death and those of closes that overran; inline to longer inline, fork to inline, and both back |
| `MCImg3fs` | DATA comes back at the next mount; a death while it is encrypted costs one block; accesses that do not overlap go where they were meant | 2 threads, 3 calls, 2 mounts, DATA of 3 blocks and a rest in an element padded by 2, encrypted or not, the memory behind the buffer written by others at any time |
| `MCRamdisk` | replies belong to their requests, also after other clients have left in the middle; every request is answered or its connection ends, except where the server is held up for good (`HeldUp`) or another client stays for ever (`Occupied`) | 2 clients, 3 scripts of 2 requests, 2 passcodes, progress every 2, mounts that work or fail |
| `MCEmf` | the first run decrypts every block with a key once and no other; a death tears one block; no run spoils a block not yet reached | 3 runs, 6 blocks, fragmented files in nested folders and past the end, 5 kinds of attributes per file, 4 key files |
| `MCEmfLinks` | violated: a hard link | one file with one link |
| `MCYaftl` | after any stop, between pages or inside one, every logical page reads as written last, or raises an exception from a context left unfinished, never as older data; the carver finds every older copy but those in the newest block | 5 superblocks of 18 pages (16 of data and 2 of table), 2 of them for contexts of 9 pages, 2 logical pages, a device in use with 15 pages of data, 3 more writes, 2 stops |
| `MCNand` | what the host reads is what the chip holds; the pointer is left in the kernel by the named ends of a process only; the dumper serves again | 7 chips (1 to 3 banks, with and without gaps), 1 page of any status, 4 kernels, 2 starts, 2 connections, any write into the kernel refused, any end of the process |

The bounds are small because each property speaks of a few objects at a time: two forks
and the blocks between them, a node with its neighbours and parents, an item with
its folder and thread, a block of plaintext with its predecessor. Each bound is past the point
where the interesting branch happens: a fork with several extents in reverse disk order, a
tree of three levels, a folder in a folder in the root, a file of three compressed
blocks, a bank behind a gap. For block allocation, the catalog, compressed
files, the decrypter, img3fs, the RPC server and the pointer in the kernel the proofs remove the bounds.

Fairness. The HFS library is one thread without locks or waiting: a call that has begun
goes on until it returns or the process ends, while new calls are never owed. Hence `WF` on
the steps of the running call (`RestartSpec`, `RawFairSpec`, `FairSpec`, `Compress!Spec`) and none on
calls or deaths. In `Ramdisk` the server's and each client's reading steps are weakly fair; sending,
connecting, breaking and leaving are never owed. `ios_examiner.py:358` keeps its connection open for
its whole shell, and the server serves one client at a time, so another client may wait for ever: `RequestsAnswered` says
that this (`Occupied`: a client with an open connection and no request) is one of the two ways to go unanswered.
In `Nand` the dumper's steps are fair, the host's and the chip's are not.

Deadlock is checked in the runs of the HFS library: states in which the process has ended
(`Panicked`) or the behaviour is undefined (`wild`) loop there, so a deadlock would be a missing
case of the code. `Img3fs`, `Ramdisk`, `Emf`, `Yaftl` and `Nand` model processes that end and whose runs
are bounded: their configurations say `CHECK_DEADLOCK FALSE`.

What the properties exclude, they exclude by name: `torn` (a death in the freeing half of a
shrinking call), `broken` (a call that takes a taken name or moves a folder into itself, and all after it) and
`renamed` (a folder that has seen a rename inside it, for `rmall`), `overran` (a close that wrote behind its copy of the
attribute), `job.sound` (a file a death has left with a short block), `spoilt` and
`overlapped` (`img3fs` threads that came between each other's `lseek` and `read`), `HeldUp` and `short`
(the server's endless loop and the client's short length), `Occupied` (a client that stays), `Working` (a kernel in which
every call of the dumper fails: the result is dropped at `ioflash.c:112` and the page before is taken
for this one), `Guessed` (PPN chips, whose banks are not searched for and are assumed to be
one), `BehindGap` (`Abort` in a bank behind a gap), `lost` with `early` (an interrupt between `write_kernel` and
`signal()`), `killed` (SIGTERM, SIGHUP, SIGKILL or a fault, which run no handler) and `refused` (a write into the kernel
that failed), and `Unfinished` (an exception of the reader on half a context).
Each is a thing the code does not protect against, and each property was found to
fail in its run without its exclusion.

## 5. Findings

With a run of its own: `MCEmfLinks`. `emf_decrypter` visits a file once per hard link and once where
it lies, and decrypting is not idempotent (`emf_decrypter.c:148`); `README.txt:7` of the decrypter warns
of running it twice, one run on a volume with hard links does the same.

Seen in other configurations of the same modules, without a run of their own:

- `rawfile.c:387` and `:444`: overflow records are filed under one key and looked up under another
  (`BlockAlloc` with `Density` below the number of extents ends in "inconsistent extents
  information!").
- `rawfile.c:91` and `emf_decrypter.c:101`: byte offsets are 32-bit products (`ForksAreStrings` and
  `EveryFileOnce` fail once `WordRange` is below the size of the image).
- `btree.c:1458`: removing an absent key that is behind all records of its leaf reads data as a node
  number (`wild`).
- `btree.c:1155` and `:1208`: with two long keys, an add that must be called again can lose a record;
  `btree.c:1145`: the free space of a node is read before a key in it grows (`MCBTreeMixed` violates
  `RecordsFit`).
- `btree.c:770`: `growBTree` ignores that `allocate` failed (`AllocateCan = {TRUE, FALSE}` violates
  `MapConsistent`); `btree.c:227`: `search()` of a key in front of all keys panics.
- `catalog.c:779`: renaming inside a folder adds one to its valence, so that the folder, once emptied, can
  never be removed, and `rmall` of it ends the process on it (`ValenceExact` fails without `renamed`, and so does `CommandDone`).
- `hfs.c:74-96`: `mkdir` and `mv` onto a name that is taken, and `mv` of a folder into itself, are let
  through and leave threads, counts and the tree wrong (`ThreadsMatch`, `CountsExact` and `CatalogIsTree` fail
  where they do not end at `broken`); `add_hfs` through a link to nothing does the same and then panics.
- `rawfile.c:53`: after a death while blocks are taken the saved free count is too high, and a later call
  looks for a free block for ever (`AllocateReturns` without `crashes = 0`).
- `hfslib.c:714`: `untar` changes mode and owner of what a link it has just made leads to;
  `hfslib.c:662`: the type field of an entry is parsed together with a link name that begins with an
  octal digit. `addall` over a link writes the link's text, over a folder a folder's record.
- `hfscompress.c:148`: data that is kept inline is copied into memory of the size that the attribute had when it was
  read (`xattr.c:248`): a heap overflow when a file of the resource fork gets small enough for the attribute, or one in
  the attribute compresses to more than before (`FileIsOverlay` fails without `~overran`).
- `img3fs.c:256` and `:278`: DATA is decrypted by its total length into a buffer of its data length, and
  `:305` encrypts that many bytes back: with padding both go over the memory behind the buffer. What DATA holds survives
  (`MCImg3fs` has padding); the rest of the process may not.
- `hfscompress.c:43`: reading a file whose block is too short loops for ever.
- `plist_server.c:73`: a client that goes inside a message holds the server up for ever; `plist_server.c:142`: so does, as long
  as it stays, one that keeps its connection open (`RequestsAnswered` fails without `HeldUp`, and without `Occupied`).
- `img3fs.c:393`: threads that come between `lseek` and `read` or `write` of another make it read or write in another
  element (`OwnElement` fails without `overlapped`).
- `restored_external.c:190`: its message says the data partition is not mounted at boot, while a request for
  the keybag mounts it.
- `ioflash.c:483`: an aborted dump in a bank behind a gap aborts for ever; `ioflash.c:112`: the result of
  the call into the kernel is dropped; `ioflash.c:533`: host and proxy count boot blocks each
  for itself, and wait for each other where they differ; the scan spins on memory it cannot read, and
  misses a function that lies in front of the method.
- `ioflash_kernel.c:201`: only SIGINT is handled, and only after the pointer is replaced: an interrupt in between, any
  other signal or a fault leaves the kernel's method pointer leading into a dead process; `ioflash_kernel.c:125`: so does a
  `vm_write` that fails, whose result is dropped (`KernelLeftAsFound` fails without `lost`, for each of the three).
- `yaftl.py:189`: of a context only the pages of userTOC are asked for; when its array of index pages is cut
  short, the look-up of a page behind its end raises an exception (`Unfinished`), and no image is rebuilt.
- `yaftl.py:127`: the rebuilt table is used again for a later image of the same name.

## 6. Proofs

### Allocation without deaths (`RawFileProofs`)

For every volume, set of forks, reserved blocks and number of inline descriptors allowed by
`VolumeAssumption` and `BoundsAssumption`:

- `AllocSafe`: `Spec => []AllocInv`;
- `FreeCountExactAlways`, `NoBlockSharedAlways`, `BitmapExactAlways`: its three parts that matter to
  callers.

None of the three is inductive alone. That `GrowTake` takes a block of no fork needs
`BitmapExact`; that the bitmap stays exact needs `NoBlockShared` (else freeing one fork's block
would clear another's bit); and both need where the running call stands. `AllocInv`
therefore adds `NoEmptyExtent` (only the extent about to be filled is empty), `GrowCursor`
(the scan stands behind the last extent, so that `count + 1` takes the block it has just
marked), `WalkCursor` (a shrinking call walks the list it will cut) and `DoomedApart` (the
blocks cut off and not freed yet are in no fork and not twice in the list). There is a
lemma per action; `BlockBehind`, `EmptyExtentOwnsNothing` and `OwnedMembers` are the facts about
extents they share. The theorems are about `Spec`, where no process dies; `WritesKeepBlocks` says the same
of `RawSpec`, where the calls come from reads, writes and resizings of bytes.

### Allocation with deaths (`RawFileProofs`, `Induction`)

For every volume and any number of deaths, for behaviours in which `FitsInline` always holds: a call that has
come to `writeExtents` has given its fork no more *extents* than there are inline descriptors (`Density`, 8 in the code), so that
no overflow record is needed. The blocks of a fork may be as many as the volume has. (Past that bound the code
itself fails, see section 5.)

- `ReadBackAlways`: `RestartSpec /\ []FitsInline => []ReadBack`;
- `CrashKeepsForksApartAlways`: `RestartSpec /\ []FitsInline => []CrashKeepsForksApart`.

After a death `AllocInv` is lost: the saved count is too high and bits are set for blocks of no
fork. `SpaceInv` is what is left of it, together with the numbers: every fork in memory and on the
image is `Whole` (extents inside the volume, as many blocks as it says), list, fork data and catalog
record are the same where no call is between them (`InStep`), and what a running call has and what
it still wants make what it needs (`Growing`, `Walking`, `Freeing`, `Shrinking`, `Written`).
`CrashInv` adds whose the blocks are as long as no shrinking call was cut short: the blocks of a
fork, in memory *and* in its catalog record, are apart from every other fork's and marked, and what
a cut has taken off is not among what it keeps. The catalog's half is the point: it is what
a new process will find, and `GrowTake` can only be shown not to take from it because the bitmap
is never ahead of it outside the freeing loop (`Cutting`).

`BlockSum` is a recursive function over a list, and its facts (`SumAppend`, `SumPrefix`)
need induction. `Induction` gets it from the well-foundedness of `<` on the naturals:
`LeastNumber` gives every non-empty set of naturals a least element, `SetInduction` is induction for
a set in place of a predicate, and `Iteration` gives a loop its sequence of values (`Recursion`, where
the step depends on the round; `FlattenFronts` is what it says of `FlattenSeq`). `WalkIsInline` and
`WrittenInline` show that `readExtents` and `writeExtents` never leave the inline descriptors where
`FitsInline` holds.

### Raw files implement byte strings (`RawFileProofs`)

`ForksAreStringsAlways`: `RawSpec /\ []FitsInline => ForksAreStrings`, the refinement of `FileStore`, for every volume, block size,
number of forks and byte values, under two assumptions that the code itself needs: `FitsInline`, as
above, and `NoWrap` (`TotalBlocks * BlockSize <= WordRange`: the image is no longer than 2^32 bytes; past
that `rawfile.c:91` clears another block, see section 5). `MCRawFile` satisfies both.

The bytes of a fork are found in two ways: `rawFileRead` and `rawFileWrite` walk the list, extent by extent. The proof
replaces the walk by a place for each byte: `Before` counts the bytes in front of an extent, `Holds` says which
extent has byte p, and `Address` where on the image it is. `LocateStops` and `ReadIs` show that the two loops
compute just that: what is read is the image at the addresses, in order. From `NoBlockShared` follows that two
bytes never have one address (`AddressesApart`), from `BitmapExact` that no byte of a fork is in a block that
allocation may take and clear (`FreeApart`), so both are needed for what a reader sees. `Extends` says when
one list is the other one cut, and `AddressKept` that the bytes both have stay where they are.

The invariant `RawInv` is `AllocInv` with `SpaceInv` and `FileInv` until `hfs_panic`: a fork has the
blocks its size needs (`Sized`), the running call makes those of its target (`Targeted`), what a growing
call has added is zero although it is not yet part of the fork (`Cleared`; this is what makes the new size safe to
set), and a write that goes on is at the place of the fork its data belongs (`Writing`). Each step then is one of
`FileStore` or changes neither content nor request: a call asks (`SetSizeStep`, `WriteStartStep`), a cut or the
saving of the size resizes (`CutStep`, `SaveStep`), a chunk fills its piece (`WriteChunkStep`), the catalog
record ends the call (`CatalogStep`), and all others are invisible, the one that takes a block and clears
it among them (`TakeStep`).

### The catalog (`CatalogProofs`)

For any names, link texts, paths, host folders and archives, any number of renames, up to the first call that
takes a taken name or moves a folder into itself (`broken`; section 3), and for the calls alone (`Spec`) as for the commands made
of them (`CommandSpec`):

- `ThreadsAlwaysMatch`, `ValencesAlwaysExact`, `CountsAlwaysExact`: the records between calls;
- `KeysAlwaysPresent`, `DeathAlwaysCostsOneRecord`: every write, and every death, inside a call;
- `CatalogImplementsTree`: the refinement of `FolderTree`, write by write.

Inside a call the records are of no one shape: a folder's count is ahead of its items, a thread
leads to an item that is not there yet. The invariant `Inv` therefore looks forward (`Promise`): from the
image as it is, the writes in `todo` lead, each over a record it needs, to an image that is `Good`
(typed, rooted, linked, filed, with exact counts and valences of items and renames). A call has to show that its writes `Leads` to
such an image from the one it found, a write that it takes the first of them off; and when
none is left the image is the good one. That a write finds its record (`KeysPresent`) and that at
most one of another item is gone (`DeathCostsOneRecord`) are read off the same chain, in
`Effect`.

The walk along a path and the climb to the root are recursive functions in the model; `WalkRounds` and
`AboveRounds` give their sequences of values, and the proofs show what each round
keeps. That a folder hangs from the root is
stated by ranks (`Acyclic`: each item's rank is above its folder's), from which
`ClimbEnds` gets, by counting the folders a climb has met, that a climb to the root ends; `Move` keeps it
because a folder is not moved below itself. `Seen` is what a step of the
code is to a caller, `TreeStep` the step of `FolderTree` it maps to; `before` is the state the
mapping shows.

### Compressed files (`CompressProofs`)

For any characters, files and inputs, any sizes of blocks, buffers and attribute, and any number of deaths:
`FileIsOverlayAlways`, `ReadsTheFileAlways` and `AllOrNothingAlways`, from `CompressInvariant`. `CompressInv`
says, besides the types:

- `ForkOK`, of every fork there is, also one that a death has left half written: its table lies inside it,
  and so does what any entry in it speaks of, wherever the entry lies. This is why the next process never reads
  outside the fork, whatever it makes of it. What a table leads to is a whole compressed block or `Garbage`
  (`BlockFits`), never more than a block.
- `ExtractOK` and `ReadOK`: what has been read is the front of the file (`HasRead`), and all blocks so far
  were full. A file after a death may have a short block; without this part a character behind it would
  be at another place in the file than in the blocks. The cache is empty, the attribute's data, or the block it
  says it is (`Serving`); `ServeBytes` is the turn of `compressedRead` that copies from it.
- `AddOK`: once it is written to, the cache has the whole file with the front of the input over it (`Whole`).
- `WriteOK`: the blocks written so far lie one behind the other, behind the place of the table, each as it was
  compressed (`BlockWritten`); once the table is written it leads to them (`TableWritten`). Each later write
  falls in front of the blocks or behind them (`BlockKept`), so that when the attribute is set the fork
  is the file (`ForkIsFile`, from `BlockThere` and `ContentIs`).
- `ImageOK`: until the attribute goes, a file that is in the attribute is as it was: the writes to the fork
  do not concern it. For a file in the fork nothing is said while it is rewritten, because nothing holds.

`ContentIs` and `ContentOfFork` are about the file as a concatenation of blocks, of which
`FlattenFronts` gives the fronts; which block a character is in is arithmetic (`NumBlocksExact`,
`BlockOfPlace`). That `Layout`, a fork written in one go, is `ForkOK` is `LayoutOK`.

### The image file system (`Img3fsProofs`)

For images of any length, with a KBAG or without, any number of threads, mounts, calls and deaths:
`DataIsKept`, `DeathTearsOneBlock` and `TransferInOwnElement`, from `Img3Invariant`. As long as no write
went astray (`spoilt`), the tags are where they were made and the table is what one more parse of
the file would give (`TableInv`); each thread is inside the element it was called for (`ThreadInv`), which
gives its transfer, unless another one came between; and the file's DATA, the clear text and the
last mount's text are related as the state of the volume says (`DataInv`): the same while it is
mounted, the encrypted prefix and the rest while it is written back, one torn block after a
death. The parser is a loop over the file: `Rounds` is its sequence of states, and the proof follows
it tag by tag.

### The NAND dumper (`NandProofs`)

`PointerAlways` (`Spec => []PointerInv`) and `KernelLeftAsFoundAlways`, for every chip, kernel memory
and number of starts. `KernelLeftAsFound` speaks of dead processes only; `PointerInv` adds what a living
one knows: it has found the pointer whenever it may have replaced it (`Replacing`), and once it
works the handler is there (`Serving`).

`HostReadsNandAlways`, for every chip, status of every page, kernel, number of banks tried and of connections, under `Tells`
(evaluated by `MCNand` for its chips; which chips the check of the special pages is right for is a fact about chips, not
about the code). It follows from `ReadsInv`:

- `ScanOK`: what a process knows at a word of the kernel is what the words in front hold, so every process
  that gets through the scan has the descriptor function (`Works`) or none has. This is why a dump that an
  earlier process took may be read by the same rule as one of this process.
- `BanksOK`: the process that serves has the chip's number of banks or one that orders the pages alike.
- `DumpOK`: the length of the image says which page is next (`PlaceOK`), and every entry so far is right
  (`ImageOK`). The page whose place in the image is next is the one that is read: `SamePlace`, from
  the lemmas about numbers in two parts, `Digits` and `DivMod`.
- `HostOK`: a request is for a page of the chip, and the reply not yet taken is the reply to it. Where host
  and dumper disagree about what is a boot page, the sizes differ and the reply is never complete
  (the hazard at `ioflash.c:533`).

### The decrypter (`EmfProofs`)

`DecrypterAlways` and `RawNeverSpoiltAlways`, for every volume and key file that satisfy
`VolumeAssumption` and `EmfAssumption`, under `NoWrap` (no byte offset of a fork wraps; without it the
property fails). The action property follows from `DecrypterInv`: the block in memory is
the one the walk stands at and holds what the image holds there (`BufferOK`), it belongs to the file
whose key is used (`WorkOK`), and stdio holds nothing but a block already decrypted (`PendingOK`), so
a death cannot bring ciphertext back over a raw block.

`EveryFileOnceAlways` is about the first run, under `OrderlyVolumes`: every item is listed once
(no hard links; `MCEmfLinks` shows that it fails with one), all hang from the root, no block is in two forks, and
no offset wraps. `MCEmf` evaluates that the volumes of its run are such volumes. The invariant `OnceInv` says for each
set of entries the walk has `seen`: what is still to visit has not been seen and hangs from a folder that
has (`WalkHas`), and the plain blocks are those of seen files with a key, up to where the work stands in the
last of them (`Progress`, `Done`). At the end nothing is to be visited, so that what has been seen is closed
under listing and holds the root: it is everything.

### The RPC server (`RamdiskProofs`)

`RepliesAlwaysMatch`, for any number of clients, any scripts, any number of passcodes and progress messages, and
connections that break anywhere, from `RpcAlways`. A reply is right because there is one place where its
request can be. `RpcInv` lists the places on an open connection: nothing is under way (`Quiet`), or the
client waits and its request is on the way (`Asked`), is being received (`Heard`), worked on (`Worked`), searched for
(`Searched`), or answered (`Replied`); and what comes back is whole messages from the first unit or from the
middle of the first message on (`Framed`), all but the last about the progress. That the server begins to receive at
the start of a message, and the client to read, is what a length in two parts breaks: then `short` is set, and
nothing more is said of that client. Of the others it is still said, which is what `ServerFrame` and `ClientFrame` show: a
step of the server concerns the client it serves, a step of a client that client.

The second part of `RepliesMatch` (after the keybag, the partition's data is there) needs that a keybag among the
replies means the partition is mounted, and that it is never unmounted.

### Only model-checked

Liveness (`AllocateReturns`, `CallsReturn`, `CallReturns`, `CallsEnd`, `RequestsAnswered`, `ServesAgain`),
which is out of the prover's reach; `CommandDone`, for which the invariant would have to carry the whole plan of a
command; and everything about `BTree` with its refinement `TreeIsDictionary`, and `Yaftl`, for which no
inductive invariant is written.

## 7. Not modelled

- The layout of nodes and records in bytes and the order of catalog keys (`fastunicodecompare.c`):
  keys are ordered model values.
- Map nodes: a tree whose map outgrows the header node has tens of thousands of nodes; the model's trees
  stay below that, and `btree.c:871` is listed as a hazard without a property.
- `grow_hfs`: `BlockAlloc`'s volume has a constant size, and so have its proofs.
- Hard links in the catalog (the library only reads them; `Emf` has them), dates, permissions and `folderCount`
  (written, never read here), absolute link targets (the walk is the same from the root), `addall`
  over items of another kind, whose result is undefined.
- What becomes of a catalog after a call that takes a taken name or moves a folder into itself: such a call is
  followed to its end and no call after it (`KeysPresent` is checked through it, not proved). Paths whose last
  word is empty, or that are the root alone: `move` and `removeFile` then use a key that is not initialised, and
  `newFolder` and `newFile` make an item without a name.
- The fast carver, decryption and index cache of the YAFTL reader; the VFL layers and the legacy FTL: address
  arithmetic over tables whose writer is not in the repository and of which, unlike YAFTL, the code relies on
  little that could be stated.
- The usbmux client and the relay: a copy of a third-party client.
- Device access, cryptography and binary patching on the ramdisk; keybags, keychains,
  backups and the parsers of the Python tools: straight-line calls and data transformations without
  state to model.
- The short scripts beside `dump-imessages`, which fetch, parse and print.
