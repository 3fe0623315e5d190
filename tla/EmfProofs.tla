----------------------------- MODULE EmfProofs ------------------------------
(***************************************************************************)
(* The decrypter never spoils a block that is still as it was dumped, for  *)
(* every volume whose blocks have 32-bit offsets, every key file, every    *)
(* number of runs and every moment of a death; and on a volume in good     *)
(* order the first run decrypts every file it has a key for, once.         *)
(*                                                                         *)
(* The argument: the block in memory is the one that the walk stands at    *)
(* and holds what the image holds there (BufferOK), that block belongs to  *)
(* the file whose key is used (WorkOK with NoWrap), and stdio has nothing  *)
(* in its buffer but a block that was decrypted (PendingOK). For the first *)
(* run, what is plain are the blocks of the visited files up to the place  *)
(* where the work stands (Progress), and a walk that has ended has visited *)
(* all that hangs from the root.                                           *)
(***************************************************************************)
EXTENDS Emf, FiniteSetTheorems, TLAPS

\* No byte offset of a fork's block wraps.
NoWrap == \A v \in Volumes : NoOffsetWraps(v)

Visits == [type : {"folder"}, id : DOMAIN volume.items] \cup [type : {"file"}, id : DOMAIN volume.forks]

WalkOK == walk = <<Idle>> \/ walk \in Seq(Visits)

WorkOK ==
    work # NoWork =>
        /\ work \in [file : DOMAIN volume.forks, extent : Nat, i : Nat]
        /\ work.extent \in 1 .. Len(Fork)
        /\ work.i < Fork[work.extent].count

BufferOK ==
    buffer # NoBuffer =>
        /\ work # NoWork
        /\ buffer = [lba |-> Lba, data |-> image[At(Lba)]]
        /\ At(Lba) < Blocks

PendingOK == pending # NoPending => image[pending.at] # "raw"

ImageOK == image = [b \in 0 .. Blocks - 1 |-> image[b]]

DecrypterInv ==
    volume \in Volumes /\ WalkOK /\ WorkOK /\ BufferOK /\ PendingOK /\ ImageOK

-----------------------------------------------------------------------------
\* The block the walk stands at belongs to the file, and its offset is its own.
LEMMA LbaOwned ==
    ASSUME NoWrap, volume \in Volumes, WorkOK, work # NoWork
    PROVE  Lba \in Nat /\ At(Lba) = Lba /\ OwnedBy(work.file, Lba)
<1>1. /\ Fork \in Seq(Extents) /\ work.extent \in DOMAIN Fork
      /\ Fork[work.extent] \in Extents /\ Fork[work.extent] \in Range(Fork)
  BY VolumeAssumption DEF WorkOK, Fork, Range
<1>2. Fork[work.extent].start + Fork[work.extent].count <= WordRange
  BY <1>1 DEF NoWrap, NoOffsetWraps, WorkOK, Fork
<1>3. /\ work.i \in Nat /\ work.i < Fork[work.extent].count
      /\ Fork[work.extent].start \in Nat /\ Fork[work.extent].count \in Nat
  BY <1>1 DEF WorkOK, Extents
<1>4. Lba \in Nat /\ Lba < WordRange
  BY <1>2, <1>3, EmfAssumption DEF Lba
<1>5. At(Lba) = Lba
  BY <1>4, EmfAssumption DEF At
<1>6. Lba \in Fork[work.extent].start .. Fork[work.extent].start + Fork[work.extent].count - 1
  BY <1>3 DEF Lba
<1> QED
  BY <1>1, <1>4, <1>5, <1>6 DEF OwnedBy, Fork

\* After a block the work stands inside an extent of its file, or there is none.
LEMMA NextBlockOK ==
    ASSUME volume \in Volumes, WorkOK, work # NoWork, work' = NextBlock, volume' = volume
    PROVE  WorkOK'
<1>1. Fork \in Seq(Extents) /\ Len(Fork) \in Nat
  BY VolumeAssumption DEF WorkOK, Fork
<1>2. CASE work.i + 1 < Fork[work.extent].count
  BY <1>1, <1>2 DEF WorkOK, NextBlock, Fork
<1>3. CASE ~(work.i + 1 < Fork[work.extent].count) /\ work.extent < Len(Fork)
  <2>1. work' = [work EXCEPT !.extent = @ + 1, !.i = 0]
    BY <1>3 DEF NextBlock
  <2>2. work.extent + 1 \in DOMAIN Fork /\ Fork[work.extent + 1] \in Extents
    BY <1>1, <1>3 DEF WorkOK
  <2>3. /\ work'.file = work.file /\ work'.extent = work.extent + 1 /\ work'.i = 0
        /\ work' \in [file : DOMAIN volume.forks, extent : Nat, i : Nat]
    <3> DEFINE files == DOMAIN volume.forks
    <3>1. work \in [file : files, extent : Nat, i : Nat]
      BY DEF WorkOK
    <3> HIDE DEF files
    <3>2. work' = [file |-> work.file, extent |-> work.extent + 1, i |-> 0]
      BY <2>1, <3>1
    <3>3. work.file \in files /\ work.extent + 1 \in Nat
      BY <3>1
    <3> QED
      BY <3>2, <3>3 DEF files
  <2>4. Fork' = Fork
    BY <2>3 DEF Fork
  <2>5. work'.extent \in 1 .. Len(Fork') /\ work'.i < Fork'[work'.extent].count
    <3>1. work.extent \in Nat /\ work.extent + 1 \in 1 .. Len(Fork)
      BY <1>1, <1>3 DEF WorkOK
    <3>2. Fork[work.extent + 1].count > 0
      BY <2>2 DEF Extents
    <3> QED
      BY <2>3, <2>4, <3>1, <3>2
  <2> QED
    BY <2>3, <2>5 DEF WorkOK
<1>4. CASE ~(work.i + 1 < Fork[work.extent].count) /\ ~(work.extent < Len(Fork))
  BY <1>4 DEF WorkOK, NextBlock
<1> QED
  BY <1>2, <1>3, <1>4

\* What a folder holds are places for the walk to visit.
LEMMA ContentsOK ==
    ASSUME volume \in Volumes, NEW folder \in DOMAIN volume.items
    PROVE  Contents(folder) \in Seq(Visits)
<1>1. volume.items[folder] \in Seq(Entries(volume))
  BY VolumeAssumption
<1>2. ASSUME NEW item \in Entries(volume)
      PROVE  (IF item.type = "link" THEN [item EXCEPT !.type = "file"] ELSE item) \in Visits
  BY DEF Entries, Visits
<1>3. \A i \in 1 .. Len(volume.items[folder]) : volume.items[folder][i] \in Entries(volume)
  BY <1>1
<1> DEFINE seen(item) == IF item.type = "link" THEN [item EXCEPT !.type = "file"] ELSE item
<1>4. Contents(folder) = [i \in 1 .. Len(volume.items[folder]) |-> seen(volume.items[folder][i])]
  BY <1>1 DEF Contents
<1>5. \A i \in 1 .. Len(volume.items[folder]) : seen(volume.items[folder][i]) \in Visits
  BY <1>2, <1>3
<1>6. Len(volume.items[folder]) \in Nat
  BY <1>1
<1> HIDE DEF seen
<1> QED
  BY <1>4, <1>5, <1>6

-----------------------------------------------------------------------------
\* Before the program starts nothing is decrypted.
LEMMA InitOK == Init => DecrypterInv
BY DEF Init, DecrypterInv, WalkOK, WorkOK, BufferOK, PendingOK, ImageOK

\* The program opens the volume.
LEMMA StartOK == ASSUME DecrypterInv, Start PROVE DecrypterInv'
<1>1. walk' = <<Idle>> \/ walk' = Contents(Root)
  BY DEF Start
<1>2. UNCHANGED <<volume, image, pending, work, buffer>>
  BY DEF Start, fixed
<1>3. Contents(Root) \in Seq(Visits)
  BY ContentsOK, VolumeAssumption DEF DecrypterInv, Root
<1>4. WalkOK'
  BY <1>1, <1>2, <1>3 DEF WalkOK, Visits
<1> QED
  BY <1>2, <1>4 DEF DecrypterInv, WorkOK, BufferOK, PendingOK, ImageOK, Fork, Lba

\* The walk over the catalog comes to a file or folder.
LEMMA VisitOK == ASSUME DecrypterInv, Visit PROVE DecrypterInv'
<1>1. UNCHANGED <<volume, image, pending, buffer>> /\ work = NoWork
  BY DEF Visit, fixed
<1>2. walk \in Seq(Visits) /\ walk # <<>>
  BY DEF Visit, Running, DecrypterInv, WalkOK
<1>3. walk[1] \in Visits /\ Tail(walk) \in Seq(Visits)
  BY <1>2
<1>4. CASE walk[1].type = "folder"
  <2>1. walk' = Contents(walk[1].id) \o Tail(walk) /\ work' = work
    BY <1>4 DEF Visit
  <2>2. walk[1].id \in DOMAIN volume.items
    BY <1>3, <1>4 DEF Visits
  <2>3. walk' \in Seq(Visits)
    BY <1>3, <2>1, <2>2, ContentsOK DEF DecrypterInv
  <2>4. WalkOK'
    BY <1>1, <2>3 DEF WalkOK, Visits
  <2> QED
    BY <1>1, <2>1, <2>4 DEF DecrypterInv, WorkOK, BufferOK, PendingOK, ImageOK
<1>5. CASE walk[1].type # "folder"
  <2> DEFINE file == walk[1].id
  <2>1. /\ walk' = Tail(walk)
        /\ \/ work' = NoWork
           \/ volume.forks[file] # <<>> /\ work' = [file |-> file, extent |-> 1, i |-> 0]
    BY <1>5 DEF Visit
  <2>2. file \in DOMAIN volume.forks
    BY <1>3, <1>5 DEF Visits
  <2>3. volume.forks[file] \in Seq(Extents)
    BY <2>2, VolumeAssumption DEF DecrypterInv
  <2>4. ASSUME work' = NoWork PROVE WorkOK'
    BY <2>4 DEF WorkOK
  <2>5. ASSUME volume.forks[file] # <<>>, work' = [file |-> file, extent |-> 1, i |-> 0]
        PROVE  WorkOK'
    <3>1. 1 \in 1 .. Len(volume.forks[file]) /\ volume.forks[file][1] \in Extents
      BY <2>3, <2>5
    <3>2. Fork' = volume.forks[file]
      BY <1>1, <2>5 DEF Fork
    <3>3. 0 < volume.forks[file][1].count
      BY <3>1 DEF Extents
    <3> HIDE DEF file
    <3> QED
      BY <1>1, <2>2, <2>5, <3>1, <3>2, <3>3 DEF WorkOK
  <2>6. WorkOK'
    BY <2>1, <2>4, <2>5
  <2>7. BufferOK'
    BY <1>1 DEF DecrypterInv, BufferOK
  <2>8. WalkOK'
    BY <1>1, <1>3, <2>1 DEF WalkOK, Visits
  <2> QED
    BY <1>1, <2>6, <2>7, <2>8 DEF DecrypterInv, PendingOK, ImageOK
<1> QED
  BY <1>4, <1>5

\* A block of the file is read and decrypted in memory.
LEMMA ReadOK == ASSUME DecrypterInv, Read PROVE DecrypterInv'
<1>1. /\ UNCHANGED <<volume, image, walk>> /\ pending' = NoPending
      /\ work # NoWork /\ buffer = NoBuffer
  BY DEF Read, fixed
<1>2. WalkOK' /\ PendingOK' /\ ImageOK'
  BY <1>1 DEF DecrypterInv, WalkOK, Visits, PendingOK, ImageOK
<1>3. CASE At(Lba) < Blocks
  <2>1. work' = work /\ buffer' = [lba |-> Lba, data |-> image[At(Lba)]]
    BY <1>3 DEF Read
  <2>2. WorkOK' /\ BufferOK'
    BY <1>1, <1>3, <2>1 DEF DecrypterInv, WorkOK, BufferOK, Fork, Lba, At
  <2> QED
    BY <1>1, <1>2, <2>2 DEF DecrypterInv
<1>4. CASE ~(At(Lba) < Blocks)
  <2>1. work' = NextBlock /\ buffer' = NoBuffer
    BY <1>1, <1>4 DEF Read
  <2>2. WorkOK' /\ BufferOK'
    BY <1>1, <2>1, NextBlockOK DEF DecrypterInv, BufferOK
  <2> QED
    BY <1>1, <1>2, <2>2 DEF DecrypterInv
<1> QED
  BY <1>3, <1>4

\* What is written over a raw block is that block, decrypted with the key of the
\* file it belongs to.
LEMMA Decrypted ==
    ASSUME NoWrap, DecrypterInv, Write
    PROVE  /\ Lba \in 0 .. Blocks - 1
           /\ \E new \in {"plain", "garbage"} :
                 /\ image' = [image EXCEPT ![Lba] = new]
                 /\ image[Lba] = "raw" => new = "plain"
           /\ pending' = [at |-> Lba, old |-> image[Lba]]
<1>1. /\ buffer = [lba |-> Lba, data |-> image[At(Lba)]] /\ At(Lba) < Blocks /\ work # NoWork
      /\ image' = [image EXCEPT ![At(buffer.lba)] = EMF_fix_and_decrypt_block]
      /\ pending' = [at |-> At(buffer.lba), old |-> image[At(buffer.lba)]]
  BY DEF Write, DecrypterInv, BufferOK
<1>2. Lba \in Nat /\ At(Lba) = Lba /\ OwnedBy(work.file, Lba)
  BY <1>1, LbaOwned DEF DecrypterInv
<1>3. buffer.lba = Lba /\ buffer.data = image[Lba] /\ Lba \in 0 .. Blocks - 1
  BY <1>1, <1>2, EmfAssumption
<1>4. /\ EMF_fix_and_decrypt_block \in {"plain", "garbage"}
      /\ image[Lba] = "raw" => EMF_fix_and_decrypt_block = "plain"
  BY <1>2, <1>3 DEF EMF_fix_and_decrypt_block, Iv
<1> QED
  BY <1>1, <1>2, <1>3, <1>4

\* The decrypted block is written back.
LEMMA WriteOK == ASSUME NoWrap, DecrypterInv, Write PROVE DecrypterInv'
<1>1. /\ UNCHANGED <<volume, walk>> /\ work' = NextBlock /\ buffer' = NoBuffer /\ work # NoWork
  BY DEF Write, fixed, DecrypterInv, BufferOK
<1>2. WalkOK' /\ WorkOK' /\ BufferOK'
  BY <1>1, NextBlockOK DEF DecrypterInv, WalkOK, Visits, BufferOK
<1>3. PICK new \in {"plain", "garbage"} : image' = [image EXCEPT ![Lba] = new]
  BY Decrypted
<1>4. Lba \in 0 .. Blocks - 1 /\ pending' = [at |-> Lba, old |-> image[Lba]]
  BY Decrypted
<1>5. image'[Lba] = new /\ ImageOK'
  BY <1>3, <1>4 DEF DecrypterInv, ImageOK
<1>6. PendingOK'
  BY <1>4, <1>5 DEF PendingOK
<1> QED
  BY <1>1, <1>2, <1>5, <1>6 DEF DecrypterInv

\* The run ends: volume and image file are closed.
LEMMA FinishOK == ASSUME DecrypterInv, Finish PROVE DecrypterInv'
BY DEF Finish, fixed, DecrypterInv, WalkOK, WorkOK, BufferOK, PendingOK, ImageOK, Fork, Lba

\* The process dies at any step.
LEMMA DeathOK == ASSUME DecrypterInv, Death PROVE DecrypterInv'
<1>1. /\ volume' = volume /\ walk' = <<Idle>> /\ work' = NoWork
      /\ buffer' = NoBuffer /\ pending' = NoPending
  BY DEF Death, fixed
<1>2. image' = image \/ \E s : image' = [image EXCEPT ![pending.at] = s]
  BY DEF Death
<1>3. ImageOK'
  BY <1>2 DEF DecrypterInv, ImageOK
<1> QED
  BY <1>1, <1>3 DEF DecrypterInv, WalkOK, WorkOK, BufferOK, PendingOK

\* Every step of the program, and every death.
LEMMA NextOK == ASSUME NoWrap, DecrypterInv, [Next]_vars PROVE DecrypterInv'
<1>1. CASE UNCHANGED vars
  BY <1>1 DEF vars, DecrypterInv, WalkOK, Visits, WorkOK, BufferOK, PendingOK, ImageOK, Fork, Lba, At
<1> QED
  BY <1>1, StartOK, VisitOK, ReadOK, WriteOK, FinishOK, DeathOK DEF Next

-----------------------------------------------------------------------------
RawStays == \A b \in DOMAIN image : image[b] = "raw" => image'[b] \in {"raw", "plain"}

\* A block as dumped stays so in a step, or becomes its plaintext.
LEMMA RawStep == ASSUME NoWrap, DecrypterInv, [Next]_vars PROVE RawStays
<1>1. CASE UNCHANGED image
  BY <1>1 DEF RawStays
<1>2. CASE Write
  <2>1. PICK new \in {"plain", "garbage"} :
           image' = [image EXCEPT ![Lba] = new] /\ (image[Lba] = "raw" => new = "plain")
    BY <1>2, Decrypted
  <2> QED
    BY <2>1 DEF RawStays, DecrypterInv, ImageOK
<1>3. CASE Death
  <2>1. CASE pending = NoPending
    BY <1>1, <1>3, <2>1 DEF Death
  <2>2. CASE pending # NoPending
    <3>1. image[pending.at] # "raw"
      BY <2>2 DEF DecrypterInv, PendingOK
    <3>2. PICK s : image' = [image EXCEPT ![pending.at] = s]
      BY <1>3, <2>2 DEF Death
    <3> QED
      BY <3>1, <3>2 DEF RawStays, DecrypterInv, ImageOK
  <2> QED
    BY <2>1, <2>2
<1>4. CASE Start \/ Visit \/ Read \/ Finish \/ UNCHANGED vars
  BY <1>1, <1>4 DEF Start, Visit, Read, Finish, vars
<1> QED
  BY <1>2, <1>3, <1>4 DEF Next

\* What the walk, the block in memory and stdio's buffer have to do with each
\* other, at every step of every run, deaths included.
THEOREM DecrypterAlways == ASSUME NoWrap PROVE Spec => []DecrypterInv
<1>1. DecrypterInv /\ [Next]_vars => DecrypterInv'
  BY NextOK
<1> QED
  BY InitOK, <1>1, PTL DEF Spec

\* emf_decrypter.c: on an image whose offsets fit 32 bits, no step of any run, and
\* no death, turns a block that is still as dumped into anything but its plaintext.
THEOREM RawNeverSpoiltAlways == ASSUME NoWrap PROVE Spec => RawNeverSpoilt
<1>1. DecrypterInv /\ [Next]_vars => [RawStays]_vars
  BY RawStep
<1> QED
  BY DecrypterAlways, <1>1, PTL DEF Spec, RawNeverSpoilt, RawStays

-----------------------------------------------------------------------------
(***************************************************************************)
(* The first run, on a volume whose folders are a tree and whose forks     *)
(* share no block. The entries that the walk has visited are `seen': what  *)
(* it still has to visit is what their folders list and they do not hold   *)
(* (WalkHas), and the blocks that are plain are those of the visited files *)
(* up to the place where the work stands (Done).                           *)
(***************************************************************************)
RootEntry == [type |-> "folder", id |-> Root]
FileEntry(file) == [type |-> "file", id |-> file]

Listed(e, seen) == \E d \in seen : d.type = "folder" /\ e \in Range(volume.items[d.id])

WalkHas(seen) ==
    /\ RootEntry \in seen /\ seen \subseteq Visits
    /\ \A e \in seen : e = RootEntry \/ Listed(e, seen)
    /\ \A e : e \in Range(walk) <=> Listed(e, seen) /\ e \notin seen
    /\ \A i, j \in DOMAIN walk : walk[i] = walk[j] => i = j

\* The work has this block of the file behind it.
Behind(file, n, b) ==
    (work # NoWork /\ work.file = file) =>
        \/ n < work.extent
        \/ n = work.extent /\ b < Fork[n].start + work.i

Done(b, seen) ==
    \E file \in DOMAIN volume.forks : \E n \in DOMAIN volume.forks[file] :
        /\ FileEntry(file) \in seen /\ Usable(file)
        /\ b \in Blocked(volume.forks[file][n]) /\ Behind(file, n, b)

Progress(seen) ==
    /\ WalkHas(seen)
    /\ work # NoWork => FileEntry(work.file) \in seen /\ Usable(work.file)
    /\ \A b \in 0 .. Blocks - 1 : image[b] = IF Done(b, seen) THEN "plain" ELSE "raw"

OnceInv ==
    /\ DecrypterInv
    /\ runs \in Nat /\ deaths \in Nat
    /\ ~Running => work = NoWork
    /\ runs = 0 => ~Running /\ deaths = 0 /\ \A b \in 0 .. Blocks - 1 : image[b] = "raw"
    /\ runs = 1 /\ deaths = 0 /\ Running => plist.complete /\ \E seen : Progress(seen)
    /\ runs = 1 /\ deaths = 0 /\ ~Running => \A b \in 0 .. Blocks - 1 : image[b] = Wanted(b)
    /\ runs = 1 /\ deaths > 0 =>
          ~Running /\ \E x : \A b \in (0 .. Blocks - 1) \ {x} : image[b] \in {"raw", Wanted(b)}

OrderlyVolumes == \A v \in Volumes : Orderly(v)

\* A file is decrypted when its class is one of those in use and the right key
\* of it was given.
LEMMA UsableWhen ==
    ASSUME volume \in Volumes, NEW file \in DOMAIN volume.forks
    PROVE  Usable(file) <=>
              /\ volume.cprotect[file].version = 2
              /\ volume.cprotect[file].class \in
                    ((1 .. MaxClass - 1) \cap (plist.classes \cup {DKey})) \ plist.wrong
<1> DEFINE c == volume.cprotect[file].class
<1>1. c \in Nat
  BY VolumeAssumption
<1>2. MaxClass \in Nat /\ DKey \in 1 .. MaxClass - 1
  BY EmfAssumption
<1> HIDE DEF c
<1>3. Unwraps(c) <=> c \in ((1 .. MaxClass - 1) \cap (plist.classes \cup {DKey})) \ plist.wrong
  BY <1>1, <1>2 DEF Unwraps, HasKey, Keys
<1> QED
  BY <1>3 DEF Usable, Attribute, c

\* The extents of a fork are those that hold its blocks.
LEMMA OwnedWhen ==
    ASSUME volume \in Volumes, NEW file \in DOMAIN volume.forks, NEW b
    PROVE  OwnedBy(file, b) <=> \E n \in DOMAIN volume.forks[file] : b \in Blocked(volume.forks[file][n])
BY DEF OwnedBy, Blocked, Range

\* What is wanted of a block, in the terms of the walk.
LEMMA WantedWhen ==
    ASSUME volume \in Volumes, NEW b
    PROVE  Wanted(b) = IF plist.complete /\ \E file \in DOMAIN volume.forks :
                             \E n \in DOMAIN volume.forks[file] :
                                Usable(file) /\ b \in Blocked(volume.forks[file][n])
                       THEN "plain" ELSE "raw"
<1>1. (\E file \in DOMAIN volume.forks : \E n \in DOMAIN volume.forks[file] :
           Usable(file) /\ b \in Blocked(volume.forks[file][n]))
      <=> \E f \in DOMAIN volume.forks :
           /\ OwnedBy(f, b) /\ volume.cprotect[f].version = 2
           /\ volume.cprotect[f].class \in ((1 .. MaxClass - 1) \cap (plist.classes \cup {DKey})) \ plist.wrong
  <2>1. \A file \in DOMAIN volume.forks : Usable(file) <=>
              /\ volume.cprotect[file].version = 2
              /\ volume.cprotect[file].class \in
                    ((1 .. MaxClass - 1) \cap (plist.classes \cup {DKey})) \ plist.wrong
    BY UsableWhen
  <2>2. \A file \in DOMAIN volume.forks :
           OwnedBy(file, b) <=> \E n \in DOMAIN volume.forks[file] : b \in Blocked(volume.forks[file][n])
    BY OwnedWhen
  <2> QED
    BY <2>1, <2>2
<1> QED
  BY <1>1 DEF Wanted

\* In a tree without links getFolderContents gives a folder's own entries.
LEMMA ContentsAreItems ==
    ASSUME volume \in Volumes, ListedOnce(volume), NEW folder \in DOMAIN volume.items
    PROVE  Contents(folder) = volume.items[folder]
<1>1. volume.items[folder] \in Seq(Entries(volume))
  BY VolumeAssumption
<1>2. \A i \in DOMAIN volume.items[folder] : volume.items[folder][i].type # "link"
  BY DEF ListedOnce
<1>3. Contents(folder) = [i \in DOMAIN volume.items[folder] |-> volume.items[folder][i]]
  BY <1>2 DEF Contents
<1> QED
  BY <1>1, <1>3

\* Where the work stands: in a block of an extent of its file.
LEMMA WorkStands ==
    ASSUME volume \in Volumes, WorkOK, work # NoWork
    PROVE  /\ work.file \in DOMAIN volume.forks /\ Fork \in Seq(Extents)
           /\ work.extent \in DOMAIN Fork /\ work.extent \in Nat
           /\ work.i \in Nat /\ work.i < Fork[work.extent].count
           /\ Fork[work.extent].start \in Nat /\ Fork[work.extent].count \in Nat
           /\ Lba \in Blocked(Fork[work.extent]) /\ Lba \in Nat
<1>1. /\ work.file \in DOMAIN volume.forks /\ work.i \in Nat /\ work.extent \in Nat
      /\ work.extent \in 1 .. Len(Fork) /\ work.i < Fork[work.extent].count
  BY DEF WorkOK
<1>2. Fork \in Seq(Extents)
  BY <1>1, VolumeAssumption DEF Fork
<1>3. work.extent \in DOMAIN Fork /\ Fork[work.extent] \in Extents
  BY <1>1, <1>2
<1>4. Fork[work.extent].start \in Nat /\ Fork[work.extent].count \in Nat
  BY <1>3 DEF Extents
<1>5. Lba \in Blocked(Fork[work.extent]) /\ Lba \in Nat
  BY <1>1, <1>4 DEF Lba, Blocked
<1> QED
  BY <1>1, <1>2, <1>3, <1>4, <1>5

\* Moving to the next block puts behind exactly the block at which the work stood.
LEMMA NextBehind ==
    ASSUME volume \in Volumes, WorkOK, work # NoWork, work' = NextBlock, UNCHANGED volume,
           NEW file \in DOMAIN volume.forks, NEW n \in DOMAIN volume.forks[file],
           NEW b \in Blocked(volume.forks[file][n])
    PROVE  Behind(file, n, b)' <=>
              Behind(file, n, b) \/ (file = work.file /\ n = work.extent /\ b = Lba)
<1> DEFINE f == Fork
           m == work.extent
<1>0. m = work.extent
  OBVIOUS
<1>1. /\ f \in Seq(Extents) /\ m \in DOMAIN f /\ m \in Nat /\ work.i \in Nat
      /\ work.i < f[m].count /\ f[m].start \in Nat /\ f[m].count \in Nat
  BY WorkStands
<1>2. Lba = f[m].start + work.i
  BY DEF Lba
<1>6. \A s, c, i, x \in Int : x <= s + c - 1 /\ c <= i + 1 => x < s + i \/ x = s + i
  OBVIOUS
<1>3. work \in [file : DOMAIN volume.forks, extent : Nat, i : Nat]
  BY DEF WorkOK
<1>4. CASE file # work.file
  <2>1. work' = NoWork \/ work'.file = work.file
    BY <1>3 DEF NextBlock
  <2> QED
    BY <1>4, <2>1 DEF Behind
<1>5. CASE file = work.file
  <2>1. /\ volume.forks[file] = f /\ n \in DOMAIN f
        /\ n \in 1 .. Len(f) /\ n \in Nat /\ Len(f) \in Nat
        /\ f[n].start \in Nat /\ f[n].count \in Nat
    <3>1. volume.forks[file] = f
      BY <1>5 DEF Fork
    <3>2. n \in DOMAIN f /\ n \in 1 .. Len(f) /\ Len(f) \in Nat /\ n \in Nat /\ f[n] \in Extents
      BY <1>1, <3>1
    <3> QED
      BY <3>1, <3>2 DEF Extents
  <2>2. b \in Int /\ f[n].start <= b /\ b <= f[n].start + f[n].count - 1
    BY <2>1 DEF Blocked
  <2>3. Behind(file, n, b) <=> n < m \/ (n = m /\ b < f[n].start + work.i)
    BY <1>5 DEF Behind
  <2>4. CASE work.i + 1 < f[m].count
    <3>1. work' = [work EXCEPT !.i = @ + 1]
      BY <2>4 DEF NextBlock
    <3>2. work'.file = file /\ work'.extent = m /\ work'.i = work.i + 1
      BY <3>1, <1>3, <1>5
    <3>3. work' # NoWork
      BY <3>2, <1>1 DEF NoWork
    <3>4. Fork' = f
      BY <3>2, <1>5 DEF Fork
    <3>5. Behind(file, n, b)' <=> n < m \/ (n = m /\ b < f[n].start + (work.i + 1))
      BY <3>2, <3>3, <3>4 DEF Behind
    <3> HIDE DEF f, m
    <3> QED
      BY <1>0, <1>1, <1>2, <1>5, <2>1, <2>2, <2>3, <3>5
  <2>5. CASE ~(work.i + 1 < f[m].count) /\ m < Len(f)
    <3>1. work' = [work EXCEPT !.extent = @ + 1, !.i = 0]
      BY <2>5 DEF NextBlock
    <3>2. work'.file = file /\ work'.extent = m + 1 /\ work'.i = 0
      BY <3>1, <1>3, <1>5
    <3>3. work' # NoWork
      BY <3>2, <1>1 DEF NoWork
    <3>4. Fork' = f
      BY <3>2, <1>5 DEF Fork
    <3>5. Behind(file, n, b)' <=> n < m + 1 \/ (n = m + 1 /\ b < f[n].start + 0)
      BY <3>2, <3>3, <3>4 DEF Behind
    <3> HIDE DEF f, m
    <3>6. CASE n = m
      <4>1. /\ b \in Int /\ b <= f[m].start + f[m].count - 1 /\ f[m].count <= work.i + 1
            /\ f[m].start \in Nat /\ f[m].count \in Nat /\ work.i \in Nat
        BY <1>1, <2>2, <2>5, <3>6
      <4>2. b < f[m].start + work.i \/ b = f[m].start + work.i
        BY <1>6, <4>1
      <4>3. b < f[n].start + work.i \/ b = Lba
        BY <1>2, <3>6, <4>2
      <4>4. Behind(file, n, b)'
        BY <1>1, <3>5, <3>6
      <4> QED
        BY <1>0, <1>5, <2>3, <3>6, <4>3, <4>4
    <3>7. CASE n # m
      <4>1. Behind(file, n, b)' <=> n < m
        BY <1>1, <2>1, <2>2, <3>5, <2>5, <3>7
      <4> QED
        BY <1>0, <2>3, <3>7, <4>1
    <3> QED
      BY <3>6, <3>7
  <2>6. CASE ~(work.i + 1 < f[m].count) /\ ~(m < Len(f))
    <3>1. work' = NoWork
      BY <2>6 DEF NextBlock
    <3>2. Behind(file, n, b)'
      BY <3>1 DEF Behind
    <3> HIDE DEF f, m
    <3>6. CASE n = m
      <4>1. /\ b \in Int /\ b <= f[m].start + f[m].count - 1 /\ f[m].count <= work.i + 1
            /\ f[m].start \in Nat /\ f[m].count \in Nat /\ work.i \in Nat
        BY <1>1, <2>2, <2>6, <3>6
      <4>2. b < f[m].start + work.i \/ b = f[m].start + work.i
        BY <1>6, <4>1
      <4>3. b < f[n].start + work.i \/ b = Lba
        BY <1>2, <3>6, <4>2
      <4>4. Behind(file, n, b)'
        BY <1>1, <3>2, <3>6
      <4> QED
        BY <1>0, <1>5, <2>3, <3>6, <4>3, <4>4
    <3>7. CASE n # m
      <4>1. Behind(file, n, b)' <=> n < m
        BY <1>1, <2>1, <2>2, <3>2, <2>6, <3>7
      <4> QED
        BY <1>0, <2>3, <3>7, <4>1
    <3> QED
      BY <3>6, <3>7
  <2> QED
    BY <2>4, <2>5, <2>6
<1> QED
  BY <1>4, <1>5

\* So the blocks that are done become one more, or the block was one of them.
LEMMA NextDone ==
    ASSUME volume \in Volumes, WorkOK, work # NoWork, NEW seen,
           FileEntry(work.file) \in seen, Usable(work.file),
           work' = NextBlock, UNCHANGED fixed, NEW b
    PROVE  Done(b, seen)' <=> Done(b, seen) \/ b = Lba
<1>1. volume' = volume /\ (\A file : Usable(file)' <=> Usable(file))
  BY DEF fixed, Usable, Attribute, Unwraps, HasKey, Keys
<1>2. work.file \in DOMAIN volume.forks /\ work.extent \in DOMAIN volume.forks[work.file]
  BY WorkStands DEF Fork
<1>3. Lba \in Blocked(volume.forks[work.file][work.extent])
  BY WorkStands DEF Fork
<1>4. \A file \in DOMAIN volume.forks : \A n \in DOMAIN volume.forks[file] :
         b \in Blocked(volume.forks[file][n]) =>
            (Behind(file, n, b)' <=>
                Behind(file, n, b) \/ (file = work.file /\ n = work.extent /\ b = Lba))
  BY <1>1, NextBehind
<1>5. Done(b, seen)' <=> \E file \in DOMAIN volume.forks : \E n \in DOMAIN volume.forks[file] :
        /\ FileEntry(file) \in seen /\ Usable(file)
        /\ b \in Blocked(volume.forks[file][n]) /\ Behind(file, n, b)'
  BY <1>1 DEF Done, Blocked
<1>6. Done(b, seen) <=> \E file \in DOMAIN volume.forks : \E n \in DOMAIN volume.forks[file] :
        /\ FileEntry(file) \in seen /\ Usable(file)
        /\ b \in Blocked(volume.forks[file][n]) /\ Behind(file, n, b)
  BY DEF Done
<1> QED
  BY <1>2, <1>3, <1>4, <1>5, <1>6

\* The block at which the work stands is not decrypted yet: no fork has it twice
\* and no two forks share it.
LEMMA NotDone ==
    ASSUME volume \in Volumes, ForksApart(volume), WorkOK, work # NoWork, NEW seen
    PROVE  ~Done(Lba, seen)
<1>1. /\ work.file \in DOMAIN volume.forks /\ work.extent \in DOMAIN volume.forks[work.file]
      /\ Lba \in Blocked(volume.forks[work.file][work.extent]) /\ Lba \in Nat
      /\ work.extent \in Nat /\ Lba = Fork[work.extent].start + work.i
  BY WorkStands DEF Fork, Lba
<1>2. SUFFICES ASSUME NEW file \in DOMAIN volume.forks, NEW n \in DOMAIN volume.forks[file],
                      Lba \in Blocked(volume.forks[file][n]), Behind(file, n, Lba)
               PROVE  FALSE
  BY DEF Done
<1>3. <<file, n>> = <<work.file, work.extent>>
  BY <1>1, <1>2 DEF ForksApart
<1>4. file = work.file /\ n = work.extent
  BY <1>3
<1>5. n < work.extent \/ (n = work.extent /\ Lba < Fork[n].start + work.i)
  BY <1>2, <1>4 DEF Behind
<1> QED
  BY <1>1, <1>4, <1>5
-----------------------------------------------------------------------------
Apart(s) == \A i, j \in DOMAIN s : s[i] = s[j] => i = j

\* Without its head a sequence that holds everything once holds everything else once.
LEMMA TailHolds ==
    ASSUME NEW S, NEW s \in Seq(S), s # <<>>, Apart(s)
    PROVE  /\ Apart(Tail(s))
           /\ \A e : e \in Range(Tail(s)) <=> e \in Range(s) /\ e # s[1]
<1>1. /\ Tail(s) \in Seq(S) /\ Len(s) \in Nat /\ Len(s) >= 1 /\ Len(Tail(s)) = Len(s) - 1
      /\ DOMAIN s = 1 .. Len(s) /\ DOMAIN Tail(s) = 1 .. Len(s) - 1
      /\ \A i \in 1 .. Len(s) - 1 : Tail(s)[i] = s[i + 1]
  OBVIOUS
<1>2. Apart(Tail(s))
  BY <1>1 DEF Apart
<1>3. ASSUME NEW e, e \in Range(Tail(s)) PROVE e \in Range(s) /\ e # s[1]
  <2>1. PICK i \in 1 .. Len(s) - 1 : e = Tail(s)[i]
    BY <1>1, <1>3 DEF Range
  <2>2. i + 1 \in 1 .. Len(s) /\ i + 1 # 1 /\ 1 \in 1 .. Len(s) /\ e = s[i + 1]
    BY <1>1, <2>1
  <2> QED
    BY <1>1, <2>2 DEF Apart, Range
<1>4. ASSUME NEW e, e \in Range(s), e # s[1] PROVE e \in Range(Tail(s))
  <2>1. PICK i \in 1 .. Len(s) : e = s[i]
    BY <1>1, <1>4 DEF Range
  <2>2. i - 1 \in 1 .. Len(s) - 1 /\ (i - 1) + 1 = i
    BY <1>1, <1>4, <2>1
  <2>3. Tail(s)[i - 1] = s[i]
    BY <1>1, <2>2
  <2> QED
    BY <1>1, <2>1, <2>2, <2>3 DEF Range
<1> QED
  BY <1>2, <1>3, <1>4

\* Two sequences that share nothing, one behind the other.
LEMMA ConcatHolds ==
    ASSUME NEW S, NEW s \in Seq(S), NEW t \in Seq(S), Apart(s), Apart(t),
           \A e : ~(e \in Range(s) /\ e \in Range(t))
    PROVE  /\ Apart(s \o t)
           /\ \A e : e \in Range(s \o t) <=> e \in Range(s) \/ e \in Range(t)
<1> DEFINE st == s \o t
<1>1. /\ Len(s) \in Nat /\ Len(t) \in Nat
      /\ DOMAIN s = 1 .. Len(s) /\ DOMAIN t = 1 .. Len(t) /\ DOMAIN st = 1 .. Len(s) + Len(t)
      /\ \A i \in 1 .. Len(s) : st[i] = s[i]
      /\ \A i \in Len(s) + 1 .. Len(s) + Len(t) : st[i] = t[i - Len(s)]
  OBVIOUS
<1> HIDE DEF st
<1>2. \A i \in 1 .. Len(t) :
         Len(s) + i \in 1 .. Len(s) + Len(t) /\ st[Len(s) + i] = t[i]
  <2> TAKE i \in 1 .. Len(t)
  <2>1. Len(s) + i \in Len(s) + 1 .. Len(s) + Len(t) /\ (Len(s) + i) - Len(s) = i
    BY <1>1
  <2> QED
    BY <1>1, <2>1
<1>3. \A i \in 1 .. Len(s) : st[i] \in Range(s)
  BY <1>1 DEF Range
<1>4. \A i \in Len(s) + 1 .. Len(s) + Len(t) : i - Len(s) \in 1 .. Len(t) /\ st[i] \in Range(t)
  BY <1>1 DEF Range
<1>5. \A i \in 1 .. Len(s) + Len(t) : i \in 1 .. Len(s) \/ i \in Len(s) + 1 .. Len(s) + Len(t)
  BY <1>1
<1>6. Apart(st)
  <2>1. SUFFICES ASSUME NEW i \in 1 .. Len(s) + Len(t), NEW j \in 1 .. Len(s) + Len(t), st[i] = st[j]
                 PROVE  i = j
    BY <1>1 DEF Apart
  <2>2. CASE i \in 1 .. Len(s) /\ j \in 1 .. Len(s)
    BY <1>1, <2>1, <2>2 DEF Apart
  <2>3. CASE i \in Len(s) + 1 .. Len(s) + Len(t) /\ j \in Len(s) + 1 .. Len(s) + Len(t)
    <3>1. t[i - Len(s)] = t[j - Len(s)]
      BY <1>1, <2>1, <2>3
    <3>2. i - Len(s) = j - Len(s)
      BY <1>1, <1>4, <2>3, <3>1 DEF Apart
    <3> QED
      BY <1>1, <3>2
  <2> QED
    BY <1>3, <1>4, <1>5, <2>1, <2>2, <2>3
<1>7. ASSUME NEW e PROVE e \in Range(st) <=> e \in Range(s) \/ e \in Range(t)
  <2>1. e \in Range(st) => e \in Range(s) \/ e \in Range(t)
    BY <1>1, <1>3, <1>4, <1>5 DEF Range
  <2>2. e \in Range(s) => e \in Range(st)
    <3>1. \A i \in 1 .. Len(s) : i \in 1 .. Len(s) + Len(t)
      BY <1>1
    <3> QED
      BY <1>1, <3>1 DEF Range
  <2>3. e \in Range(t) => e \in Range(st)
    BY <1>1, <1>2 DEF Range
  <2> QED
    BY <2>1, <2>2, <2>3
<1> QED
  BY <1>6, <1>7 DEF st

\* What a folder lists is in no other folder, is not the root, and is there once.
LEMMA ItemsOnce ==
    ASSUME volume \in Volumes, ListedOnce(volume), NEW folder \in DOMAIN volume.items
    PROVE  /\ Apart(volume.items[folder]) /\ volume.items[folder] \in Seq(Visits)
           /\ RootEntry \notin Range(volume.items[folder])
           /\ \A other \in DOMAIN volume.items : \A e :
                 e \in Range(volume.items[folder]) /\ e \in Range(volume.items[other]) => other = folder
<1>1. volume.items[folder] \in Seq(Visits)
  BY ContentsOK, ContentsAreItems
<1>2. Apart(volume.items[folder])
  <2>1. \A m, n \in DOMAIN volume.items[folder] :
           <<folder, m>> # <<folder, n>> => volume.items[folder][m] # volume.items[folder][n]
    BY DEF ListedOnce
  <2> QED
    BY <2>1 DEF Apart
<1>3. RootEntry \notin Range(volume.items[folder])
  BY DEF ListedOnce, Range, RootEntry
<1>4. ASSUME NEW other \in DOMAIN volume.items, NEW e,
             e \in Range(volume.items[folder]), e \in Range(volume.items[other])
      PROVE  other = folder
  <2>1. PICK m \in DOMAIN volume.items[folder], n \in DOMAIN volume.items[other] :
           volume.items[folder][m] = e /\ volume.items[other][n] = e
    BY <1>4 DEF Range
  <2>2. <<folder, m>> = <<other, n>>
    BY <2>1 DEF ListedOnce
  <2> QED
    BY <2>2
<1> QED
  BY <1>1, <1>2, <1>3, <1>4
\* At first the root is visited, and what it lists is to be.
LEMMA WalkStarts ==
    ASSUME volume \in Volumes, ListedOnce(volume), walk' = Contents(Root), UNCHANGED volume
    PROVE  WalkHas({RootEntry})'
<1>1. Root \in DOMAIN volume.items
  BY VolumeAssumption DEF Root
<1>2. walk' = volume.items[Root]
  BY <1>1, ContentsAreItems
<1>3. \A e : Listed(e, {RootEntry})' <=> e \in Range(walk')
  BY <1>2 DEF Listed, RootEntry
<1>4. RootEntry \in Visits
  BY <1>1 DEF RootEntry, Visits
<1>5. Visits' = Visits
  BY DEF Visits
<1>6. Apart(walk') /\ RootEntry \notin Range(walk')
  BY <1>1, <1>2, ItemsOnce
<1> QED
  BY <1>3, <1>4, <1>5, <1>6 DEF WalkHas, Apart

\* Each visit takes one place off the walk, and puts a folder's entries there.
LEMMA WalkGoesOn ==
    ASSUME DecrypterInv, ListedOnce(volume), Visit, NEW seen, WalkHas(seen),
           NEW item, item = walk[1], NEW now, now = seen \cup {item}
    PROVE  WalkHas(now)' /\ item \in Visits /\ item \notin seen
<1>1. volume' = volume /\ Visits' = Visits
  BY DEF Visit, fixed, Visits
<1>2. walk \in Seq(Visits) /\ walk # <<>>
  BY DEF Visit, Running, DecrypterInv, WalkOK
<1>3. item \in Visits /\ Tail(walk) \in Seq(Visits)
  BY <1>2
<1>4. item \in Range(walk) /\ Listed(item, seen) /\ item \notin seen
  <2>1. item \in Range(walk)
    BY <1>2 DEF Range
  <2> QED
    BY <2>1 DEF WalkHas
<1>5. Apart(Tail(walk)) /\ \A e : e \in Range(Tail(walk)) <=> e \in Range(walk) /\ e # item
  <2>1. Apart(walk)
    BY DEF WalkHas, Apart
  <2> QED
    BY <1>2, <2>1, TailHolds
<1>6. \A e : e \in Range(walk) <=> Listed(e, seen) /\ e \notin seen
  BY DEF WalkHas
<1>7. \A e \in seen : e = RootEntry \/ Listed(e, seen)
  BY DEF WalkHas
<1>8. RootEntry \in seen /\ seen \subseteq Visits
  BY DEF WalkHas
<1>9. ASSUME item.type # "folder" PROVE WalkHas(now)'
  <2>1. walk' = Tail(walk)
    BY <1>9 DEF Visit
  <2>2. \A e : Listed(e, now)' <=> Listed(e, seen)
    BY <1>1, <1>9 DEF Listed
  <2>3. \A e : e \in Range(walk') <=> Listed(e, now)' /\ e \notin now
    BY <1>5, <1>6, <2>1, <2>2
  <2>4. \A e \in now : e = RootEntry \/ Listed(e, now)'
    BY <1>4, <1>7, <2>2
  <2>5. RootEntry \in now /\ now \subseteq Visits
    BY <1>3, <1>8
  <2>6. Apart(walk')
    BY <1>5, <2>1
  <2> QED
    BY <1>1, <2>3, <2>4, <2>5, <2>6 DEF WalkHas, Apart
<1>10. ASSUME item.type = "folder" PROVE WalkHas(now)'
  <2> DEFINE own == volume.items[item.id]
  <2>1. item.id \in DOMAIN volume.items /\ item = [type |-> "folder", id |-> item.id]
    BY <1>3, <1>10 DEF Visits
  <2>2. walk' = own \o Tail(walk)
    BY <1>10, <2>1, ContentsAreItems DEF Visit, DecrypterInv
  <2>3. \A e : Listed(e, now)' <=> Listed(e, seen) \/ e \in Range(own)
    BY <1>1, <1>10 DEF Listed
  <2>4. \A e : e \in Range(own) => ~Listed(e, seen)
    <3>1. SUFFICES ASSUME NEW e, e \in Range(own), Listed(e, seen) PROVE FALSE
      OBVIOUS
    <3>2. PICK d \in seen : d.type = "folder" /\ e \in Range(volume.items[d.id])
      BY <3>1 DEF Listed
    <3>3. d.id \in DOMAIN volume.items /\ d = [type |-> "folder", id |-> d.id]
      BY <1>8, <3>2 DEF Visits
    <3>4. d.id = item.id
      BY <2>1, <3>1, <3>2, <3>3, ItemsOnce DEF DecrypterInv
    <3> QED
      BY <1>4, <2>1, <3>3, <3>4
  <2>5. RootEntry \notin Range(own) /\ Apart(own) /\ own \in Seq(Visits)
    BY <2>1, ItemsOnce DEF DecrypterInv
  <2> HIDE DEF own
  <2>6. \A e : e \in Range(own) => e \notin now
    BY <1>4, <1>7, <2>4, <2>5
  <2>7. \A e : ~(e \in Range(own) /\ e \in Range(Tail(walk)))
    BY <1>5, <1>6, <2>4
  <2>8. Apart(walk') /\ \A e : e \in Range(walk') <=> e \in Range(own) \/ e \in Range(Tail(walk))
    BY <1>3, <1>5, <2>2, <2>5, <2>7, ConcatHolds
  <2>9. \A e : e \in Range(walk') <=> Listed(e, now)' /\ e \notin now
    BY <1>5, <1>6, <2>3, <2>6, <2>8
  <2>10. \A e \in now : e = RootEntry \/ Listed(e, now)'
    BY <1>4, <1>7, <2>3
  <2>11. RootEntry \in now /\ now \subseteq Visits
    BY <1>3, <1>8
  <2> QED
    BY <1>1, <2>8, <2>9, <2>10, <2>11 DEF WalkHas, Apart
<1> QED
  BY <1>3, <1>4, <1>9, <1>10
-----------------------------------------------------------------------------
\* What is decrypted is what is to be.
LEMMA DoneIsWanted ==
    ASSUME volume \in Volumes, plist.complete, NEW seen, NEW b, Done(b, seen)
    PROVE  Wanted(b) = "plain"
BY WantedWhen DEF Done

\* Every block is one of the two as long as the run goes on.
LEMMA ProgressIsRight ==
    ASSUME volume \in Volumes, plist.complete, NEW seen, Progress(seen)
    PROVE  \A b \in 0 .. Blocks - 1 : image[b] \in {"raw", Wanted(b)}
BY DoneIsWanted DEF Progress

\* The run begins with nothing done.
LEMMA StartProgress ==
    ASSUME volume \in Volumes, ListedOnce(volume), walk' = Contents(Root),
           UNCHANGED <<volume, image, work>>, work = NoWork,
           \A b \in 0 .. Blocks - 1 : image[b] = "raw"
    PROVE  Progress({RootEntry})'
<1>1. WalkHas({RootEntry})'
  BY WalkStarts
<1>2. \A b : ~Done(b, {RootEntry})'
  BY DEF Done, FileEntry, RootEntry
<1> QED
  BY <1>1, <1>2 DEF Progress

\* A visit decrypts nothing: a folder has no blocks, and the blocks of a file
\* are still in front of the work.
LEMMA VisitProgress ==
    ASSUME DecrypterInv, ListedOnce(volume), Visit, NEW seen, Progress(seen)
    PROVE  \E now : Progress(now)'
<1>0. PICK item : item = walk[1]
  OBVIOUS
<1>1. PICK now : now = seen \cup {item}
  OBVIOUS
<1>2. WalkHas(seen)
  BY DEF Progress
<1>3. WalkHas(now)' /\ item \in Visits /\ item \notin seen
  BY <1>0, <1>1, <1>2, WalkGoesOn
<1>4. UNCHANGED <<volume, plist, image>> /\ work = NoWork
  BY DEF Visit, fixed
<1>5. \A file : Usable(file)' <=> Usable(file)
  BY <1>4 DEF Usable, Attribute, Unwraps, HasKey, Keys
<1>6. ASSUME NEW b PROVE Done(b, seen) <=> \E f \in DOMAIN volume.forks : \E n \in DOMAIN volume.forks[f] :
                 FileEntry(f) \in seen /\ Usable(f) /\ b \in Blocked(volume.forks[f][n])
  BY <1>4 DEF Done, Behind
<1>7. ASSUME NEW b PROVE Done(b, now)' <=> \E f \in DOMAIN volume.forks : \E n \in DOMAIN volume.forks[f] :
                 FileEntry(f) \in now /\ Usable(f) /\ b \in Blocked(volume.forks[f][n]) /\ Behind(f, n, b)'
  BY <1>4, <1>5 DEF Done, Blocked
<1>8. CASE item.type = "folder"
  <2>1. work' = NoWork
    BY <1>0, <1>4, <1>8 DEF Visit
  <2>2. \A f : FileEntry(f) \in now <=> FileEntry(f) \in seen
    BY <1>1, <1>8 DEF FileEntry
  <2>3. \A f, n, b : Behind(f, n, b)'
    BY <2>1 DEF Behind
  <2>4. \A b : Done(b, now)' <=> Done(b, seen)
    BY <1>6, <1>7, <2>2, <2>3
  <2>5. \A b \in 0 .. Blocks - 1 : image'[b] = IF Done(b, now)' THEN "plain" ELSE "raw"
    BY <1>4, <2>4 DEF Progress
  <2> QED
    BY <1>3, <2>1, <2>5 DEF Progress
<1>9. CASE item.type # "folder"
  <2>1. PICK file \in DOMAIN volume.forks : item = FileEntry(file) /\ item.id = file
    BY <1>3, <1>9 DEF Visits, FileEntry
  <2>2. work' = IF Usable(file) /\ volume.forks[file] # <<>>
                THEN [file |-> file, extent |-> 1, i |-> 0] ELSE NoWork
    BY <1>0, <1>9, <2>1 DEF Visit
  <2>3. \A f : FileEntry(f) \in now <=> FileEntry(f) \in seen \/ f = file
    BY <1>1, <2>1 DEF FileEntry
  <2>4. FileEntry(file) \notin seen
    BY <1>3, <2>1
  <2>5. \A f, n, b : f # file => Behind(f, n, b)'
    BY <2>2 DEF Behind
  <2>6. ASSUME NEW n \in DOMAIN volume.forks[file], NEW b \in Blocked(volume.forks[file][n]), Usable(file)
        PROVE  ~Behind(file, n, b)'
    <3>1. volume.forks[file] \in Seq(Extents)
      BY VolumeAssumption DEF DecrypterInv
    <3>2. volume.forks[file] # <<>> /\ n \in Nat /\ n >= 1 /\ volume.forks[file][n] \in Extents
      BY <3>1
    <3>3. work' = [file |-> file, extent |-> 1, i |-> 0] /\ work' # NoWork
      BY <2>2, <2>6, <3>2 DEF NoWork
    <3>4. Fork' = volume.forks[file]
      BY <1>4, <3>3 DEF Fork
    <3>5. volume.forks[file][n].start \in Nat /\ volume.forks[file][n].count \in Nat
      BY <3>2 DEF Extents
    <3>6. b \in Int /\ volume.forks[file][n].start <= b
      BY <3>5 DEF Blocked
    <3>7. Behind(file, n, b)' <=> n < 1 \/ (n = 1 /\ b < volume.forks[file][n].start + 0)
      BY <3>3, <3>4 DEF Behind
    <3> QED
      BY <3>2, <3>5, <3>6, <3>7
  <2>7. \A b : Done(b, now)' <=> Done(b, seen)
    BY <1>6, <1>7, <2>3, <2>4, <2>5, <2>6
  <2>8. \A b \in 0 .. Blocks - 1 : image'[b] = IF Done(b, now)' THEN "plain" ELSE "raw"
    BY <1>4, <2>7 DEF Progress
  <2>9. work' # NoWork => FileEntry(work'.file) \in now /\ Usable(work'.file)
    BY <1>1, <2>1, <2>2
  <2>10. work' # NoWork => (FileEntry(work.file) \in now /\ Usable(work.file))'
    BY <1>5, <2>9 DEF FileEntry
  <2> QED
    BY <1>3, <2>8, <2>10 DEF Progress
<1> QED
  BY <1>8, <1>9

\* Work that goes on stays with its file.
LEMMA NextBlockStays ==
    ASSUME volume \in Volumes, WorkOK, work # NoWork, NEW seen, UNCHANGED fixed,
           FileEntry(work.file) \in seen, Usable(work.file), work' = NextBlock
    PROVE  work' # NoWork => (FileEntry(work.file) \in seen /\ Usable(work.file))'
<1>1. work \in [file : DOMAIN volume.forks, extent : Nat, i : Nat]
  BY DEF WorkOK
<1>2. work' = NoWork \/ work'.file = work.file
  BY <1>1 DEF NextBlock
<1>3. \A file : Usable(file)' <=> Usable(file)
  BY DEF fixed, Usable, Attribute, Unwraps, HasKey, Keys
<1> QED
  BY <1>2, <1>3 DEF FileEntry

\* Reading changes nothing but leaves out a block that the image does not have.
LEMMA ReadProgress ==
    ASSUME DecrypterInv, NoWrap, Read, NEW seen, Progress(seen)
    PROVE  Progress(seen)'
<1>1. UNCHANGED <<volume, plist, image, walk>> /\ UNCHANGED fixed /\ work # NoWork
  BY DEF Read, fixed
<1>2. WalkHas(seen)' /\ FileEntry(work.file) \in seen /\ Usable(work.file)
  BY <1>1 DEF Progress, WalkHas, Visits, Listed
<1>3. CASE At(Lba) < Blocks
  <2>1. work' = work
    BY <1>3 DEF Read
  <2>2. \A b : Done(b, seen)' <=> Done(b, seen)
    BY <1>1, <2>1 DEF Done, Behind, Fork, Blocked, Usable, Attribute, Unwraps, HasKey, Keys
  <2>3. (work # NoWork => FileEntry(work.file) \in seen /\ Usable(work.file))'
    BY <1>1, <1>2, <2>1 DEF FileEntry, Usable, Attribute, Unwraps, HasKey, Keys
  <2> QED
    BY <1>1, <1>2, <2>2, <2>3 DEF Progress
<1>4. CASE ~(At(Lba) < Blocks)
  <2>1. work' = NextBlock
    BY <1>4 DEF Read
  <2>2. \A b : Done(b, seen)' <=> Done(b, seen) \/ b = Lba
    BY <1>1, <1>2, <2>1, NextDone DEF DecrypterInv
  <2>3. Lba \notin 0 .. Blocks - 1
    BY <1>1, <1>4, LbaOwned, EmfAssumption DEF DecrypterInv
  <2>4. (work # NoWork => FileEntry(work.file) \in seen /\ Usable(work.file))'
    BY <1>1, <1>2, <2>1, NextBlockStays DEF DecrypterInv
  <2> QED
    BY <1>1, <1>2, <2>2, <2>3, <2>4 DEF Progress
<1> QED
  BY <1>3, <1>4

\* Writing decrypts the block at which the work stood, which was raw until now.
LEMMA WriteProgress ==
    ASSUME DecrypterInv, NoWrap, ForksApart(volume), Write, NEW seen, Progress(seen)
    PROVE  Progress(seen)'
<1>1. UNCHANGED <<volume, plist, walk>> /\ UNCHANGED fixed /\ work # NoWork /\ work' = NextBlock
  BY DEF Write, fixed, DecrypterInv, BufferOK
<1>2. WalkHas(seen)' /\ FileEntry(work.file) \in seen /\ Usable(work.file)
  BY <1>1 DEF Progress, WalkHas, Visits, Listed
<1>3. ~Done(Lba, seen)
  BY <1>1, NotDone DEF DecrypterInv
<1>4. Lba \in 0 .. Blocks - 1 /\ image[Lba] = "raw"
  BY <1>3, Decrypted DEF Progress
<1>5. image' = [image EXCEPT ![Lba] = "plain"]
  BY <1>4, Decrypted
<1>6. \A b : Done(b, seen)' <=> Done(b, seen) \/ b = Lba
  BY <1>1, <1>2, NextDone DEF DecrypterInv
<1>7. \A b \in 0 .. Blocks - 1 : image'[b] = IF b = Lba THEN "plain" ELSE image[b]
  BY <1>4, <1>5 DEF DecrypterInv, ImageOK
<1>8. \A b \in 0 .. Blocks - 1 : image'[b] = IF Done(b, seen)' THEN "plain" ELSE "raw"
  BY <1>6, <1>7 DEF Progress
<1>9. (work # NoWork => FileEntry(work.file) \in seen /\ Usable(work.file))'
  BY <1>1, <1>2, NextBlockStays DEF DecrypterInv
<1> QED
  BY <1>2, <1>8, <1>9 DEF Progress

\* When there is nothing left to visit every file was visited, so that what is
\* done is all that is wanted.
LEMMA FinishedIsWanted ==
    ASSUME volume \in Volumes, AllHangFromRoot(volume), plist.complete, walk = <<>>, work = NoWork,
           NEW seen, Progress(seen)
    PROVE  \A b \in 0 .. Blocks - 1 : image[b] = Wanted(b)
<1> DEFINE S == {f \in DOMAIN volume.items : [type |-> "folder", id |-> f] \in seen}
<1>1. /\ RootEntry \in seen /\ seen \subseteq Visits
      /\ \A e : Listed(e, seen) => e \in seen
  <2>1. \A e : e \notin Range(walk)
    BY DEF Range
  <2> QED
    BY <2>1 DEF Progress, WalkHas
<1>2. Root \in S
  BY <1>1, VolumeAssumption DEF RootEntry, Root
<1>3. ASSUME NEW f \in S, NEW e \in Range(volume.items[f]) PROVE e \in seen
  <2>1. [type |-> "folder", id |-> f] \in seen
    OBVIOUS
  <2>2. Listed(e, seen)
    BY <2>1 DEF Listed
  <2> QED
    BY <1>1, <2>2
<1>4. ASSUME NEW f \in S, NEW e \in Range(volume.items[f]), e.type = "folder" PROVE e.id \in S
  <2>1. e \in seen /\ e \in Visits
    BY <1>1, <1>3
  <2>2. e.id \in DOMAIN volume.items /\ e = [type |-> "folder", id |-> e.id]
    BY <1>4, <2>1 DEF Visits
  <2> QED
    BY <2>1, <2>2
<1>5. S \in SUBSET DOMAIN volume.items
  OBVIOUS
<1> HIDE DEF S
<1>6. \A file \in DOMAIN volume.forks : \E f \in S : FileEntry(file) \in Range(volume.items[f])
  BY <1>2, <1>4, <1>5 DEF AllHangFromRoot, FileEntry
<1>7. \A file \in DOMAIN volume.forks : FileEntry(file) \in seen
  BY <1>3, <1>6
<1>8. ASSUME NEW b PROVE Done(b, seen) <=> \E f \in DOMAIN volume.forks : \E n \in DOMAIN volume.forks[f] :
                 Usable(f) /\ b \in Blocked(volume.forks[f][n])
  BY <1>7 DEF Done, Behind
<1> QED
  BY <1>8, WantedWhen DEF Progress
-----------------------------------------------------------------------------
\* A walk over places to visit is not the idle one.
LEMMA VisitsAreNotIdle == ASSUME NEW w \in Seq(Visits) PROVE w # <<Idle>>
<1>1. SUFFICES ASSUME w = <<Idle>> PROVE FALSE
  OBVIOUS
<1>2. Idle \in Visits
  BY <1>1
<1> QED
  BY <1>2 DEF Idle, Visits

\* The wanted image depends on volume and keys alone.
LEMMA WantedStays == ASSUME UNCHANGED fixed PROVE \A b : Wanted(b)' = Wanted(b)
BY DEF fixed, Wanted, OwnedBy

\* What is asked of the volumes, in the terms of the lemmas.
LEMMA OrderlyGives ==
    ASSUME OrderlyVolumes, volume \in Volumes
    PROVE  NoWrap /\ ForksApart(volume) /\ ListedOnce(volume) /\ AllHangFromRoot(volume)
BY DEF OrderlyVolumes, Orderly, NoWrap

\* Before the program is started nothing is decrypted and nothing was killed.
LEMMA OnceInit == Init => OnceInv
<1>1. ASSUME Init PROVE OnceInv
  <2>1. DecrypterInv
    BY <1>1, InitOK
  <2>2. /\ runs = 0 /\ deaths = 0 /\ walk = <<Idle>> /\ work = NoWork
        /\ \A b \in 0 .. Blocks - 1 : image[b] = "raw"
    BY <1>1 DEF Init
  <2> QED
    BY <2>1, <2>2 DEF OnceInv, Running
<1> QED
  BY <1>1

\* The first run opens a volume of which nothing is decrypted; without a key
\* file it ends there.
LEMMA OnceStart == ASSUME OrderlyVolumes, OnceInv, Start PROVE OnceInv'
<1>1. /\ UNCHANGED <<volume, plist, image, work, deaths>> /\ UNCHANGED fixed
      /\ ~Running /\ runs' = runs + 1 /\ work = NoWork /\ runs \in Nat /\ deaths \in Nat
      /\ walk' = IF plist.complete THEN Contents(Root) ELSE <<Idle>>
  BY DEF Start, fixed, OnceInv
<1>2. DecrypterInv' /\ volume \in Volumes
  BY StartOK DEF OnceInv, DecrypterInv
<1>3. CASE runs # 0
  <2>1. runs' \in Nat /\ runs' # 0 /\ runs' # 1
    BY <1>1, <1>3
  <2> QED
    BY <1>1, <1>2, <2>1 DEF OnceInv
<1>4. CASE runs = 0
  <2>1. deaths = 0 /\ (\A b \in 0 .. Blocks - 1 : image[b] = "raw") /\ runs' = 1
    BY <1>1, <1>4 DEF OnceInv
  <2>2. CASE plist.complete
    <3>1. walk' = Contents(Root)
      BY <1>1, <2>2
    <3>2. Running'
      BY <1>2, <3>1, ContentsOK, VisitsAreNotIdle, VolumeAssumption DEF Running, Root
    <3>3. Progress({RootEntry})'
      BY <1>1, <1>2, <2>1, <3>1, OrderlyGives, StartProgress
    <3>4. plist'.complete /\ \E seen : Progress(seen)'
      BY <1>1, <2>2, <3>3 DEF RootEntry
    <3> QED
      BY <1>1, <1>2, <2>1, <3>2, <3>4 DEF OnceInv
  <2>3. CASE ~plist.complete
    <3>1. walk' = <<Idle>>
      BY <1>1, <2>3
    <3>2. \A b : Wanted(b)' = "raw"
      BY <1>1, <2>3, WantedStays DEF Wanted
    <3> QED
      BY <1>1, <1>2, <2>1, <3>1, <3>2 DEF OnceInv, Running
  <2> QED
    BY <2>2, <2>3
<1> QED
  BY <1>3, <1>4

\* A step of a run that goes on: it is enough that the first run makes progress.
LEMMA OnceRuns ==
    ASSUME OnceInv, Running, Running', UNCHANGED fixed, UNCHANGED <<runs, deaths>>, DecrypterInv',
           \A seen : Progress(seen) => \E now : Progress(now)'
    PROVE  OnceInv'
<1>1. /\ runs \in Nat /\ deaths \in Nat /\ runs # 0
      /\ runs = 1 => ~(deaths > 0)
      /\ runs = 1 /\ deaths = 0 => plist.complete /\ \E seen : Progress(seen)
  BY DEF OnceInv
<1>2. runs' = 1 /\ deaths' = 0 => plist'.complete /\ \E now : Progress(now)'
  BY <1>1 DEF fixed
<1> QED
  BY <1>1, <1>2 DEF OnceInv

\* A step from one place of the walk to the next.
LEMMA OnceVisit == ASSUME OrderlyVolumes, OnceInv, Visit PROVE OnceInv'
<1>1. Running /\ UNCHANGED fixed /\ UNCHANGED <<runs, deaths, volume>> /\ walk # <<>>
  BY DEF Visit, fixed
<1>2. DecrypterInv /\ DecrypterInv' /\ volume \in Volumes
  BY VisitOK DEF OnceInv, DecrypterInv
<1>3. walk \in Seq(Visits)
  BY <1>1, <1>2 DEF DecrypterInv, WalkOK, Running
<1>4. walk[1] \in Visits /\ Tail(walk) \in Seq(Visits)
  BY <1>1, <1>3
<1>5. walk' \in Seq(Visits)
  <2>1. CASE walk[1].type = "folder"
    <3>1. walk[1].id \in DOMAIN volume.items
      BY <1>4, <2>1 DEF Visits
    <3>2. Contents(walk[1].id) \in Seq(Visits)
      BY <1>2, <3>1, ContentsOK
    <3>3. walk' = Contents(walk[1].id) \o Tail(walk)
      BY <2>1 DEF Visit
    <3> QED
      BY <1>4, <3>2, <3>3
  <2>2. CASE walk[1].type # "folder"
    BY <1>4, <2>2 DEF Visit
  <2> QED
    BY <2>1, <2>2
<1>6. Running'
  BY <1>5, VisitsAreNotIdle DEF Running
<1>7. ASSUME NEW seen, Progress(seen) PROVE \E now : Progress(now)'
  BY <1>2, <1>7, OrderlyGives, VisitProgress
<1> QED
  BY <1>1, <1>2, <1>6, <1>7, OnceRuns

\* A block is read.
LEMMA OnceRead == ASSUME OrderlyVolumes, OnceInv, Read PROVE OnceInv'
<1>1. /\ UNCHANGED fixed /\ UNCHANGED <<runs, deaths, walk>> /\ work # NoWork
  BY DEF Read, fixed
<1>2. DecrypterInv /\ DecrypterInv' /\ volume \in Volumes
  BY ReadOK DEF OnceInv, DecrypterInv
<1>3. Running /\ Running'
  BY <1>1 DEF OnceInv, Running
<1>4. ASSUME NEW seen, Progress(seen) PROVE \E now : Progress(now)'
  <2>1. Progress(seen)'
    BY <1>2, <1>4, OrderlyGives, ReadProgress
  <2> QED
    BY <2>1
<1> QED
  BY <1>1, <1>2, <1>3, <1>4, OnceRuns

\* A block is written.
LEMMA OnceWrite == ASSUME OrderlyVolumes, OnceInv, Write PROVE OnceInv'
<1>1. /\ UNCHANGED fixed /\ UNCHANGED <<runs, deaths, walk>> /\ work # NoWork
  BY DEF Write, fixed, OnceInv, DecrypterInv, BufferOK
<1>2. DecrypterInv /\ DecrypterInv' /\ volume \in Volumes
  BY WriteOK, OrderlyGives DEF OnceInv, DecrypterInv
<1>3. Running /\ Running'
  BY <1>1 DEF OnceInv, Running
<1>4. ASSUME NEW seen, Progress(seen) PROVE \E now : Progress(now)'
  <2>1. Progress(seen)'
    BY <1>2, <1>4, OrderlyGives, WriteProgress
  <2> QED
    BY <2>1
<1> QED
  BY <1>1, <1>2, <1>3, <1>4, OnceRuns

\* The first run ends with the wanted image.
LEMMA OnceFinish == ASSUME OrderlyVolumes, OnceInv, Finish PROVE OnceInv'
<1>1. /\ UNCHANGED fixed /\ UNCHANGED <<runs, deaths, image, volume>> /\ walk = <<>> /\ work = NoWork
      /\ walk' = <<Idle>> /\ work' = NoWork
  BY DEF Finish, fixed
<1>2. DecrypterInv' /\ volume \in Volumes
  BY FinishOK DEF OnceInv, DecrypterInv
<1>3. Running /\ ~Running'
  BY <1>1 DEF Running
<1>4. runs \in Nat /\ deaths \in Nat /\ runs # 0 /\ (runs = 1 => ~(deaths > 0))
  BY <1>3 DEF OnceInv
<1>5. ASSUME runs = 1, deaths = 0 PROVE \A b \in 0 .. Blocks - 1 : image'[b] = Wanted(b)'
  <2>1. PICK seen : plist.complete /\ Progress(seen)
    BY <1>3, <1>5 DEF OnceInv
  <2>2. \A b \in 0 .. Blocks - 1 : image[b] = Wanted(b)
    BY <1>1, <1>2, <2>1, OrderlyGives, FinishedIsWanted
  <2> QED
    BY <1>1, <2>2, WantedStays
<1> QED
  BY <1>1, <1>2, <1>3, <1>4, <1>5 DEF OnceInv

\* A death touches the one block that stdio still has.
LEMMA OnceDeath == ASSUME OrderlyVolumes, OnceInv, Death PROVE OnceInv'
<1>1. /\ UNCHANGED fixed /\ runs' = runs /\ deaths' = deaths + 1 /\ volume' = volume
      /\ walk' = <<Idle>> /\ work' = NoWork /\ Running
  BY DEF Death, fixed
<1>2. DecrypterInv' /\ volume \in Volumes /\ ImageOK
  BY DeathOK DEF OnceInv, DecrypterInv
<1>3. ~Running' /\ deaths' \in Nat /\ deaths' > 0 /\ runs \in Nat /\ runs # 0
  BY <1>1 DEF Running, OnceInv
<1>4. PICK x : \A b \in (0 .. Blocks - 1) \ {x} : image'[b] = image[b]
  <2>1. image' = image \/ \E s : image' = [image EXCEPT ![pending.at] = s]
    BY DEF Death
  <2>2. \A b \in (0 .. Blocks - 1) \ {pending.at} : image'[b] = image[b]
    BY <1>2, <2>1 DEF ImageOK
  <2> QED
    BY <2>2
<1>5. ASSUME runs = 1 PROVE \A b \in (0 .. Blocks - 1) \ {x} : image'[b] \in {"raw", Wanted(b)'}
  <2>1. deaths = 0
    BY <1>1, <1>5 DEF OnceInv
  <2>2. PICK seen : plist.complete /\ Progress(seen)
    BY <1>1, <1>5, <2>1 DEF OnceInv
  <2>3. \A b \in 0 .. Blocks - 1 : image[b] \in {"raw", Wanted(b)}
    BY <1>2, <2>2, ProgressIsRight
  <2> QED
    BY <1>1, <1>4, <2>3, WantedStays
<1> QED
  BY <1>1, <1>2, <1>3, <1>5 DEF OnceInv

\* Every step of the program, and every death.
LEMMA OnceNext == ASSUME OrderlyVolumes, OnceInv, [Next]_vars PROVE OnceInv'
<1>1. CASE UNCHANGED vars
  <2>1. DecrypterInv'
    <3>1. NoWrap
      BY OrderlyGives DEF OnceInv, DecrypterInv
    <3> QED
      BY <3>1, NextOK DEF OnceInv
  <2>2. /\ UNCHANGED <<runs, deaths, image, volume, plist, walk, work>> /\ UNCHANGED fixed
    BY <1>1 DEF vars, fixed
  <2>3. ASSUME NEW seen PROVE Progress(seen)' <=> Progress(seen)
    <3>1. WalkHas(seen)' <=> WalkHas(seen)
      BY <2>2 DEF WalkHas, Listed, Visits
    <3>2. \A file : Usable(file)' <=> Usable(file)
      BY <2>2 DEF Usable, Attribute, Unwraps, HasKey, Keys
    <3>3. \A b : Done(b, seen)' <=> Done(b, seen)
      BY <2>2, <3>2 DEF Done, Behind, Fork, Blocked
    <3> QED
      BY <2>2, <3>1, <3>2, <3>3 DEF Progress, FileEntry
  <2>4. \A b : Wanted(b)' = Wanted(b)
    BY <2>2, WantedStays
  <2> QED
    BY <2>1, <2>2, <2>3, <2>4 DEF OnceInv, Running
<1> QED
  BY <1>1, OnceStart, OnceVisit, OnceRead, OnceWrite, OnceFinish, OnceDeath DEF Next

\* What the invariant says of the image is what is claimed of the first run.
LEMMA OnceIsOnce == OnceInv => EveryFileOnce
<1>1. SUFFICES ASSUME OnceInv, runs = 1 PROVE EveryFileOnce
  BY DEF EveryFileOnce
<1> DEFINE neither == {b \in DOMAIN image : image[b] \notin {"raw", Wanted(b)}}
<1>2. DOMAIN image = 0 .. Blocks - 1 /\ volume \in Volumes /\ deaths \in Nat
  BY <1>1 DEF OnceInv, DecrypterInv, ImageOK
<1>3. deaths = 0 => \A b \in DOMAIN image : image[b] \in {"raw", Wanted(b)}
  BY <1>1, <1>2, ProgressIsRight DEF OnceInv
<1>4. \E x : neither \subseteq {x}
  <2>1. CASE deaths = 0
    BY <1>3, <2>1
  <2>2. CASE deaths > 0
    BY <1>1, <1>2, <2>2 DEF OnceInv
  <2>3. deaths = 0 \/ deaths > 0
    BY <1>2
  <2> HIDE DEF neither
  <2> QED
    BY <2>1, <2>2, <2>3
<1>5. Cardinality(neither) <= 1
  <2>1. PICK x : neither \subseteq {x}
    BY <1>4
  <2>2. IsFiniteSet({x}) /\ Cardinality({x}) = 1
    BY FS_Singleton
  <2>3. Cardinality(neither) <= Cardinality({x})
    BY <2>1, <2>2, FS_Subset
  <2> QED
    BY <2>2, <2>3
<1>6. deaths = 0 /\ ~Running => \A b \in DOMAIN image : image[b] = Wanted(b)
  BY <1>1, <1>2 DEF OnceInv
<1> QED
  BY <1>3, <1>5, <1>6 DEF EveryFileOnce

\* emf_decrypter.c: on a volume whose folders are a tree that has every file once,
\* without links, whose forks share no block and whose offsets fit 32 bits, the
\* first run decrypts every block of every file that has a key, once, and no other
\* block; killed at any step, it leaves at most one block neither raw nor decrypted.
THEOREM EveryFileOnceAlways == ASSUME OrderlyVolumes PROVE Spec => []EveryFileOnce
<1>1. OnceInv /\ [Next]_vars => OnceInv'
  BY OnceNext
<1> QED
  BY OnceInit, <1>1, OnceIsOnce, PTL DEF Spec
=============================================================================
