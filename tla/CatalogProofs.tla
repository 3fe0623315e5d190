--------------------------- MODULE CatalogProofs ----------------------------
(***************************************************************************)
(* The catalog of a volume of any size, with any names, link texts and     *)
(* paths, up to the first call that takes a name twice or moves a folder   *)
(* into itself: between calls threads, valences and the saved counts are   *)
(* exact, no call removes or rewrites a record that is not there, and a    *)
(* death inside a call costs at most one record of another item.           *)
(*                                                                         *)
(* In the middle of a call the records are of no one shape, so the         *)
(* invariant speaks of the call's end: from the image as it is, the writes *)
(* left to make lead, each of them over the records it needs, to an image  *)
(* that is whole.                                                          *)
(***************************************************************************)
EXTENDS Commands, Induction, FiniteSetTheorems, SequenceTheorems

USE InputAssumption

Keys == Nat \X (Names \cup {NoName, VolumeName})
FolderRecs == [kind : {"folder"}, id : Nat, valence : Int]
FileRecs == [kind : {"file"}, id : Nat, link : BOOLEAN]
ThreadRecs == [kind : {"thread"}, parent : Nat, name : Names \cup {VolumeName}]
Recs == FolderRecs \cup FileRecs \cup ThreadRecs

\* Where the thread of `id` says that its item is.
Place(c, id) == <<c[ThreadKey(id)].parent, c[ThreadKey(id)].name>>

-----------------------------------------------------------------------------
(* An image that is whole *)

Typed(c, h) ==
    /\ c = [k \in DOMAIN c |-> c[k]]
    /\ IsFiniteSet(DOMAIN c) /\ DOMAIN c \subseteq Keys
    /\ \A k \in DOMAIN c :
          IF k[2] = NoName THEN c[k] \in ThreadRecs ELSE c[k] \in FolderRecs \cup FileRecs
    /\ h \in [next : {FirstID} \cup (FirstID .. MaxID + 1), files : Nat, folders : Nat]

Rooted(c) == RootKey \in DOMAIN c /\ c[RootKey].kind = "folder" /\ c[RootKey].id = Root

\* Threads lead to items, and every item is where its thread leads.
Linked(c) ==
    /\ \A k \in ItemKeys(c) : ThreadKey(c[k].id) \in DOMAIN c /\ Place(c, c[k].id) = k
    /\ \A k \in DOMAIN c \ ItemKeys(c) :
          Place(c, k[1]) \in ItemKeys(c) /\ c[Place(c, k[1])].id = k[1]

\* An item but the root has a name, an id that was given, and a folder other than
\* itself.
Filed(c, h) ==
    \A k \in Items(c) :
        /\ k[2] \in Names
        /\ c[k].id \in FirstID .. h.next - 1 /\ c[k].id # k[1]
        /\ ThreadKey(k[1]) \in DOMAIN c /\ c[Place(c, k[1])].kind = "folder"

Children(c, id) == {j \in Items(c) : j[1] = id}
\* A folder's valence counts the items in it and the renames inside it.
Valences(c, drift) ==
    \A k \in ItemKeys(c) : c[k].kind = "folder" =>
        c[k].valence = drift[c[k].id] + Cardinality(Children(c, c[k].id))
Fresh(h, drift) ==
    drift \in [{Root} \cup Ids -> Nat] /\ \A i \in Ids : i >= h.next => drift[i] = 0
Counts(c, h) ==
    /\ h.files = Cardinality(Kind(c, "file"))
    /\ h.folders = Cardinality(Kind(c, "folder"))

Good(c, h, drift) ==
    /\ Typed(c, h) /\ Rooted(c) /\ Linked(c) /\ Filed(c, h)
    /\ Valences(c, drift) /\ Fresh(h, drift) /\ Counts(c, h)

-----------------------------------------------------------------------------
(* What a write makes of an image *)

With(c, key, rec) == [k \in DOMAIN c \cup {key} |-> IF k = key THEN rec ELSE c[k]]
Without(c, key) == Restrict(c, DOMAIN c \ {key})

\* The item that a record belongs to.
Owner(key, rec) == IF rec.kind = "thread" THEN key[1] ELSE rec.id
SameItem(rec, old) == rec.kind = old.kind /\ (old.kind # "thread" => rec.id = old.id)

Writes ==
    [op : {"add"}, key : Keys, rec : Recs] \cup [op : {"remove"}, key : Keys]
    \cup [op : {"update"}, rec : FolderRecs \cup FileRecs]
    \cup [op : {"text"}, id : Ids, text : Seq(Names)]
    \cup [op : {"count"}, kind : {"folder", "file"}] \cup [op : {"save"}]

Image(c, h, s) == [catalog |-> c, header |-> h, saved |-> s]

AddTo(w, g, new) ==
    /\ w.op = "add" /\ w.key \notin DOMAIN g.catalog
    /\ new = Image(With(g.catalog, w.key, w.rec), g.header, g.saved)
RemoveFrom(item, w, g, new) ==
    /\ w.op = "remove" /\ w.key \in DOMAIN g.catalog
    /\ Owner(w.key, g.catalog[w.key]) = item
    /\ new = Image(Without(g.catalog, w.key), g.header, g.saved)
UpdateIn(w, g, new) ==
    /\ w.op = "update"
    /\ ThreadKey(w.rec.id) \in DOMAIN g.catalog /\ Place(g.catalog, w.rec.id) \in DOMAIN g.catalog
    /\ SameItem(w.rec, g.catalog[Place(g.catalog, w.rec.id)])
    /\ Place(g.catalog, w.rec.id) \in Keys
    /\ new = Image(With(g.catalog, Place(g.catalog, w.rec.id), w.rec), g.header, g.saved)
CountIn(w, g, new) ==
    /\ w.op = "count"
    /\ new = Image(g.catalog,
                   IF w.kind = "folder" THEN [g.header EXCEPT !.folders = g.header.folders - 1]
                   ELSE [g.header EXCEPT !.files = g.header.files - 1],
                   g.saved)
SaveIn(w, g, new) == w.op = "save" /\ new = Image(g.catalog, g.header, g.header)

\* The effect of write `w` of a call about `item`, if the records it needs are there.
Effect(item, w, g, new) ==
    /\ w \in Writes
    /\ \/ AddTo(w, g, new)
       \/ RemoveFrom(item, w, g, new)
       \/ UpdateIn(w, g, new)
       \/ CountIn(w, g, new)
       \/ SaveIn(w, g, new)
       \/ w.op = "text" /\ new = g

\* `tr` holds the images between the writes of `s`.
Trace(tr, item, s, from, to) ==
    /\ tr[0] = from /\ tr[Len(s)] = to
    /\ \A i \in 1 .. Len(s) : Effect(item, s[i], tr[i - 1], tr[i])
Leads(item, s, from, to) == s \in Seq(Writes) /\ \E tr : Trace(tr, item, s, from, to)

\* No writes leave the image as it is.
LEMMA LeadsEmpty ==
  ASSUME NEW item, NEW g, NEW new, Leads(item, <<>>, g, new)
  PROVE  new = g
BY DEF Leads, Trace

\* One write leads to what it makes of the image.
LEMMA LeadsOne ==
  ASSUME NEW item, NEW w, NEW g, NEW new, Effect(item, w, g, new)
  PROVE  Leads(item, <<w>>, g, new)
<1> DEFINE tr == [i \in 0 .. 1 |-> IF i = 0 THEN g ELSE new]
<1>1. w \in Writes
  BY DEF Effect
<1>2. Trace(tr, item, <<w>>, g, new)
  <2>1. tr[0] = g /\ tr[1] = new
    OBVIOUS
  <2> HIDE DEF tr
  <2>2. QED BY <2>1 DEF Trace
<1>3. <<w>> \in Seq(Writes)
  <2> HIDE DEF tr
  <2> QED BY <1>1
<1>4. QED BY <1>2, <1>3 DEF Leads

\* Writes one behind the other lead from where the first ones lead.
LEMMA LeadsThen ==
  ASSUME NEW item, NEW s, NEW t, NEW g, NEW mid, NEW new,
         Leads(item, s, g, mid), Leads(item, t, mid, new)
  PROVE  Leads(item, s \o t, g, new)
<1>1. s \in Seq(Writes) /\ t \in Seq(Writes) /\ Len(s) \in Nat /\ Len(t) \in Nat
  BY DEF Leads
<1>2. PICK one : Trace(one, item, s, g, mid)
  BY DEF Leads
<1>3. PICK two : Trace(two, item, t, mid, new)
  BY DEF Leads
<1> DEFINE tr == [i \in 0 .. Len(s) + Len(t) |-> IF i <= Len(s) THEN one[i] ELSE two[i - Len(s)]]
<1>4. s \o t \in Seq(Writes) /\ Len(s \o t) = Len(s) + Len(t)
  BY <1>1
<1>5. tr[0] = g /\ tr[Len(s)] = mid /\ tr[Len(s) + Len(t)] = new
  <2>1. one[0] = g /\ one[Len(s)] = mid /\ two[0] = mid /\ two[Len(t)] = new
    BY <1>2, <1>3 DEF Trace
  <2>2. tr[0] = one[0] /\ tr[Len(s)] = one[Len(s)]
    BY <1>1
  <2>3. CASE Len(t) = 0
    BY <1>1, <2>1, <2>2, <2>3
  <2>4. CASE Len(t) # 0
    <3>1. Len(s) + Len(t) \in 0 .. Len(s) + Len(t) /\ ~(Len(s) + Len(t) <= Len(s))
          /\ Len(s) + Len(t) - Len(s) = Len(t)
      BY <1>1, <2>4
    <3>2. tr[Len(s) + Len(t)] = two[Len(t)]
      BY <3>1
    <3>3. QED BY <2>1, <2>2, <3>2
  <2>5. QED BY <2>3, <2>4
<1>6. ASSUME NEW i \in 1 .. Len(s) + Len(t) PROVE Effect(item, (s \o t)[i], tr[i - 1], tr[i])
  <2>1. CASE i <= Len(s)
    <3>1. (s \o t)[i] = s[i] /\ i \in 1 .. Len(s) /\ tr[i - 1] = one[i - 1] /\ tr[i] = one[i]
      BY <1>1, <2>1
    <3>2. QED BY <1>2, <3>1 DEF Trace
  <2>2. CASE i > Len(s)
    <3> DEFINE j == i - Len(s)
    <3>1. (s \o t)[i] = t[j] /\ j \in 1 .. Len(t) /\ tr[i] = two[j]
      BY <1>1, <2>2
    <3>2. tr[i - 1] = two[j - 1]
      <4>1. CASE j = 1
        BY <1>1, <1>2, <1>3, <4>1 DEF Trace
      <4>2. CASE j # 1
        <5>1. i - 1 \in 0 .. Len(s) + Len(t) /\ ~(i - 1 <= Len(s)) /\ i - 1 - Len(s) = j - 1
          BY <1>1, <2>2, <4>2
        <5>2. QED BY <5>1
      <4>3. QED BY <4>1, <4>2
    <3>3. QED BY <1>3, <3>1, <3>2 DEF Trace
  <2>3. QED BY <1>1, <2>1, <2>2
<1> HIDE DEF tr
<1>7. Trace(tr, item, s \o t, g, new)
  BY <1>4, <1>5, <1>6 DEF Trace
<1>8. QED BY <1>4, <1>7 DEF Leads

\* What the first of the writes does, and the rest from there.
LEMMA LeadsHead ==
  ASSUME NEW item, NEW s, NEW g, NEW new, Leads(item, s, g, new), s # <<>>
  PROVE  /\ s \in Seq(Writes) /\ Head(s) \in Writes /\ Tail(s) \in Seq(Writes)
         /\ \E mid : Effect(item, Head(s), g, mid) /\ Leads(item, Tail(s), mid, new)
<1>1. s \in Seq(Writes) /\ Tail(s) \in Seq(Writes) /\ Head(s) \in Writes
      /\ Len(s) \in Nat /\ Len(s) > 0 /\ Len(Tail(s)) = Len(s) - 1 /\ Head(s) = s[1]
  BY DEF Leads
<1>2. PICK tr : Trace(tr, item, s, g, new)
  BY DEF Leads
<1> DEFINE rest == [i \in 0 .. Len(s) - 1 |-> tr[i + 1]]
<1>3. Trace(rest, item, Tail(s), tr[1], new)
  <2>1. rest[0] = tr[1] /\ rest[Len(s) - 1] = new
    BY <1>1, <1>2 DEF Trace
  <2>2. ASSUME NEW i \in 1 .. Len(s) - 1 PROVE Effect(item, Tail(s)[i], rest[i - 1], rest[i])
    <3>1. Tail(s)[i] = s[i + 1] /\ i + 1 \in 1 .. Len(s) /\ i + 1 - 1 = i
      BY <1>1
    <3>2. rest[i - 1] = tr[i] /\ rest[i] = tr[i + 1]
      BY <1>1
    <3>3. Effect(item, s[i + 1], tr[i + 1 - 1], tr[i + 1])
      BY <1>2, <3>1 DEF Trace
    <3>4. QED
      <4> HIDE DEF rest
      <4> QED BY <3>1, <3>2, <3>3
  <2> HIDE DEF rest
  <2>3. QED BY <1>1, <2>1, <2>2 DEF Trace
<1>4. Effect(item, Head(s), g, tr[1])
  BY <1>1, <1>2 DEF Trace
<1>5. QED BY <1>1, <1>3, <1>4 DEF Leads

-----------------------------------------------------------------------------
(* Whole images *)

\* Keys of records: a name makes an item, none a thread.
LEMMA KeyFacts ==
  ASSUME NEW c, NEW h, NEW drift, Typed(c, h)
  PROVE  /\ \A k \in ItemKeys(c) :
               /\ k \in DOMAIN c /\ k \in Keys /\ k = <<k[1], k[2]>> /\ k[1] \in Nat /\ k[2] # NoName
               /\ c[k] \in FolderRecs \cup FileRecs /\ c[k].id \in Nat
               /\ c[k].kind \in {"folder", "file"}
         /\ \A k \in DOMAIN c \ ItemKeys(c) :
               /\ k = ThreadKey(k[1]) /\ k[1] \in Nat
               /\ c[k] \in ThreadRecs /\ c[k].kind = "thread"
         /\ \A id : ThreadKey(id) \in DOMAIN c =>
               /\ ThreadKey(id) \in DOMAIN c \ ItemKeys(c) /\ ThreadKey(id)[1] = id
               /\ id \in Nat /\ Place(c, id) \in Keys
<1>1. \A k \in DOMAIN c : k \in Keys /\ k = <<k[1], k[2]>> /\ k[1] \in Nat
                          /\ k[2] \in Names \cup {NoName, VolumeName}
  BY DEF Typed, Keys
<1>2. ASSUME NEW k \in ItemKeys(c)
      PROVE  /\ k \in DOMAIN c /\ k[2] # NoName
             /\ c[k] \in FolderRecs \cup FileRecs /\ c[k].id \in Nat
             /\ c[k].kind \in {"folder", "file"}
  BY DEF Typed, ItemKeys, FolderRecs, FileRecs
<1>3. ASSUME NEW k \in DOMAIN c \ ItemKeys(c)
      PROVE  /\ k[2] = NoName /\ c[k] \in ThreadRecs /\ c[k].kind = "thread"
  BY DEF Typed, ItemKeys, ThreadRecs
<1>4. ASSUME NEW id, ThreadKey(id) \in DOMAIN c
      PROVE  /\ ThreadKey(id) \in DOMAIN c \ ItemKeys(c) /\ ThreadKey(id)[1] = id
             /\ id \in Nat /\ Place(c, id) \in Keys
  <2>1. ThreadKey(id)[1] = id /\ ThreadKey(id)[2] = NoName
    BY DEF ThreadKey
  <2>2. ThreadKey(id) \in DOMAIN c \ ItemKeys(c) /\ id \in Nat
    BY <1>1, <1>4, <2>1 DEF ItemKeys
  <2>3. c[ThreadKey(id)] \in ThreadRecs
    BY <1>3, <2>2
  <2>4. Place(c, id) \in Keys
    BY <2>3 DEF Place, Keys, ThreadRecs
  <2>5. QED BY <2>1, <2>2, <2>4
<1>5. QED BY <1>1, <1>2, <1>3, <1>4 DEF ThreadKey

\* In a whole image ids name items.
LEMMA GoodFacts ==
  ASSUME NEW c, NEW h, NEW drift, Good(c, h, drift)
  PROVE  /\ \A k \in ItemKeys(c) :
               /\ c[k].id \in Root .. h.next - 1
               /\ ThreadKey(c[k].id) \in DOMAIN c /\ Place(c, c[k].id) = k
               /\ c[k].id = Root <=> k = RootKey
         /\ \A k \in Items(c) : k \in ItemKeys(c) /\ k # RootKey
         /\ \A j, k \in ItemKeys(c) : c[j].id = c[k].id => j = k
         /\ \A id : ThreadKey(id) \in DOMAIN c =>
               /\ Place(c, id) \in ItemKeys(c) /\ c[Place(c, id)].id = id
               /\ id \in Root .. h.next - 1
         /\ RootKey \in ItemKeys(c) /\ h.next \in Nat /\ h.next >= FirstID
<1>1. RootKey \in ItemKeys(c)
  BY DEF Good, Rooted, ItemKeys, RootKey
<1>2. h.next \in {FirstID} \cup (FirstID .. MaxID + 1) /\ FirstID = 3 /\ Root = 2 /\ MaxID \in Nat
  BY DEF Good, Typed, FirstID, Root
<1>3. \A k \in ItemKeys(c) : ThreadKey(c[k].id) \in DOMAIN c /\ Place(c, c[k].id) = k
  BY DEF Good, Linked
<1>4. \A j, k \in ItemKeys(c) : c[j].id = c[k].id => j = k
  BY <1>3
<1>5. \A k \in ItemKeys(c) : k # RootKey => c[k].id \in FirstID .. h.next - 1
  BY DEF Good, Filed, Items
<1>6. c[RootKey].id = Root
  BY DEF Good, Rooted
<1>7. \A k \in ItemKeys(c) : c[k].id \in Root .. h.next - 1 /\ (c[k].id = Root <=> k = RootKey)
  BY <1>1, <1>2, <1>4, <1>5, <1>6
<1>8. ASSUME NEW id, ThreadKey(id) \in DOMAIN c
      PROVE  Place(c, id) \in ItemKeys(c) /\ c[Place(c, id)].id = id /\ id \in Root .. h.next - 1
  <2>1. ThreadKey(id) \in DOMAIN c \ ItemKeys(c) /\ ThreadKey(id)[1] = id
    BY <1>8, KeyFacts DEF Good
  <2>2. Place(c, id) \in ItemKeys(c) /\ c[Place(c, id)].id = id
    BY <2>1 DEF Good, Linked
  <2>3. QED BY <1>7, <2>2
<1>9. QED BY <1>1, <1>2, <1>3, <1>4, <1>7, <1>8 DEF Items

\* Every item may have seen renames, an id not yet given has seen none.
LEMMA DriftFacts ==
  ASSUME NEW c, NEW h, NEW drift, Good(c, h, drift)
  PROVE  /\ drift \in [{Root} \cup Ids -> Nat]
         /\ \A k \in ItemKeys(c) : c[k].id \in {Root} \cup Ids /\ drift[c[k].id] \in Nat
         /\ h.next \in Ids => drift[h.next] = 0
<1>1. drift \in [{Root} \cup Ids -> Nat] /\ \A i \in Ids : i >= h.next => drift[i] = 0
  BY DEF Good, Fresh
<1>2. h.next \in {FirstID} \cup (FirstID .. MaxID + 1) /\ MaxID \in Nat /\ FirstID = 3 /\ Root = 2
  BY DEF Good, Typed, FirstID, Root
<1>3. Ids = FirstID .. MaxID
  BY DEF Ids
<1>4. \A k \in ItemKeys(c) : c[k].id \in Root .. h.next - 1
  BY GoodFacts
<1>5. \A k \in ItemKeys(c) : c[k].id \in {Root} \cup Ids
  <2> SUFFICES ASSUME NEW n \in Root .. h.next - 1 PROVE n \in {Root} \cup Ids
    BY <1>4
  <2>1. CASE h.next = FirstID
    BY <1>2, <2>1
  <2>2. CASE h.next \in FirstID .. MaxID + 1
    BY <1>2, <1>3, <2>2
  <2>3. QED BY <1>2, <2>1, <2>2
<1>6. h.next \in Ids => h.next >= h.next
  BY <1>2, <1>3
<1>7. QED BY <1>1, <1>5, <1>6

\* The children of an item and the items of a kind are finitely many.
LEMMA FiniteItems ==
  ASSUME NEW c, NEW h, NEW drift, Typed(c, h)
  PROVE  /\ \A id : IsFiniteSet(Children(c, id)) /\ Cardinality(Children(c, id)) \in Nat
         /\ \A kind : IsFiniteSet(Kind(c, kind)) /\ Cardinality(Kind(c, kind)) \in Nat
<1>1. IsFiniteSet(DOMAIN c)
  BY DEF Typed
<1>2. \A id : Children(c, id) \subseteq DOMAIN c
  BY DEF Children, Items, ItemKeys
<1>3. \A kind : Kind(c, kind) \subseteq DOMAIN c
  BY DEF Kind, Items, ItemKeys
<1>4. QED BY <1>1, <1>2, <1>3, FS_Subset, FS_CardinalityType

\* The counts of a header after a new item of the kind.
Counted(h, kind) ==
    [next |-> h.next + 1,
     files |-> IF kind = "file" THEN h.files + 1 ELSE h.files,
     folders |-> IF kind = "folder" THEN h.folders + 1 ELSE h.folders]

\* A new item in a folder makes a whole image again.
LEMMA GoodAdd ==
  ASSUME NEW c, NEW h, NEW drift, NEW at \in ItemKeys(c), NEW name \in Names, NEW rec \in FolderRecs \cup FileRecs,
         NEW d, Good(c, h, drift), h.next \in Ids, c[at].kind = "folder",
         <<c[at].id, name>> \notin DOMAIN c,
         rec.id = h.next, rec.kind = "folder" => rec.valence = 0,
         d = With(With(With(c, <<c[at].id, name>>, rec), ThreadKey(h.next), Thread(c[at].id, name)),
                  at, More(c[at]))
  PROVE  Good(d, Counted(h, rec.kind), drift)
<1> DEFINE N == h.next
           P == c[at].id
           K == <<P, name>>
           T == ThreadKey(N)
           h2 == Counted(h, rec.kind)
<1>1. Typed(c, h)
  BY DEF Good
<1>2. N \in Nat /\ N \in FirstID .. MaxID /\ P \in Root .. N - 1 /\ P \in Nat /\ P # N
      /\ FirstID = 3 /\ Root = 2 /\ MaxID \in Nat
  BY GoodFacts DEF Ids, FirstID, Root
<1>3. K[1] = P /\ K[2] = name /\ name # NoName /\ K \in Keys /\ K # RootKey
  BY <1>2 DEF Keys, RootKey
<1>4. T[1] = N /\ T[2] = NoName /\ T \in Keys /\ T # K /\ T # RootKey
  BY <1>2, <1>3 DEF Keys, RootKey, ThreadKey
<1>5. T \notin DOMAIN c
  BY <1>2, GoodFacts
<1>6. at \in DOMAIN c /\ c[at] \in FolderRecs /\ at # K /\ at # T /\ at[2] # NoName
      /\ More(c[at]) \in FolderRecs /\ More(c[at]).id = P /\ More(c[at]).kind = "folder"
      /\ More(c[at]).valence = c[at].valence + 1
  <2>1. at \in DOMAIN c /\ c[at] \in FolderRecs \cup FileRecs /\ at[2] # NoName
    BY <1>1, KeyFacts
  <2>2. c[at] \in FolderRecs
    BY <2>1 DEF FolderRecs, FileRecs
  <2>3. More(c[at]) \in FolderRecs /\ More(c[at]).id = P /\ More(c[at]).kind = "folder"
        /\ More(c[at]).valence = c[at].valence + 1
    BY <2>2 DEF More, FolderRecs
  <2>4. QED BY <1>5, <2>1, <2>2, <2>3
<1> DEFINE thread == Thread(P, name)
           more == More(c[at])
<1>7. thread \in ThreadRecs /\ thread.parent = P /\ thread.name = name
  BY <1>2 DEF Thread, ThreadRecs
<1>8. d = [k \in DOMAIN c \cup {K, T} |->
             IF k = at THEN more ELSE IF k = T THEN thread ELSE IF k = K THEN rec ELSE c[k]]
  <2> HIDE DEF N, P, K, T, thread, more
  <2>1. d = With(With(With(c, K, rec), T, thread), at, more)
    BY DEF N, P, K, T, thread, more
  <2>2. QED BY <1>6, <2>1 DEF With
<1> HIDE DEF N, P, K, T, thread, more
<1>9. DOMAIN d = DOMAIN c \cup {K, T} /\ d[at] = more /\ d[T] = thread /\ d[K] = rec
      /\ \A k \in DOMAIN c : k # at => d[k] = c[k]
  <2>1. K \notin DOMAIN c
    BY DEF K, P
  <2>2. QED BY <1>4, <1>5, <1>6, <1>8, <2>1
<1>10. ItemKeys(d) = ItemKeys(c) \cup {K} /\ Items(d) = Items(c) \cup {K}
  BY <1>3, <1>4, <1>9 DEF ItemKeys, Items
<1>11. K \notin ItemKeys(c)
  BY DEF K, P, ItemKeys
<1>12. h2 \in [next : {FirstID} \cup (FirstID .. MaxID + 1), files : Nat, folders : Nat] /\ h2.next = N + 1
       /\ h2.files = (IF rec.kind = "file" THEN h.files + 1 ELSE h.files)
       /\ h2.folders = (IF rec.kind = "folder" THEN h.folders + 1 ELSE h.folders)
  <2>1. h.files \in Nat /\ h.folders \in Nat
    BY <1>1 DEF Typed
  <2>2. N + 1 \in {FirstID} \cup (FirstID .. MaxID + 1)
    BY <1>2
  <2>3. QED BY <2>1, <2>2 DEF Counted, N
<1> HIDE DEF h2
<1>13. Typed(d, h2)
  <2>1. IsFiniteSet(DOMAIN d)
    <3>1. IsFiniteSet(DOMAIN c) /\ DOMAIN d = (DOMAIN c \cup {K}) \cup {T}
      BY <1>1, <1>9 DEF Typed
    <3>2. IsFiniteSet(DOMAIN c \cup {K})
      BY <3>1, FS_AddElement
    <3>3. IsFiniteSet((DOMAIN c \cup {K}) \cup {T})
      BY <3>2, FS_AddElement
    <3>4. QED BY <3>1, <3>3
  <2>2. d = [k \in DOMAIN d |-> d[k]]
    BY <1>8
  <2>3. DOMAIN d \subseteq Keys
    BY <1>1, <1>3, <1>4, <1>9 DEF Typed
  <2>4. ASSUME NEW k \in DOMAIN d
        PROVE  IF k[2] = NoName THEN d[k] \in ThreadRecs ELSE d[k] \in FolderRecs \cup FileRecs
    BY <1>1, <1>3, <1>4, <1>6, <1>7, <1>9 DEF Typed, more
  <2>5. QED BY <1>12, <2>1, <2>2, <2>3, <2>4 DEF Typed
<1>14. Rooted(d)
  BY <1>6, <1>9 DEF Good, Rooted, more, P
\* The threads of c's items lead where they led.
<1>15. \A k \in ItemKeys(d) : k # K => k \in ItemKeys(c) /\ d[k].id = c[k].id /\ d[k].kind = c[k].kind
  BY <1>6, <1>9, <1>10 DEF more, P, ItemKeys
<1>16. \A id : ThreadKey(id) \in DOMAIN c => Place(d, id) = Place(c, id) /\ ThreadKey(id) \in DOMAIN d
  <2>1. \A id : ThreadKey(id) \in DOMAIN c => ThreadKey(id) # at
    BY <1>6 DEF ThreadKey
  <2>2. QED BY <1>9, <2>1 DEF Place
<1>17. Place(d, N) = K /\ ThreadKey(N) \in DOMAIN d
  BY <1>7, <1>9 DEF Place, T, K
<1>18. Linked(d)
  <2>1. ASSUME NEW k \in ItemKeys(d)
        PROVE  ThreadKey(d[k].id) \in DOMAIN d /\ Place(d, d[k].id) = k
    <3>1. CASE k = K
      BY <1>9, <1>17, <3>1 DEF N
    <3>2. CASE k # K
      BY <1>15, <1>16, <3>2, GoodFacts
    <3>3. QED BY <3>1, <3>2
  <2>2. ASSUME NEW k \in DOMAIN d \ ItemKeys(d)
        PROVE  Place(d, k[1]) \in ItemKeys(d) /\ d[Place(d, k[1])].id = k[1]
    <3>1. CASE k = T
      BY <1>4, <1>9, <1>10, <1>17, <3>1 DEF N
    <3>2. CASE k # T
      <4>1. k \in DOMAIN c \ ItemKeys(c)
        BY <1>3, <1>9, <1>10, <3>2 DEF ItemKeys
      <4>2. ThreadKey(k[1]) \in DOMAIN c
        BY <1>1, <4>1, KeyFacts
      <4>3. Place(c, k[1]) \in ItemKeys(c) /\ c[Place(c, k[1])].id = k[1]
        BY <4>2, GoodFacts
      <4>4. QED BY <1>10, <1>11, <1>15, <1>16, <4>2, <4>3
    <3>3. QED BY <3>1, <3>2
  <2>3. QED BY <2>1, <2>2 DEF Linked
<1>19. Filed(d, h2)
  <2> SUFFICES ASSUME NEW k \in Items(d)
               PROVE  /\ k[2] \in Names
                      /\ d[k].id \in FirstID .. h2.next - 1 /\ d[k].id # k[1]
                      /\ ThreadKey(k[1]) \in DOMAIN d /\ d[Place(d, k[1])].kind = "folder"
    BY DEF Filed
  <2>1. CASE k = K
    <3>1. ThreadKey(P) \in DOMAIN c /\ Place(c, P) = at
      BY GoodFacts DEF P
    <3>2. d[Place(d, P)].kind = "folder"
      BY <1>6, <1>9, <1>16, <3>1 DEF more
    <3>3. d[k].id = N
      BY <1>9, <2>1 DEF N
    <3>4. N \in FirstID .. h2.next - 1
      BY <1>2, <1>12
    <3>5. k[2] \in Names /\ k[1] = P /\ N # P
      BY <1>2, <1>3, <2>1
    <3>6. ThreadKey(P) \in DOMAIN d
      BY <1>16, <3>1
    <3>7. QED BY ONLY <3>2, <3>3, <3>4, <3>5, <3>6
  <2>2. CASE k # K
    <3>1. k \in Items(c) /\ k \in ItemKeys(d)
      BY <1>10, <2>2 DEF Items
    <3>2. /\ k[2] \in Names
          /\ c[k].id \in FirstID .. h.next - 1 /\ c[k].id # k[1]
          /\ ThreadKey(k[1]) \in DOMAIN c /\ c[Place(c, k[1])].kind = "folder"
      BY <3>1 DEF Good, Filed
    <3>3. Place(c, k[1]) \in ItemKeys(c)
      BY <3>2, GoodFacts
    <3>4. d[Place(d, k[1])].kind = "folder" /\ ThreadKey(k[1]) \in DOMAIN d
      BY <1>10, <1>11, <1>15, <1>16, <3>2, <3>3
    <3>5. d[k].id \in FirstID .. h2.next - 1
      <4>1. d[k].id = c[k].id /\ c[k].id \in FirstID .. N - 1
        BY <1>15, <2>2, <3>1, <3>2 DEF N
      <4>2. QED BY <1>2, <1>12, <4>1
    <3>6. QED BY <1>15, <2>2, <3>1, <3>2, <3>4, <3>5
  <2>3. QED BY <2>1, <2>2
<1>20. Valences(d, drift)
  <2> SUFFICES ASSUME NEW k \in ItemKeys(d), d[k].kind = "folder"
               PROVE  d[k].valence = drift[d[k].id] + Cardinality(Children(d, d[k].id))
    BY DEF Valences
  <2>1. CASE k = K
    <3>1. d[k].id = N /\ d[k].valence = 0
      BY <1>9, <2>1 DEF N
    <3>2. Children(d, N) = {}
      <4> SUFFICES ASSUME NEW j \in Items(d), j[1] = N PROVE FALSE
        BY DEF Children
      <4>1. j \in Items(c)
        BY <1>2, <1>3, <1>10
      <4>2. ThreadKey(N) \in DOMAIN c
        BY <4>1 DEF Good, Filed
      <4>3. QED BY <1>5, <4>2 DEF T
    <3>3. drift[N] = 0
      BY DriftFacts DEF N
    <3>4. Cardinality({}) = 0
      BY FS_EmptySet
    <3>5. QED BY ONLY <3>1, <3>2, <3>3, <3>4
  <2>2. CASE k = at
    <3>1. Children(d, P) = Children(c, P) \cup {K} /\ K \notin Children(c, P)
      BY <1>3, <1>10, <1>11 DEF Children, Items
    <3>2. c[at].valence = drift[P] + Cardinality(Children(c, P)) /\ Cardinality(Children(c, P)) \in Nat
          /\ drift[P] \in Nat
      BY <1>1, FiniteItems, DriftFacts DEF Good, Valences, P
    <3>3. Cardinality(Children(d, P)) = Cardinality(Children(c, P)) + 1
      BY <1>1, <3>1, FiniteItems, FS_AddElement
    <3>4. QED BY <1>6, <1>9, <2>2, <3>2, <3>3 DEF more
  <2>3. CASE k # K /\ k # at
    <3>1. k \in ItemKeys(c) /\ d[k] = c[k]
      BY <1>9, <1>15, <2>3 DEF ItemKeys
    <3>2. c[k].id # P
      BY <2>3, <3>1, GoodFacts DEF P
    <3>3. Children(d, c[k].id) = Children(c, c[k].id)
      BY <1>3, <1>10, <3>2 DEF Children
    <3>4. QED BY <3>1, <3>3 DEF Good, Valences
  <2>4. QED BY <2>1, <2>2, <2>3
<1>21. Counts(d, h2)
  <2>1. ASSUME NEW kind PROVE Kind(d, kind) = IF rec.kind = kind THEN Kind(c, kind) \cup {K} ELSE Kind(c, kind)
    <3>1. \A k \in Items(c) : d[k].kind = c[k].kind
      BY <1>10, <1>11, <1>15 DEF Items
    <3>2. QED BY <1>9, <1>10, <3>1 DEF Kind
  <2>2. K \notin Kind(c, "file") /\ K \notin Kind(c, "folder")
    BY <1>11 DEF Kind, Items
  <2>3. rec.kind \in {"folder", "file"}
    BY DEF FolderRecs, FileRecs
  <2>4. /\ Cardinality(Kind(d, "file")) = IF rec.kind = "file" THEN Cardinality(Kind(c, "file")) + 1
                                          ELSE Cardinality(Kind(c, "file"))
        /\ Cardinality(Kind(d, "folder")) = IF rec.kind = "folder" THEN Cardinality(Kind(c, "folder")) + 1
                                            ELSE Cardinality(Kind(c, "folder"))
    <3>1. ASSUME NEW kind \in {"file", "folder"}
          PROVE  Cardinality(Kind(d, kind)) = IF rec.kind = kind THEN Cardinality(Kind(c, kind)) + 1
                                              ELSE Cardinality(Kind(c, kind))
      <4>1. CASE rec.kind = kind
        <5>1. Kind(d, kind) = Kind(c, kind) \cup {K} /\ K \notin Kind(c, kind)
          BY <2>1, <2>2, <4>1
        <5>2. IsFiniteSet(Kind(c, kind))
          BY <1>1, FiniteItems
        <5>3. Cardinality(Kind(c, kind) \cup {K}) = Cardinality(Kind(c, kind)) + 1
          BY <5>1, <5>2, FS_AddElement
        <5>4. QED BY <4>1, <5>1, <5>3
      <4>2. CASE rec.kind # kind
        BY <2>1, <4>2
      <4>3. QED BY <4>1, <4>2
    <3>2. QED BY <3>1
  <2>5. QED BY <1>12, <2>4 DEF Good, Counts
<1>22. Fresh(h2, drift)
  <2>1. h2.next = N + 1
    BY DEF h2, Counted, N
  <2>2. \A i \in Ids : i >= N + 1 => i >= N
    BY <1>2 DEF Ids, FirstID
  <2>3. QED BY <2>1, <2>2 DEF Good, Fresh, N
<1>23. QED BY <1>13, <1>14, <1>18, <1>19, <1>20, <1>21, <1>22 DEF Good, h2

\* So does a record that says the same of its item.
LEMMA GoodChange ==
  ASSUME NEW c, NEW h, NEW drift, NEW at \in ItemKeys(c), NEW rec \in FolderRecs \cup FileRecs, Good(c, h, drift),
         SameItem(rec, c[at]), rec.kind = "folder" => rec.valence = c[at].valence
  PROVE  Good(With(c, at, rec), h, drift)
<1> DEFINE d == With(c, at, rec)
<1>1. Typed(c, h)
  BY DEF Good
<1>2. at \in DOMAIN c /\ at[2] # NoName /\ rec.kind = c[at].kind /\ rec.id = c[at].id
  BY <1>1, KeyFacts DEF SameItem
<1>3. DOMAIN d = DOMAIN c /\ d[at] = rec /\ \A k \in DOMAIN c : k # at => d[k] = c[k]
  BY <1>2 DEF With
<1>4. d = [k \in DOMAIN d |-> d[k]]
  BY DEF With
<1> HIDE DEF d
<1>5. ItemKeys(d) = ItemKeys(c) /\ Items(d) = Items(c)
  BY <1>3 DEF ItemKeys, Items
<1>6. \A k \in ItemKeys(c) : d[k].id = c[k].id /\ d[k].kind = c[k].kind
                             /\ (d[k].kind = "folder" => d[k].valence = c[k].valence)
  BY <1>2, <1>3 DEF ItemKeys
<1>7. \A id : ThreadKey(id) \in DOMAIN c => Place(d, id) = Place(c, id)
  <2>1. \A id : ThreadKey(id) # at
    BY <1>2 DEF ThreadKey
  <2>2. QED BY <1>3, <2>1 DEF Place
<1>8. Typed(d, h)
  BY <1>1, <1>2, <1>3, <1>4 DEF Typed
<1>9. Rooted(d)
  BY <1>3, <1>6, GoodFacts DEF Good, Rooted
<1>10. Linked(d)
  <2>1. \A k \in ItemKeys(d) : ThreadKey(d[k].id) \in DOMAIN d /\ Place(d, d[k].id) = k
    BY <1>3, <1>5, <1>6, <1>7, GoodFacts
  <2>2. ASSUME NEW k \in DOMAIN d \ ItemKeys(d)
        PROVE  Place(d, k[1]) \in ItemKeys(d) /\ d[Place(d, k[1])].id = k[1]
    <3>1. ThreadKey(k[1]) \in DOMAIN c
      BY <1>1, <1>3, <1>5, <2>2, KeyFacts
    <3>2. QED BY <1>5, <1>6, <1>7, <3>1, GoodFacts
  <2>3. QED BY <2>1, <2>2 DEF Linked
<1>11. Filed(d, h)
  <2> SUFFICES ASSUME NEW k \in Items(c)
               PROVE  /\ k[2] \in Names
                      /\ d[k].id \in FirstID .. h.next - 1 /\ d[k].id # k[1]
                      /\ ThreadKey(k[1]) \in DOMAIN d /\ d[Place(d, k[1])].kind = "folder"
    BY <1>5 DEF Filed
  <2>1. /\ k[2] \in Names
        /\ c[k].id \in FirstID .. h.next - 1 /\ c[k].id # k[1]
        /\ ThreadKey(k[1]) \in DOMAIN c /\ c[Place(c, k[1])].kind = "folder"
    BY DEF Good, Filed
  <2>2. k \in ItemKeys(c) /\ Place(c, k[1]) \in ItemKeys(c)
    BY <2>1, GoodFacts
  <2>3. QED BY <1>3, <1>6, <1>7, <2>1, <2>2
<1>12. Valences(d, drift)
  <2>1. \A id : Children(d, id) = Children(c, id)
    BY <1>5 DEF Children
  <2>2. ASSUME NEW k \in ItemKeys(d), d[k].kind = "folder"
        PROVE  d[k].valence = drift[d[k].id] + Cardinality(Children(d, d[k].id))
    <3>1. k \in ItemKeys(c) /\ c[k].kind = "folder" /\ d[k].id = c[k].id /\ d[k].valence = c[k].valence
      BY <1>5, <1>6, <2>2
    <3>2. c[k].valence = drift[c[k].id] + Cardinality(Children(c, c[k].id))
      BY <3>1 DEF Good, Valences
    <3>3. QED BY <2>1, <3>1, <3>2
  <2>3. QED BY <2>2 DEF Valences
<1>13. Counts(d, h)
  BY <1>5, <1>6 DEF Good, Counts, Kind, Items
<1>14. Fresh(h, drift)
  BY DEF Good
<1>15. QED BY <1>8, <1>9, <1>10, <1>11, <1>12, <1>13, <1>14 DEF Good, d

\* An item that is gone, with its thread.
LEMMA GoodRemove ==
  ASSUME NEW c, NEW h, NEW drift, NEW key \in Items(c), NEW at, NEW d, Good(c, h, drift), ~NotEmpty(c[key]),
         at = Place(c, key[1]),
         d = With(Without(Without(c, key), ThreadKey(c[key].id)), at, Less(c[at]))
  PROVE  Good(d, [next |-> h.next,
                  files |-> IF c[key].kind = "folder" THEN h.files ELSE h.files - 1,
                  folders |-> IF c[key].kind = "folder" THEN h.folders - 1 ELSE h.folders], drift)
<1> DEFINE rec == c[key]
           id == rec.id
           T == ThreadKey(id)
           P == key[1]
           h2 == [next |-> h.next,
                  files |-> IF c[key].kind = "folder" THEN h.files ELSE h.files - 1,
                  folders |-> IF c[key].kind = "folder" THEN h.folders - 1 ELSE h.folders]
<1>1. Typed(c, h)
  BY DEF Good
<1>2. /\ key \in ItemKeys(c) /\ key \in DOMAIN c /\ key # RootKey /\ key[2] # NoName
      /\ rec \in FolderRecs \cup FileRecs /\ rec.kind \in {"folder", "file"}
      /\ T \in DOMAIN c \ ItemKeys(c) /\ Place(c, id) = key /\ T[1] = id /\ T[2] = NoName /\ T # key
      /\ id # P /\ id # Root
  <2>1. key \in ItemKeys(c) /\ key # RootKey
    BY DEF Items
  <2>2. /\ key \in DOMAIN c /\ key[2] # NoName
        /\ rec \in FolderRecs \cup FileRecs /\ rec.kind \in {"folder", "file"}
    BY <1>1, <2>1, KeyFacts
  <2>3. T \in DOMAIN c /\ Place(c, id) = key /\ id # Root
    BY <2>1, GoodFacts
  <2>4. T \in DOMAIN c \ ItemKeys(c) /\ T[1] = id /\ T[2] = NoName /\ T # key
    BY <1>1, <2>1, <2>3, KeyFacts DEF ThreadKey
  <2>5. id # P
    BY DEF Good, Filed
  <2>6. QED BY <2>1, <2>2, <2>3, <2>4, <2>5
<1>3. /\ at \in ItemKeys(c) /\ at \in DOMAIN c /\ c[at] \in FolderRecs /\ c[at].id = P /\ c[at].kind = "folder"
      /\ at # key /\ at # T /\ ThreadKey(P) \in DOMAIN c
      /\ Less(c[at]) \in FolderRecs /\ Less(c[at]).id = P /\ Less(c[at]).kind = "folder"
      /\ Less(c[at]).valence = c[at].valence - 1
  <2>1. ThreadKey(P) \in DOMAIN c /\ c[at].kind = "folder"
    BY DEF Good, Filed
  <2>2. at \in ItemKeys(c) /\ c[at].id = P /\ at # T
    BY <1>2, <2>1, GoodFacts
  <2>3. at \in DOMAIN c /\ c[at] \in FolderRecs \cup FileRecs
    BY <1>1, <2>2, KeyFacts
  <2>4. c[at] \in FolderRecs
    BY <2>1, <2>3 DEF FolderRecs, FileRecs
  <2>5. Less(c[at]) \in FolderRecs /\ Less(c[at]).id = P /\ Less(c[at]).kind = "folder"
        /\ Less(c[at]).valence = c[at].valence - 1
    BY <2>2, <2>4 DEF Less, FolderRecs
  <2>6. QED BY <1>2, <2>1, <2>2, <2>3, <2>4, <2>5
<1> DEFINE less == Less(c[at])
<1>4. d = [k \in DOMAIN c \ {key, T} |-> IF k = at THEN less ELSE c[k]]
  <2> HIDE DEF T, less
  <2>1. d = With(Without(Without(c, key), T), at, less)
    BY DEF T, less
  <2>2. Without(Without(c, key), T) = [k \in DOMAIN c \ {key, T} |-> c[k]]
    BY DEF Without, Restrict
  <2>3. QED BY <1>3, <2>1, <2>2 DEF With
<1> HIDE DEF rec, id, T, P, less, h2
<1>5. DOMAIN d = DOMAIN c \ {key, T} /\ d[at] = less /\ \A k \in DOMAIN d : k # at => d[k] = c[k]
  BY <1>3, <1>4
<1>6. ItemKeys(d) = ItemKeys(c) \ {key} /\ Items(d) = Items(c) \ {key}
  BY <1>2, <1>5 DEF ItemKeys, Items
<1>7. \A k \in ItemKeys(d) : k \in ItemKeys(c) /\ k # key /\ k \in DOMAIN d
                             /\ d[k].id = c[k].id /\ d[k].kind = c[k].kind
  BY <1>3, <1>5, <1>6 DEF less, ItemKeys
\* No item has the one that is gone for its folder.
<1>8. \A k \in Items(c) : k[1] # id
  <2> SUFFICES ASSUME NEW k \in Items(c), k[1] = id PROVE FALSE
    OBVIOUS
  <2>1. rec.kind = "folder"
    BY <1>2 DEF Good, Filed, rec
  <2>2. rec.valence = drift[id] + Cardinality(Children(c, id)) /\ ~(rec.valence > 0) /\ drift[id] \in Nat
    BY <1>2, <2>1, DriftFacts DEF Good, Valences, NotEmpty, rec, id
  <2>3. IsFiniteSet(Children(c, id)) /\ Cardinality(Children(c, id)) \in Nat /\ k \in Children(c, id)
    BY <1>1, FiniteItems DEF Children
  <2>4. Cardinality(Children(c, id)) = 0
    BY <2>2, <2>3
  <2>5. QED BY <2>3, <2>4, FS_EmptySet
<1>9. \A i : ThreadKey(i) \in DOMAIN c /\ i # id => Place(d, i) = Place(c, i) /\ ThreadKey(i) \in DOMAIN d
  <2>1. \A i : ThreadKey(i) \in DOMAIN c => ThreadKey(i) # at /\ ThreadKey(i) # key
    BY <1>2, <1>3 DEF ThreadKey, ItemKeys
  <2>2. \A i : i # id => ThreadKey(i) # T
    BY DEF ThreadKey, T
  <2>3. QED BY <1>5, <2>1, <2>2 DEF Place
<1>10. /\ h2 \in [next : {FirstID} \cup (FirstID .. MaxID + 1), files : Nat, folders : Nat] /\ h2.next = h.next
       /\ Counts(d, h2)
  <2>1. Kind(d, "file") = Kind(c, "file") \ {key} /\ Kind(d, "folder") = Kind(c, "folder") \ {key}
    <3>1. \A k \in Items(d) : d[k].kind = c[k].kind
      BY <1>7 DEF Items
    <3>2. QED BY <1>6, <3>1 DEF Kind
  <2>2. /\ IsFiniteSet(Kind(c, "file")) /\ Cardinality(Kind(c, "file")) = h.files
        /\ IsFiniteSet(Kind(c, "folder")) /\ Cardinality(Kind(c, "folder")) = h.folders
        /\ h.files \in Nat /\ h.folders \in Nat
    BY <1>1, FiniteItems DEF Good, Counts
  <2>3. CASE rec.kind = "folder"
    <3>1. key \in Kind(c, "folder") /\ key \notin Kind(c, "file")
      BY <2>3 DEF Kind, rec
    <3>2. Cardinality(Kind(c, "folder") \ {key}) = h.folders - 1 /\ Cardinality(Kind(c, "file") \ {key}) = h.files
      BY <2>2, <3>1, FS_RemoveElement
    <3>3. Cardinality(Kind(c, "folder") \ {key}) \in Nat
      BY <2>2, FS_RemoveElement, FS_CardinalityType
    <3>4. h2 = [next |-> h.next, files |-> h.files, folders |-> h.folders - 1]
      BY <2>3 DEF h2, rec
    <3>5. h.next \in {FirstID} \cup (FirstID .. MaxID + 1)
      BY <1>1 DEF Typed
    <3>6. QED BY <2>1, <2>2, <3>2, <3>3, <3>4, <3>5 DEF Counts
  <2>4. CASE rec.kind = "file"
    <3>1. key \in Kind(c, "file") /\ key \notin Kind(c, "folder")
      BY <2>4 DEF Kind, rec
    <3>2. Cardinality(Kind(c, "file") \ {key}) = h.files - 1 /\ Cardinality(Kind(c, "folder") \ {key}) = h.folders
      BY <2>2, <3>1, FS_RemoveElement
    <3>3. Cardinality(Kind(c, "file") \ {key}) \in Nat
      BY <2>2, FS_RemoveElement, FS_CardinalityType
    <3>4. h2 = [next |-> h.next, files |-> h.files - 1, folders |-> h.folders]
      BY <2>4 DEF h2, rec
    <3>5. h.next \in {FirstID} \cup (FirstID .. MaxID + 1)
      BY <1>1 DEF Typed
    <3>6. QED BY <2>1, <2>2, <3>2, <3>3, <3>4, <3>5 DEF Counts
  <2>5. QED BY <1>2, <2>3, <2>4
<1>11. Typed(d, h2)
  <2>1. IsFiniteSet(DOMAIN d)
    <3>1. IsFiniteSet(DOMAIN c) /\ DOMAIN d \subseteq DOMAIN c
      BY <1>1, <1>5 DEF Typed
    <3>2. QED BY <3>1, FS_Subset
  <2>2. d = [k \in DOMAIN d |-> d[k]]
    BY <1>4
  <2>3. ASSUME NEW k \in DOMAIN d
        PROVE  IF k[2] = NoName THEN d[k] \in ThreadRecs ELSE d[k] \in FolderRecs \cup FileRecs
    BY <1>1, <1>3, <1>5 DEF Typed, less, ItemKeys
  <2>4. DOMAIN d \subseteq Keys
    BY <1>1, <1>5 DEF Typed
  <2>5. QED BY <1>10, <2>1, <2>2, <2>3, <2>4 DEF Typed
<1>12. Rooted(d)
  <2>1. RootKey \in ItemKeys(d)
    BY <1>2, <1>6, GoodFacts
  <2>2. QED BY <1>7, <2>1 DEF Good, Rooted
<1>13. Linked(d)
  <2>1. ASSUME NEW k \in ItemKeys(d)
        PROVE  ThreadKey(d[k].id) \in DOMAIN d /\ Place(d, d[k].id) = k
    <3>1. k \in ItemKeys(c) /\ k # key /\ d[k].id = c[k].id
      BY <1>7
    <3>2. c[k].id # id /\ ThreadKey(c[k].id) \in DOMAIN c /\ Place(c, c[k].id) = k
      BY <1>2, <3>1, GoodFacts DEF id, rec
    <3>3. QED BY <1>9, <3>1, <3>2
  <2>2. ASSUME NEW k \in DOMAIN d \ ItemKeys(d)
        PROVE  Place(d, k[1]) \in ItemKeys(d) /\ d[Place(d, k[1])].id = k[1]
    <3>1. k \in DOMAIN c \ ItemKeys(c) /\ k # T
      BY <1>5, <1>6
    <3>2. ThreadKey(k[1]) \in DOMAIN c /\ k[1] # id
      BY <1>1, <3>1, KeyFacts DEF T
    <3>3. Place(c, k[1]) \in ItemKeys(c) /\ c[Place(c, k[1])].id = k[1] /\ Place(c, k[1]) # key
      BY <3>2, GoodFacts DEF id, rec
    <3>4. QED BY <1>6, <1>7, <1>9, <3>2, <3>3
  <2>3. QED BY <2>1, <2>2 DEF Linked
<1>14. Filed(d, h2)
  <2> SUFFICES ASSUME NEW k \in Items(d)
               PROVE  /\ k[2] \in Names
                      /\ d[k].id \in FirstID .. h2.next - 1 /\ d[k].id # k[1]
                      /\ ThreadKey(k[1]) \in DOMAIN d /\ d[Place(d, k[1])].kind = "folder"
    BY DEF Filed
  <2>1. k \in Items(c) /\ k \in ItemKeys(d) /\ k[1] # id
    BY <1>6, <1>8 DEF Items
  <2>2. /\ k[2] \in Names
        /\ c[k].id \in FirstID .. h.next - 1 /\ c[k].id # k[1]
        /\ ThreadKey(k[1]) \in DOMAIN c /\ c[Place(c, k[1])].kind = "folder"
    BY <2>1 DEF Good, Filed
  <2>3. Place(c, k[1]) \in ItemKeys(c) /\ Place(c, k[1]) # key
    BY <2>1, <2>2, GoodFacts DEF id, rec
  <2>4. d[Place(d, k[1])].kind = "folder" /\ ThreadKey(k[1]) \in DOMAIN d
    BY <1>6, <1>7, <1>9, <2>1, <2>2, <2>3
  <2>5. QED BY <1>7, <1>10, <2>1, <2>2, <2>4
<1>15. Valences(d, drift)
  <2> SUFFICES ASSUME NEW k \in ItemKeys(d), d[k].kind = "folder"
               PROVE  d[k].valence = drift[d[k].id] + Cardinality(Children(d, d[k].id))
    BY DEF Valences
  <2>1. CASE k = at
    <3>1. Children(d, P) = Children(c, P) \ {key} /\ key \in Children(c, P)
      BY <1>6 DEF Children, P
    <3>2. c[at].valence = drift[P] + Cardinality(Children(c, P)) /\ IsFiniteSet(Children(c, P))
          /\ drift[P] \in Nat /\ Cardinality(Children(c, P)) \in Nat
      BY <1>1, <1>3, FiniteItems, DriftFacts DEF Good, Valences
    <3>3. Cardinality(Children(d, P)) = Cardinality(Children(c, P)) - 1
      <4>1. Cardinality(Children(c, P) \ {key}) = Cardinality(Children(c, P)) - 1
        BY ONLY <3>1, <3>2, FS_RemoveElement
      <4>2. QED BY <3>1, <4>1
    <3>4. QED BY <1>3, <1>5, <2>1, <3>2, <3>3 DEF less
  <2>2. CASE k # at
    <3>1. k \in ItemKeys(c) /\ d[k] = c[k]
      BY <1>5, <1>7, <2>2
    <3>2. c[k].id # P
      BY <1>3, <2>2, <3>1, GoodFacts
    <3>3. Children(d, c[k].id) = Children(c, c[k].id)
      BY <1>6, <3>2 DEF Children, P
    <3>4. QED BY <3>1, <3>3 DEF Good, Valences
  <2>3. QED BY <2>1, <2>2
<1>16. Fresh(h2, drift)
  BY DEF Good, Fresh, h2
<1>17. QED BY <1>10, <1>11, <1>12, <1>13, <1>14, <1>15, <1>16 DEF Good, h2

\* The parent of an item is a folder that is not the item, and its record's copies.
LEMMA ParentFacts ==
  ASSUME NEW c, NEW h, NEW drift, NEW key \in Items(c), Good(c, h, drift)
  PROVE  LET from == Place(c, key[1])
         IN  /\ ThreadKey(key[1]) \in DOMAIN c
             /\ from \in ItemKeys(c) /\ c[from].id = key[1] /\ c[from].kind = "folder"
             /\ from # key /\ c[key].id # key[1]
<1>1. ThreadKey(key[1]) \in DOMAIN c /\ c[Place(c, key[1])].kind = "folder" /\ c[key].id # key[1]
  BY DEF Good, Filed
<1>2. Place(c, key[1]) \in ItemKeys(c) /\ c[Place(c, key[1])].id = key[1]
  BY <1>1, GoodFacts
<1>3. QED BY <1>1, <1>2

\* The copy that a call changes of a folder is the record of the same folder, with
\* its valence one more or one less.
LEMMA ValenceCopies ==
  ASSUME NEW c, NEW h, NEW drift, NEW at \in ItemKeys(c), Typed(c, h), c[at].kind = "folder"
  PROVE  /\ c[at] \in FolderRecs /\ c[at].valence \in Int /\ c[at].id \in Nat
         /\ Less(c[at]) \in FolderRecs /\ Less(c[at]).id = c[at].id /\ Less(c[at]).kind = "folder"
         /\ Less(c[at]).valence = c[at].valence - 1
         /\ More(c[at]) \in FolderRecs /\ More(c[at]).id = c[at].id /\ More(c[at]).kind = "folder"
         /\ More(c[at]).valence = c[at].valence + 1
<1>1. c[at] \in FolderRecs \cup FileRecs
  BY KeyFacts
<1>2. c[at] \in FolderRecs
  BY <1>1 DEF FolderRecs, FileRecs
<1>3. QED BY <1>2 DEF Less, More, FolderRecs

\* What a move adds to the renames: one, if it stays inside a folder.
Drifted(drift, from, to) == IF from = to THEN [drift EXCEPT ![to] = drift[to] + 1] ELSE drift

\* An item under another key, with its thread rewritten.
LEMMA GoodMove ==
  ASSUME NEW c, NEW h, NEW drift, NEW key \in Items(c), NEW from, NEW to \in ItemKeys(c), NEW name \in Names, NEW d,
         Good(c, h, drift), from = Place(c, key[1]), c[to].kind = "folder",
         c[to].id # c[key].id, <<c[to].id, name>> \notin DOMAIN c \ {key},
         d = With(With(With(With(Without(Without(c, key), ThreadKey(c[key].id)),
                                 <<c[to].id, name>>, c[key]),
                            ThreadKey(c[key].id), Thread(c[to].id, name)),
                       from, Less(c[from])),
                  to, More(c[to]))
  PROVE  Good(d, h, Drifted(drift, key[1], c[to].id))
<1> DEFINE rec == c[key]
           id == rec.id
           T == ThreadKey(id)
           P == key[1]
           Q == c[to].id
           new == <<Q, name>>
           less == Less(c[from])
           more == More(c[to])
           thread == Thread(Q, name)
           drift2 == Drifted(drift, P, Q)
<1>1. Typed(c, h)
  BY DEF Good
<1>2. /\ key \in ItemKeys(c) /\ key \in DOMAIN c /\ key # RootKey /\ key[2] # NoName
      /\ rec \in FolderRecs \cup FileRecs /\ rec.kind \in {"folder", "file"}
      /\ T \in DOMAIN c \ ItemKeys(c) /\ Place(c, id) = key /\ T[1] = id /\ T[2] = NoName /\ T # key
      /\ T \in Keys /\ id # P /\ id # Root /\ id \in FirstID .. h.next - 1
  <2>1. key \in ItemKeys(c) /\ key # RootKey
    BY DEF Items
  <2>2. /\ key \in DOMAIN c /\ key[2] # NoName
        /\ rec \in FolderRecs \cup FileRecs /\ rec.kind \in {"folder", "file"}
    BY <1>1, <2>1, KeyFacts
  <2>3. T \in DOMAIN c /\ Place(c, id) = key /\ id # Root
    BY <2>1, GoodFacts
  <2>4. T \in DOMAIN c \ ItemKeys(c) /\ T[1] = id /\ T[2] = NoName /\ T # key
    BY <1>1, <2>1, <2>3, KeyFacts DEF ThreadKey
  <2>5. id # P /\ id \in FirstID .. h.next - 1
    BY DEF Good, Filed
  <2>6. T \in Keys
    BY <1>1, <2>4 DEF Typed
  <2>7. QED BY <2>1, <2>2, <2>3, <2>4, <2>5, <2>6
<1>3. /\ from \in ItemKeys(c) /\ from \in DOMAIN c /\ from # T /\ from # key /\ (from = to <=> P = Q)
      /\ c[from].id = P /\ less \in FolderRecs /\ less.id = P /\ less.kind = "folder"
      /\ less.valence = c[from].valence - 1
  <2>1. from \in ItemKeys(c) /\ c[from].id = P /\ c[from].kind = "folder" /\ from # key
    BY ParentFacts
  <2>2. from \in DOMAIN c /\ from # T
    BY <1>2, <2>1 DEF ItemKeys
  <2>3. /\ less \in FolderRecs /\ less.id = P /\ less.kind = "folder"
        /\ less.valence = c[from].valence - 1
    BY <1>1, <2>1, ValenceCopies
  <2>4. from = to <=> P = Q
    BY <2>1, GoodFacts
  <2>5. QED BY <2>1, <2>2, <2>3, <2>4
<1>4. /\ to \in DOMAIN c /\ to # T /\ to # key /\ Q \in Nat
      /\ more \in FolderRecs /\ more.id = Q /\ more.kind = "folder"
      /\ more.valence = c[to].valence + 1
  <2>1. to \in DOMAIN c /\ to # T /\ to # key
    BY <1>2 DEF ItemKeys
  <2>2. QED BY <1>1, <2>1, ValenceCopies
<1>5. /\ new \notin DOMAIN c \ {key} /\ new[1] = Q /\ new[2] = name /\ name # NoName /\ new # RootKey
      /\ new \in Keys /\ new # T /\ new # from /\ new # to
  <2>1. new \notin DOMAIN c \ {key} /\ new[1] = Q /\ new[2] = name /\ name # NoName /\ new # RootKey /\ new \in Keys
    BY <1>4 DEF RootKey, Keys
  <2>2. QED BY <1>2, <1>3, <1>4, <2>1
<1>6. thread \in ThreadRecs /\ thread.parent = Q /\ thread.name = name
  BY <1>4 DEF Thread, ThreadRecs
<1>7. d = [k \in (DOMAIN c \ {key}) \cup {new} |->
             IF k = to THEN more ELSE IF k = from THEN less ELSE IF k = T THEN thread
             ELSE IF k = new THEN rec ELSE c[k]]
  <2> HIDE DEF T, less, more, thread, new, rec
  <2>1. d = With(With(With(With(Without(Without(c, key), T), new, rec), T, thread), from, less), to, more)
    BY DEF T, less, more, thread, new, rec
  <2> DEFINE c1 == Without(Without(c, key), T)
             c2 == With(c1, new, rec)
             c3 == With(c2, T, thread)
  <2>2. c1 = [k \in DOMAIN c \ {key, T} |-> c[k]]
    BY DEF Without, Restrict
  <2>3. c2 = [k \in (DOMAIN c \ {key, T}) \cup {new} |-> IF k = new THEN rec ELSE c[k]]
    <3> HIDE DEF c1
    <3> QED BY <2>2 DEF With
  <2>4. c3 = [k \in (DOMAIN c \ {key}) \cup {new} |-> IF k = T THEN thread ELSE IF k = new THEN rec ELSE c[k]]
    <3> HIDE DEF c2
    <3>1. ((DOMAIN c \ {key, T}) \cup {new}) \cup {T} = (DOMAIN c \ {key}) \cup {new}
      BY <1>2
    <3>2. QED BY <1>2, <1>5, <2>3, <3>1 DEF With
  <2>5. d = With(With(c3, from, less), to, more)
    BY <2>1
  <2> DEFINE c4 == With(c3, from, less)
  <2>6. c4 = [k \in (DOMAIN c \ {key}) \cup {new} |->
                IF k = from THEN less ELSE IF k = T THEN thread ELSE IF k = new THEN rec ELSE c[k]]
    <3> HIDE DEF c3
    <3>1. ((DOMAIN c \ {key}) \cup {new}) \cup {from} = (DOMAIN c \ {key}) \cup {new}
      BY <1>3
    <3>2. QED BY <2>4, <3>1 DEF With
  <2>7. d = With(c4, to, more)
    BY <2>5
  <2>8. ((DOMAIN c \ {key}) \cup {new}) \cup {to} = (DOMAIN c \ {key}) \cup {new}
    BY <1>4
  <2> HIDE DEF c4
  <2>9. QED BY <2>6, <2>7, <2>8 DEF With
<1> HIDE DEF rec, id, T, P, Q, new, less, more, thread, drift2
<1>8. /\ DOMAIN d = (DOMAIN c \ {key}) \cup {new}
      /\ d[to] = more /\ (P # Q => d[from] = less) /\ d[T] = thread /\ d[new] = rec
      /\ \A k \in DOMAIN c \ {key, to, from, T} : d[k] = c[k]
  BY <1>2, <1>3, <1>4, <1>5, <1>7
<1>9. ItemKeys(d) = (ItemKeys(c) \ {key}) \cup {new} /\ Items(d) = (Items(c) \ {key}) \cup {new}
  BY <1>2, <1>5, <1>8 DEF ItemKeys, Items
<1>10. new \notin ItemKeys(c) \ {key}
  BY <1>5 DEF ItemKeys
<1>11. \A k \in ItemKeys(d) : k # new => k \in ItemKeys(c) /\ k # key /\ d[k].id = c[k].id /\ d[k].kind = c[k].kind
  <2> SUFFICES ASSUME NEW k \in ItemKeys(c), k # key PROVE d[k].id = c[k].id /\ d[k].kind = c[k].kind
    BY <1>9
  <2>1. k # T /\ k \in DOMAIN c
    BY <1>2 DEF ItemKeys
  <2>2. CASE k = to
    BY <1>4, <1>8, <2>2 DEF Q
  <2>3. CASE k = from /\ k # to
    BY <1>3, <1>8, <2>3, ParentFacts
  <2>4. CASE k # to /\ k # from
    BY <1>8, <2>1, <2>4
  <2>5. QED BY <2>2, <2>3, <2>4
<1>12. \A i : ThreadKey(i) \in DOMAIN c /\ i # id => Place(d, i) = Place(c, i) /\ ThreadKey(i) \in DOMAIN d
  <2>1. \A i : ThreadKey(i) \in DOMAIN c => ThreadKey(i) \notin {key, to, from}
    BY <1>2, <1>3 DEF ThreadKey, ItemKeys
  <2>2. \A i : i # id => ThreadKey(i) # T
    BY DEF ThreadKey, T
  <2>3. \A i : ThreadKey(i) \in DOMAIN c /\ i # id =>
          ThreadKey(i) \in DOMAIN d /\ d[ThreadKey(i)] = c[ThreadKey(i)]
    BY <1>8, <2>1, <2>2
  <2>4. QED BY <2>3 DEF Place
<1>13. Place(d, id) = new /\ ThreadKey(id) \in DOMAIN d /\ d[new].id = id /\ d[new].kind = rec.kind
  BY <1>2, <1>6, <1>8 DEF Place, T, new, id
<1>14. Typed(d, h)
  <2>1. IsFiniteSet(DOMAIN d)
    <3>1. IsFiniteSet(DOMAIN c)
      BY <1>1 DEF Typed
    <3>2. IsFiniteSet(DOMAIN c \ {key})
      BY <3>1, FS_RemoveElement
    <3>3. IsFiniteSet((DOMAIN c \ {key}) \cup {new})
      BY <3>2, FS_AddElement
    <3>4. QED BY <1>8, <3>3
  <2>2. d = [k \in DOMAIN d |-> d[k]]
    BY <1>7
  <2>3. DOMAIN d \subseteq Keys
    BY <1>1, <1>5, <1>8 DEF Typed
  <2>4. ASSUME NEW k \in DOMAIN d
        PROVE  IF k[2] = NoName THEN d[k] \in ThreadRecs ELSE d[k] \in FolderRecs \cup FileRecs
    <3>1. CASE k \in {to, from, T, new}
      <4>1. to[2] # NoName /\ from[2] # NoName
        BY <1>3 DEF ItemKeys
      <4>2. d[from] \in {less, more}
        BY <1>3, <1>8
      <4>3. QED BY <1>2, <1>3, <1>4, <1>5, <1>6, <1>8, <3>1, <4>1, <4>2
    <3>2. CASE k \notin {to, from, T, new}
      <4>1. k \in DOMAIN c /\ d[k] = c[k]
        BY <1>8, <3>2
      <4>2. QED BY <1>1, <4>1 DEF Typed
    <3>3. QED BY <3>1, <3>2
  <2>5. h \in [next : {FirstID} \cup (FirstID .. MaxID + 1), files : Nat, folders : Nat]
    BY <1>1 DEF Typed
  <2>6. QED BY <2>1, <2>2, <2>3, <2>4, <2>5 DEF Typed
<1>15. Rooted(d)
  <2>1. RootKey \in ItemKeys(d) /\ RootKey # new
    BY <1>2, <1>5, <1>9, GoodFacts
  <2>2. RootKey \in DOMAIN d
    BY <2>1 DEF ItemKeys
  <2>3. QED BY <1>11, <2>1, <2>2 DEF Good, Rooted
<1>16. Linked(d)
  <2>1. ASSUME NEW k \in ItemKeys(d)
        PROVE  ThreadKey(d[k].id) \in DOMAIN d /\ Place(d, d[k].id) = k
    <3>1. CASE k = new
      BY <1>13, <3>1
    <3>2. CASE k # new
      <4>1. k \in ItemKeys(c) /\ k # key /\ d[k].id = c[k].id
        BY <1>11, <3>2
      <4>2. c[k].id # id /\ ThreadKey(c[k].id) \in DOMAIN c /\ Place(c, c[k].id) = k
        BY <1>2, <4>1, GoodFacts DEF id, rec
      <4>3. QED BY <1>12, <4>1, <4>2
    <3>3. QED BY <3>1, <3>2
  <2>2. ASSUME NEW k \in DOMAIN d \ ItemKeys(d)
        PROVE  Place(d, k[1]) \in ItemKeys(d) /\ d[Place(d, k[1])].id = k[1]
    <3>1. CASE k = T
      <4>1. k[1] = id /\ new \in ItemKeys(d)
        BY <1>2, <1>9, <3>1
      <4>2. QED BY <1>13, <4>1
    <3>2. CASE k # T
      <4>1. k \in DOMAIN c \ ItemKeys(c)
        BY <1>8, <1>9, <2>2
      <4>2. ThreadKey(k[1]) \in DOMAIN c /\ k[1] # id
        BY <1>1, <3>2, <4>1, KeyFacts DEF T
      <4>3. Place(c, k[1]) \in ItemKeys(c) /\ c[Place(c, k[1])].id = k[1] /\ Place(c, k[1]) # key
        BY <4>2, GoodFacts DEF id, rec
      <4>4. Place(c, k[1]) \in ItemKeys(d) /\ Place(c, k[1]) # new
        BY <1>9, <1>10, <4>3
      <4>5. QED BY <1>11, <1>12, <4>2, <4>3, <4>4
    <3>3. QED BY <3>1, <3>2
  <2>3. QED BY <2>1, <2>2 DEF Linked
\* The folders of all items are where they were, or the moved item itself.
<1>17. ASSUME NEW i, ThreadKey(i) \in DOMAIN c, c[Place(c, i)].kind = "folder"
       PROVE  ThreadKey(i) \in DOMAIN d /\ d[Place(d, i)].kind = "folder"
  <2>1. CASE i = id
    BY <1>2, <1>13, <1>17, <2>1 DEF rec
  <2>2. CASE i # id
    <3>1. Place(c, i) \in ItemKeys(c) /\ Place(c, i) # key
      BY <1>17, <2>2, GoodFacts DEF id, rec
    <3>2. Place(c, i) \in ItemKeys(d) /\ Place(c, i) # new
      BY <1>9, <1>10, <3>1
    <3>3. QED BY <1>11, <1>12, <1>17, <2>2, <3>2
  <2>3. QED BY <2>1, <2>2
<1>18. Filed(d, h)
  <2> SUFFICES ASSUME NEW k \in Items(d)
               PROVE  /\ k[2] \in Names
                      /\ d[k].id \in FirstID .. h.next - 1 /\ d[k].id # k[1]
                      /\ ThreadKey(k[1]) \in DOMAIN d /\ d[Place(d, k[1])].kind = "folder"
    BY DEF Filed
  <2>1. CASE k = new
    <3>1. ThreadKey(Q) \in DOMAIN c /\ Place(c, Q) = to
      BY GoodFacts DEF Q
    <3>2. ThreadKey(Q) \in DOMAIN d /\ d[Place(d, Q)].kind = "folder"
      BY <1>17, <3>1
    <3>3. Q # id
      BY DEF Q, id, rec
    <3>4. QED BY <1>2, <1>5, <1>13, <2>1, <3>2, <3>3
  <2>2. CASE k # new
    <3>1. k \in Items(c) /\ k \in ItemKeys(d)
      BY <1>9, <2>2 DEF Items
    <3>2. /\ k[2] \in Names
          /\ c[k].id \in FirstID .. h.next - 1 /\ c[k].id # k[1]
          /\ ThreadKey(k[1]) \in DOMAIN c /\ c[Place(c, k[1])].kind = "folder"
      BY <3>1 DEF Good, Filed
    <3>3. ThreadKey(k[1]) \in DOMAIN d /\ d[Place(d, k[1])].kind = "folder"
      BY <1>17, <3>2
    <3>4. QED BY <1>11, <2>2, <3>1, <3>2, <3>3
  <2>3. QED BY <2>1, <2>2
<1>19. Valences(d, drift2)
  <2> SUFFICES ASSUME NEW k \in ItemKeys(d), d[k].kind = "folder"
               PROVE  d[k].valence = drift2[d[k].id] + Cardinality(Children(d, d[k].id))
    BY DEF Valences
  <2>1. /\ \A i \in ItemKeys(c) : c[i].id \in {Root} \cup Ids /\ drift[c[i].id] \in Nat
        /\ \A i \in {Root} \cup Ids : drift2[i] = IF P = Q /\ i = Q THEN drift[Q] + 1 ELSE drift[i]
        /\ P \in {Root} \cup Ids /\ Q \in {Root} \cup Ids /\ id \in {Root} \cup Ids
    <3>1. drift \in [{Root} \cup Ids -> Nat]
          /\ \A i \in ItemKeys(c) : c[i].id \in {Root} \cup Ids /\ drift[c[i].id] \in Nat
      BY DriftFacts
    <3>2. P \in {Root} \cup Ids /\ Q \in {Root} \cup Ids /\ id \in {Root} \cup Ids
      BY <1>2, <1>3, <3>1 DEF Q, id, rec
    <3>3. QED BY <3>1, <3>2 DEF drift2, Drifted
  <2>2. /\ \A i : i # Q => Children(d, i) = Children(c, i) \ {key}
        /\ Children(d, Q) = (Children(c, Q) \ {key}) \cup {new}
    BY <1>5, <1>9 DEF Children
  <2>3. \A i : (key \in Children(c, i) <=> i = P) /\ new \notin Children(c, i) \ {key}
    BY <1>10 DEF Children, P, Items
  <2>4. \A i : IsFiniteSet(Children(c, i)) /\ Cardinality(Children(c, i)) \in Nat
    BY <1>1, FiniteItems
  <2>5. CASE k = from /\ P # Q
    <3>1. Children(d, P) = Children(c, P) \ {key}
      BY <2>2, <2>5
    <3>2. Cardinality(Children(c, P) \ {key}) = Cardinality(Children(c, P)) - 1
      BY <2>3, <2>4, FS_RemoveElement
    <3>3. c[from].valence = drift[P] + Cardinality(Children(c, P)) /\ drift[P] \in Nat
      BY <1>3, <2>1, ParentFacts DEF Good, Valences
    <3>4. drift2[P] = drift[P]
      BY <2>1, <2>5
    <3>5. d[k].valence = c[from].valence - 1 /\ d[k].id = P
      BY <1>3, <1>8, <2>5
    <3>6. Cardinality(Children(c, P)) \in Nat
      BY ONLY <2>4
    <3>7. PICK n : n = Cardinality(Children(c, P))
      OBVIOUS
    <3>8. Cardinality(Children(d, P)) = n - 1 /\ d[k].valence = (drift2[P] + n) - 1 /\ n \in Nat /\ drift2[P] \in Nat
      BY ONLY <3>1, <3>2, <3>3, <3>4, <3>5, <3>6, <3>7
    <3>9. d[k].valence = drift2[P] + Cardinality(Children(d, P))
      BY ONLY <3>8
    <3>10. QED BY ONLY <3>5, <3>9
  <2>6. CASE k = to
    <3>1. c[to].valence = drift[Q] + Cardinality(Children(c, Q)) /\ drift[Q] \in Nat
      BY <2>1 DEF Good, Valences, Q
    <3>2. d[k].valence = c[to].valence + 1 /\ d[k].id = Q
      BY <1>4, <1>8, <2>6
    <3>3. CASE P # Q
      <4>1. Children(d, Q) = Children(c, Q) \cup {new} /\ new \notin Children(c, Q)
        BY <2>2, <2>3, <3>3
      <4>2. Cardinality(Children(c, Q) \cup {new}) = Cardinality(Children(c, Q)) + 1
        BY <2>4, <4>1, FS_AddElement
      <4>3. drift2[Q] = drift[Q]
        BY <2>1, <3>3
      <4>4. QED BY ONLY <2>4, <3>1, <3>2, <4>1, <4>2, <4>3
    <3>4. CASE P = Q
      <4>1. key \in Children(c, Q) /\ new \notin Children(c, Q) \ {key}
        BY <2>3, <3>4
      <4>2. /\ IsFiniteSet(Children(c, Q) \ {key})
            /\ Cardinality(Children(c, Q) \ {key}) = Cardinality(Children(c, Q)) - 1
        BY <2>4, <4>1, FS_RemoveElement
      <4>3. Cardinality((Children(c, Q) \ {key}) \cup {new}) = Cardinality(Children(c, Q) \ {key}) + 1
        BY <4>1, <4>2, FS_AddElement
      <4>4. Cardinality(Children(d, Q)) = Cardinality(Children(c, Q))
        BY ONLY <2>2, <2>4, <4>2, <4>3
      <4>5. drift2[Q] = drift[Q] + 1
        BY <2>1, <3>4
      <4>6. QED BY <2>4, <3>1, <3>2, <4>4, <4>5
    <3>5. QED BY <3>3, <3>4
  <2>7. CASE k = new
    <3>1. rec.kind = "folder" /\ d[k].id = id /\ d[k] = rec
      BY <1>8, <1>13, <2>7
    <3>2. rec.valence = drift[id] + Cardinality(Children(c, id))
      BY <1>2, <3>1 DEF Good, Valences, rec, id
    <3>3. id # Q /\ id # P
      BY <1>2 DEF id, rec, Q
    <3>4. Children(d, id) = Children(c, id)
      <4>1. key \notin Children(c, id) /\ Children(d, id) = Children(c, id) \ {key}
        BY ONLY <2>2, <2>3, <3>3
      <4>2. QED BY ONLY <4>1
    <3>5. drift2[id] = drift[id]
      BY <2>1, <3>3
    <3>6. QED BY <3>1, <3>2, <3>4, <3>5
  <2>8. CASE k \notin {from, to, new}
    <3>1. k \in ItemKeys(c) /\ k \in DOMAIN c /\ k # key /\ k # T
      BY <1>2, <1>11, <2>8 DEF ItemKeys
    <3>2. d[k] = c[k]
      BY <1>8, <2>8, <3>1
    <3>3. c[k].id # P /\ c[k].id # Q
      BY <1>3, <2>8, <3>1, GoodFacts DEF Q
    <3>4. Children(d, c[k].id) = Children(c, c[k].id)
      <4>1. key \notin Children(c, c[k].id) /\ Children(d, c[k].id) = Children(c, c[k].id) \ {key}
        BY ONLY <2>2, <2>3, <3>3
      <4>2. QED BY ONLY <4>1
    <3>5. c[k].valence = drift[c[k].id] + Cardinality(Children(c, c[k].id))
      BY <3>1, <3>2 DEF Good, Valences
    <3>6. drift2[c[k].id] = drift[c[k].id]
      BY <2>1, <3>1, <3>3
    <3>7. QED BY <3>2, <3>4, <3>5, <3>6
  <2>9. P = Q => from = to
    BY <1>3, GoodFacts DEF Q
  <2>10. QED BY ONLY <2>5, <2>6, <2>7, <2>8, <2>9
<1>20. Counts(d, h)
  <2> SUFFICES ASSUME NEW kind PROVE Cardinality(Kind(d, kind)) = Cardinality(Kind(c, kind))
    BY DEF Good, Counts
  <2>1. \A k \in Items(d) : k # new => d[k].kind = c[k].kind
    BY <1>11 DEF Items
  <2>2. CASE rec.kind = kind
    <3>1. Kind(d, kind) = (Kind(c, kind) \ {key}) \cup {new}
      BY <1>9, <1>10, <1>13, <2>1, <2>2 DEF Kind, Items
    <3>2. key \in Kind(c, kind) /\ new \notin Kind(c, kind) \ {key}
      BY <1>10, <2>2 DEF Kind, Items, rec
    <3>3. IsFiniteSet(Kind(c, kind)) /\ Cardinality(Kind(c, kind)) \in Nat
      BY <1>1, FiniteItems
    <3>4. /\ IsFiniteSet(Kind(c, kind) \ {key})
          /\ Cardinality(Kind(c, kind) \ {key}) = Cardinality(Kind(c, kind)) - 1
      BY <3>2, <3>3, FS_RemoveElement
    <3>5. Cardinality((Kind(c, kind) \ {key}) \cup {new}) = Cardinality(Kind(c, kind) \ {key}) + 1
      BY <3>2, <3>4, FS_AddElement
    <3>6. Cardinality((Kind(c, kind) \ {key}) \cup {new}) = Cardinality(Kind(c, kind))
      BY ONLY <3>3, <3>4, <3>5
    <3>7. QED BY ONLY <3>1, <3>6
  <2>3. CASE rec.kind # kind
    <3>1. Kind(d, kind) = Kind(c, kind)
      BY <1>9, <1>10, <1>13, <2>1, <2>3 DEF Kind, Items, rec
    <3>2. QED BY <3>1
  <2>4. QED BY <2>2, <2>3
<1>21. Fresh(h, drift2)
  <2>1. drift \in [{Root} \cup Ids -> Nat] /\ Q \in {Root} \cup Ids
    BY <1>1, <1>4, DriftFacts DEF Q
  <2>2. Q < h.next
    BY GoodFacts, <1>4 DEF Q, Root
  <2>3. drift2 \in [{Root} \cup Ids -> Nat]
    BY <2>1 DEF drift2, Drifted
  <2>4. \A i \in Ids : i >= h.next => i # Q
    BY <1>4, <2>2, GoodFacts DEF Ids, FirstID
  <2>5. \A i \in Ids : i >= h.next => drift2[i] = drift[i]
    BY <2>1, <2>4 DEF drift2, Drifted
  <2>6. QED BY <2>3, <2>5 DEF Good, Fresh
<1>22. QED BY <1>14, <1>15, <1>16, <1>18, <1>19, <1>20, <1>21 DEF Good, drift2, P, Q

-----------------------------------------------------------------------------
(* What the writes of the calls lead to *)

\* What addToBTree makes of an image whose catalog does not have the key.
LEMMA AddEffect ==
  ASSUME NEW item, NEW c, NEW h, NEW drift, NEW s, NEW key \in Keys, NEW rec \in Recs, key \notin DOMAIN c
  PROVE  Effect(item, AddRecord(key, rec), Image(c, h, s), Image(With(c, key, rec), h, s))
<1> DEFINE w == AddRecord(key, rec)
           g == Image(c, h, s)
<1>1. w \in Writes /\ w.op = "add" /\ w.key = key /\ w.rec = rec
  BY DEF AddRecord, Writes
<1>2. g.catalog = c /\ g.header = h /\ g.saved = s
  BY DEF Image
<1> HIDE DEF w, g
<1>3. AddTo(w, g, Image(With(c, key, rec), h, s))
  BY <1>1, <1>2 DEF AddTo
<1>4. QED BY <1>1, <1>3 DEF Effect, w, g

\* What removeFromBTree makes of an image when the key is the call's own item's.
LEMMA RemoveEffect ==
  ASSUME NEW item, NEW c, NEW h, NEW drift, NEW s, NEW key \in Keys, key \in DOMAIN c, Owner(key, c[key]) = item
  PROVE  Effect(item, RemoveKey(key), Image(c, h, s), Image(Without(c, key), h, s))
<1> DEFINE w == RemoveKey(key)
           g == Image(c, h, s)
<1>1. w \in Writes /\ w.op = "remove" /\ w.key = key
  BY DEF RemoveKey, Writes
<1>2. g.catalog = c /\ g.header = h /\ g.saved = s
  BY DEF Image
<1> HIDE DEF w, g
<1>3. RemoveFrom(item, w, g, Image(Without(c, key), h, s))
  BY <1>1, <1>2 DEF RemoveFrom
<1>4. QED BY <1>1, <1>3 DEF Effect, w, g

\* What updateCatalog makes of an image: the record stands where its thread leads.
LEMMA UpdateEffect ==
  ASSUME NEW item, NEW c, NEW h, NEW drift, NEW s, NEW rec \in FolderRecs \cup FileRecs, NEW key \in Keys,
         ThreadKey(rec.id) \in DOMAIN c, Place(c, rec.id) = key, key \in DOMAIN c,
         SameItem(rec, c[key])
  PROVE  Effect(item, UpdateCatalog(rec), Image(c, h, s), Image(With(c, key, rec), h, s))
<1> DEFINE w == UpdateCatalog(rec)
           g == Image(c, h, s)
<1>1. w \in Writes /\ w.op = "update" /\ w.rec = rec
  BY DEF UpdateCatalog, Writes
<1>2. g.catalog = c /\ g.header = h /\ g.saved = s
  BY DEF Image
<1> HIDE DEF w, g
<1>3. UpdateIn(w, g, Image(With(c, key, rec), h, s))
  BY <1>1, <1>2 DEF UpdateIn
<1>4. QED BY <1>1, <1>3 DEF Effect, w, g

\* What the writes that no record is touched by make of an image.
LEMMA OtherEffects ==
  ASSUME NEW item, NEW c, NEW h, NEW drift, NEW s
  PROVE  /\ Effect(item, UpdateVolume, Image(c, h, s), Image(c, h, h))
         /\ \A id \in Ids, t \in Seq(Names) : Effect(item, WriteText(id, t), Image(c, h, s), Image(c, h, s))
         /\ h \in [next : {FirstID} \cup (FirstID .. MaxID + 1), files : Nat, folders : Nat] =>
            \A kind \in {"folder", "file"} :
               Effect(item, CountDown(kind), Image(c, h, s),
                      Image(c, [next |-> h.next,
                                files |-> IF kind = "folder" THEN h.files ELSE h.files - 1,
                                folders |-> IF kind = "folder" THEN h.folders - 1 ELSE h.folders], s))
<1> DEFINE g == Image(c, h, s)
<1>1. g.catalog = c /\ g.header = h /\ g.saved = s
  BY DEF Image
<1> HIDE DEF g
<1>2. Effect(item, UpdateVolume, g, Image(c, h, h))
  <2>1. UpdateVolume \in Writes /\ UpdateVolume.op = "save"
    BY DEF UpdateVolume, Writes
  <2>2. SaveIn(UpdateVolume, g, Image(c, h, h))
    BY <1>1, <2>1 DEF SaveIn
  <2>3. QED BY <2>1, <2>2 DEF Effect
<1>3. ASSUME NEW id \in Ids, NEW t \in Seq(Names) PROVE Effect(item, WriteText(id, t), g, g)
  <2>1. WriteText(id, t) \in Writes /\ WriteText(id, t).op = "text"
    BY DEF WriteText, Writes
  <2>2. QED BY <2>1 DEF Effect
<1>4. ASSUME h \in [next : {FirstID} \cup (FirstID .. MaxID + 1), files : Nat, folders : Nat], NEW kind \in {"folder", "file"}
      PROVE  Effect(item, CountDown(kind), g,
                    Image(c, [next |-> h.next,
                              files |-> IF kind = "folder" THEN h.files ELSE h.files - 1,
                              folders |-> IF kind = "folder" THEN h.folders - 1 ELSE h.folders], s))
  <2> DEFINE w == CountDown(kind)
             h2 == [next |-> h.next,
                    files |-> IF kind = "folder" THEN h.files ELSE h.files - 1,
                    folders |-> IF kind = "folder" THEN h.folders - 1 ELSE h.folders]
  <2>1. w \in Writes /\ w.op = "count" /\ w.kind = kind
    BY DEF CountDown, Writes
  <2>2. h2 = IF kind = "folder" THEN [h EXCEPT !.folders = h.folders - 1]
             ELSE [h EXCEPT !.files = h.files - 1]
    BY <1>4
  <2> HIDE DEF w, h2
  <2>3. CountIn(w, g, Image(c, h2, s))
    BY <1>1, <2>1, <2>2 DEF CountIn
  <2>4. Effect(item, w, g, Image(c, h2, s))
    BY <2>1, <2>3 DEF Effect
  <2>5. QED BY <2>4 DEF w, h2
<1>5. QED BY <1>2, <1>3, <1>4 DEF g

\* Sequences written out are concatenations of shorter ones.
LEMMA Concatenated ==
  ASSUME NEW S, NEW a \in Seq(S), NEW b \in Seq(S), NEW whole \in Seq(S),
         Len(whole) = Len(a) + Len(b),
         \A i \in 1 .. Len(a) : whole[i] = a[i],
         \A i \in 1 .. Len(b) : whole[Len(a) + i] = b[i]
  PROVE  a \o b = whole
<1>1. a \o b \in Seq(S) /\ Len(a \o b) = Len(whole) /\ Len(a) \in Nat /\ Len(b) \in Nat
  OBVIOUS
<1>2. ASSUME NEW i \in 1 .. Len(a \o b) PROVE (a \o b)[i] = whole[i]
  <2>1. CASE i <= Len(a)
    BY <1>1, <2>1
  <2>2. CASE i > Len(a)
    <3>1. (a \o b)[i] = b[i - Len(a)] /\ i - Len(a) \in 1 .. Len(b) /\ Len(a) + (i - Len(a)) = i
      BY <1>1, <2>2
    <3>2. QED BY <3>1
  <2>3. QED BY <1>1, <2>1, <2>2
<1> DEFINE l == a \o b
<1>3. l \in Seq(S) /\ Len(l) = Len(whole) /\ \A i \in 1 .. Len(l) : l[i] = whole[i]
  BY <1>1, <1>2
<1> HIDE DEF l
<1>4. l = whole
  BY <1>3, SeqEqual
<1>5. QED BY <1>4 DEF l

\* The writes of a call put together from shorter sequences, as in the lemmas below.
LEMMA TwoWrites ==
  ASSUME NEW v, NEW w
  PROVE  <<v>> \o <<w>> = <<v, w>>
<1> DEFINE S == {v, w}
           a == <<v>>
           b == <<w>>
           whole == <<v, w>>
<1>1. a \in Seq(S) /\ b \in Seq(S) /\ whole \in Seq(S)
      /\ Len(a) = 1 /\ Len(b) = 1 /\ Len(whole) = 2
  OBVIOUS
<1>2. \A i \in 1 .. 1 : whole[i] = a[i]
  OBVIOUS
<1>3. \A i \in 1 .. 1 : whole[1 + i] = b[i]
  OBVIOUS
<1> HIDE DEF a, b, whole, S
<1>4. a \o b = whole
  <2>1. Len(whole) = Len(a) + Len(b)
    BY <1>1
  <2>2. \A i \in 1 .. Len(a) : whole[i] = a[i]
    BY <1>1, <1>2
  <2>3. \A i \in 1 .. Len(b) : whole[Len(a) + i] = b[i]
    BY <1>1, <1>3
  <2>4. QED BY ONLY <1>1, <2>1, <2>2, <2>3, Concatenated
<1>5. QED BY <1>4 DEF a, b, whole

\* The same for three writes.
LEMMA ThreeWrites ==
  ASSUME NEW u, NEW v, NEW w
  PROVE  <<u, v>> \o <<w>> = <<u, v, w>>
<1> DEFINE S == {u, v, w}
           a == <<u, v>>
           b == <<w>>
           whole == <<u, v, w>>
<1>1. a \in Seq(S) /\ b \in Seq(S) /\ whole \in Seq(S)
      /\ Len(a) = 2 /\ Len(b) = 1 /\ Len(whole) = 3
  OBVIOUS
<1>2. \A i \in 1 .. 2 : whole[i] = a[i]
  OBVIOUS
<1>3. \A i \in 1 .. 1 : whole[2 + i] = b[i]
  OBVIOUS
<1> HIDE DEF a, b, whole, S
<1>4. a \o b = whole
  <2>1. Len(whole) = Len(a) + Len(b)
    BY <1>1
  <2>2. \A i \in 1 .. Len(a) : whole[i] = a[i]
    BY <1>1, <1>2
  <2>3. \A i \in 1 .. Len(b) : whole[Len(a) + i] = b[i]
    BY <1>1, <1>3
  <2>4. QED BY ONLY <1>1, <2>1, <2>2, <2>3, Concatenated
<1>5. QED BY <1>4 DEF a, b, whole

\* The same for four writes.
LEMMA FourWrites ==
  ASSUME NEW t, NEW u, NEW v, NEW w
  PROVE  <<t, u>> \o <<v, w>> = <<t, u, v, w>>
<1> DEFINE S == {t, u, v, w}
           a == <<t, u>>
           b == <<v, w>>
           whole == <<t, u, v, w>>
<1>1. a \in Seq(S) /\ b \in Seq(S) /\ whole \in Seq(S)
      /\ Len(a) = 2 /\ Len(b) = 2 /\ Len(whole) = 4
  OBVIOUS
<1>2. \A i \in 1 .. 2 : whole[i] = a[i]
  OBVIOUS
<1>3. \A i \in 1 .. 2 : whole[2 + i] = b[i]
  OBVIOUS
<1> HIDE DEF a, b, whole, S
<1>4. a \o b = whole
  <2>1. Len(whole) = Len(a) + Len(b)
    BY <1>1
  <2>2. \A i \in 1 .. Len(a) : whole[i] = a[i]
    BY <1>1, <1>2
  <2>3. \A i \in 1 .. Len(b) : whole[Len(a) + i] = b[i]
    BY <1>1, <1>3
  <2>4. QED BY ONLY <1>1, <2>1, <2>2, <2>3, Concatenated
<1>5. QED BY <1>4 DEF a, b, whole

\* The same for six writes.
LEMMA SixWrites ==
  ASSUME NEW r, NEW s, NEW t, NEW u, NEW v, NEW w
  PROVE  <<r, s, t, u>> \o <<v, w>> = <<r, s, t, u, v, w>>
<1> DEFINE S == {r, s, t, u, v, w}
           a == <<r, s, t, u>>
           b == <<v, w>>
           whole == <<r, s, t, u, v, w>>
<1>1. a \in Seq(S) /\ b \in Seq(S) /\ whole \in Seq(S)
      /\ Len(a) = 4 /\ Len(b) = 2 /\ Len(whole) = 6
  OBVIOUS
<1>2. \A i \in 1 .. 4 : whole[i] = a[i]
  OBVIOUS
<1>3. \A i \in 1 .. 2 : whole[4 + i] = b[i]
  OBVIOUS
<1> HIDE DEF a, b, whole, S
<1>4. a \o b = whole
  <2>1. Len(whole) = Len(a) + Len(b)
    BY <1>1
  <2>2. \A i \in 1 .. Len(a) : whole[i] = a[i]
    BY <1>1, <1>2
  <2>3. \A i \in 1 .. Len(b) : whole[Len(a) + i] = b[i]
    BY <1>1, <1>3
  <2>4. QED BY ONLY <1>1, <2>1, <2>2, <2>3, Concatenated
<1>5. QED BY <1>4 DEF a, b, whole

\* Two, three and four writes.
LEMMA LeadsTwo ==
  ASSUME NEW item, NEW v, NEW w, NEW g, NEW mid, NEW new,
         Effect(item, v, g, mid), Effect(item, w, mid, new)
  PROVE  Leads(item, <<v, w>>, g, new)
<1>1. Leads(item, <<v>>, g, mid) /\ Leads(item, <<w>>, mid, new)
  BY LeadsOne
<1>2. Leads(item, <<v>> \o <<w>>, g, new)
  BY <1>1, LeadsThen
<1>3. <<v>> \o <<w>> = <<v, w>>
  BY TwoWrites
<1>4. QED BY <1>2, <1>3

\* Three writes lead where each leads from where the one before it has led.
LEMMA LeadsThree ==
  ASSUME NEW item, NEW u, NEW v, NEW w, NEW g, NEW one, NEW two, NEW new,
         Effect(item, u, g, one), Effect(item, v, one, two), Effect(item, w, two, new)
  PROVE  Leads(item, <<u, v, w>>, g, new)
<1>1. Leads(item, <<u, v>>, g, two) /\ Leads(item, <<w>>, two, new)
  BY LeadsOne, LeadsTwo
<1>2. Leads(item, <<u, v>> \o <<w>>, g, new)
  BY <1>1, LeadsThen
<1>3. <<u, v>> \o <<w>> = <<u, v, w>>
  BY ThreeWrites
<1>4. QED BY <1>2, <1>3

\* The same for four writes.
LEMMA LeadsFour ==
  ASSUME NEW item, NEW t, NEW u, NEW v, NEW w, NEW g, NEW one, NEW two, NEW three, NEW new,
         Effect(item, t, g, one), Effect(item, u, one, two), Effect(item, v, two, three),
         Effect(item, w, three, new)
  PROVE  Leads(item, <<t, u, v, w>>, g, new)
<1>1. Leads(item, <<t, u>>, g, two) /\ Leads(item, <<v, w>>, two, new)
  BY LeadsTwo
<1>2. Leads(item, <<t, u>> \o <<v, w>>, g, new)
  BY <1>1, LeadsThen
<1>3. <<t, u>> \o <<v, w>> = <<t, u, v, w>>
  BY FourWrites
<1>4. QED BY <1>2, <1>3

\* A catalog with one record put in: its keys, and its records.
LEMMA WithFacts ==
  ASSUME NEW c, NEW key, NEW rec
  PROVE  /\ DOMAIN With(c, key, rec) = DOMAIN c \cup {key}
         /\ With(c, key, rec)[key] = rec
         /\ \A k \in DOMAIN c : k # key => With(c, key, rec)[k] = c[k]
         /\ DOMAIN Without(c, key) = DOMAIN c \ {key}
         /\ \A k \in DOMAIN c \ {key} : Without(c, key)[k] = c[k]
BY DEF With, Without, Restrict

\* newFolder and newFile.
LEMMA CreateLeads ==
  ASSUME NEW c, NEW h, NEW drift, NEW at \in ItemKeys(c), NEW name \in Names, NEW rec \in FolderRecs \cup FileRecs,
         NEW now, NEW s, Good(c, h, drift), c[at].kind = "folder", <<c[at].id, name>> \notin DOMAIN c,
         rec.id = h.next
  PROVE  Leads(h.next,
               <<AddRecord(<<c[at].id, name>>, rec), AddRecord(ThreadKey(h.next), Thread(c[at].id, name)),
                 UpdateCatalog(More(c[at])), UpdateVolume>>,
               Image(c, now, s),
               Image(With(With(With(c, <<c[at].id, name>>, rec), ThreadKey(h.next), Thread(c[at].id, name)),
                          at, More(c[at])), now, now))
<1> DEFINE N == h.next
           P == c[at].id
           K == <<P, name>>
           T == ThreadKey(N)
           thread == Thread(P, name)
           more == More(c[at])
           c1 == With(c, K, rec)
           c2 == With(c1, T, thread)
           c3 == With(c2, at, more)
<1>1. Typed(c, h)
  BY DEF Good
<1>2. P \in Nat /\ N \in Nat /\ N # P /\ ThreadKey(P) \in DOMAIN c /\ Place(c, P) = at
  BY GoodFacts DEF Root
<1>3. K \in Keys /\ T \in Keys /\ K # T /\ T \notin DOMAIN c /\ K \notin DOMAIN c
  <2>1. T \notin DOMAIN c
    BY <1>2, GoodFacts
  <2>2. QED BY <1>2, <2>1 DEF Keys, ThreadKey
<1>4. at \in DOMAIN c /\ at \in Keys /\ at # T /\ at # K /\ more \in FolderRecs /\ more.id = P
      /\ more.kind = "folder"
  BY <1>1, <1>3, KeyFacts, ValenceCopies
<1>5. rec \in Recs /\ thread \in Recs
  BY <1>2 DEF Recs, Thread, ThreadRecs
<1>6. ThreadKey(P) # T /\ ThreadKey(P) # K
  BY <1>2 DEF ThreadKey
<1> HIDE DEF N, P, K, T, thread, more
<1>7. Effect(N, AddRecord(K, rec), Image(c, now, s), Image(c1, now, s))
  BY <1>3, <1>5, AddEffect
<1>8. DOMAIN c1 = DOMAIN c \cup {K} /\ \A k \in DOMAIN c : c1[k] = c[k]
  BY <1>3 DEF With
<1>9. Effect(N, AddRecord(T, thread), Image(c1, now, s), Image(c2, now, s))
  <2> HIDE DEF c1
  <2> QED BY <1>3, <1>5, <1>8, AddEffect
<1>10. DOMAIN c2 = DOMAIN c \cup {K, T} /\ \A k \in DOMAIN c : c2[k] = c[k]
  <2> HIDE DEF c1
  <2> QED BY <1>3, <1>8 DEF With
<1>11. Effect(N, UpdateCatalog(more), Image(c2, now, s), Image(c3, now, s))
  <2>1. Place(c2, P) = at /\ ThreadKey(P) \in DOMAIN c2 /\ at \in DOMAIN c2
    <3> HIDE DEF c2
    <3> QED BY <1>2, <1>4, <1>10 DEF Place
  <2>2. SameItem(more, c2[at])
    <3> HIDE DEF c2
    <3> QED BY <1>4, <1>10 DEF SameItem, P
  <2> HIDE DEF c2
  <2>3. QED BY <1>4, <2>1, <2>2, UpdateEffect
<1>12. Effect(N, UpdateVolume, Image(c3, now, s), Image(c3, now, now))
  BY OtherEffects
<1>13. Leads(N, <<AddRecord(K, rec), AddRecord(T, thread), UpdateCatalog(more), UpdateVolume>>,
             Image(c, now, s), Image(c3, now, now))
  <2> HIDE DEF c1, c2, c3
  <2> QED BY <1>7, <1>9, <1>11, <1>12, LeadsFour
<1>14. QED BY <1>13 DEF N, P, K, T, thread, more

\* A record of an item written again as it is.
LEMMA SameAgain ==
  ASSUME NEW c, NEW h, NEW drift, NEW key \in ItemKeys(c), Typed(c, h)
  PROVE  With(c, key, c[key]) = c
<1>1. key \in DOMAIN c /\ c = [k \in DOMAIN c |-> c[k]]
  BY KeyFacts DEF Typed
<1>2. DOMAIN c \cup {key} = DOMAIN c
  BY <1>1
<1>3. With(c, key, c[key]) = [k \in DOMAIN c |-> c[k]]
  BY <1>2 DEF With
<1>4. QED BY <1>1, <1>3

\* A record of an item that is there, saying the same of it.
LEMMA RewriteEffect ==
  ASSUME NEW item, NEW c, NEW h, NEW drift, NEW now, NEW s, NEW key \in ItemKeys(c), NEW rec \in FolderRecs \cup FileRecs,
         Good(c, h, drift), SameItem(rec, c[key])
  PROVE  Effect(item, UpdateCatalog(rec), Image(c, now, s), Image(With(c, key, rec), now, s))
<1>1. key \in Keys /\ key \in DOMAIN c /\ rec.id = c[key].id
  BY KeyFacts DEF Good, SameItem
<1>2. ThreadKey(rec.id) \in DOMAIN c /\ Place(c, rec.id) = key
  BY <1>1, GoodFacts
<1>3. QED BY <1>1, <1>2, UpdateEffect

\* allocate().
LEMMA ResizeLeads ==
  ASSUME NEW item, NEW c, NEW h, NEW drift, NEW now, NEW s, NEW key \in ItemKeys(c), Good(c, h, drift)
  PROVE  Leads(item, Resize(c[key]), Image(c, now, s), Image(c, now, now))
<1>1. c[key] \in FolderRecs \cup FileRecs
  BY KeyFacts DEF Good
<1>2. Effect(item, UpdateCatalog(c[key]), Image(c, now, now), Image(With(c, key, c[key]), now, now))
  <2>1. SameItem(c[key], c[key])
    BY DEF SameItem
  <2>2. QED BY <1>1, <2>1, RewriteEffect
<1>3. With(c, key, c[key]) = c
  BY SameAgain DEF Good
<1>4. Effect(item, UpdateVolume, Image(c, now, s), Image(c, now, now))
  BY OtherEffects
<1>5. QED BY <1>2, <1>3, <1>4, LeadsTwo DEF Resize

\* To make no write leads to the image itself.
LEMMA LeadsNothing ==
  ASSUME NEW item, NEW g
  PROVE  Leads(item, <<>>, g, g)
<1> DEFINE tr == [i \in 0 .. 0 |-> g]
<1>1. Trace(tr, item, <<>>, g, g)
  BY DEF Trace
<1>2. <<>> \in Seq(Writes)
  OBVIOUS
<1>3. QED BY <1>1, <1>2 DEF Leads

\* removeFile.
LEMMA RemoveLeads ==
  ASSUME NEW c, NEW h, NEW drift, NEW key \in Items(c), NEW at, NEW s, Good(c, h, drift),
         at = Place(c, key[1])
  PROVE  LET h2 == [next |-> h.next,
                    files |-> IF c[key].kind = "folder" THEN h.files ELSE h.files - 1,
                    folders |-> IF c[key].kind = "folder" THEN h.folders - 1 ELSE h.folders]
         IN  Leads(c[key].id, RemoveRecord(key, c[key]) \o LeaveParent(c[key].kind, c[at]),
                   Image(c, h, s),
                   Image(With(Without(Without(c, key), ThreadKey(c[key].id)), at, Less(c[at])), h2, h2))
<1> DEFINE rec == c[key]
           id == rec.id
           T == ThreadKey(id)
           P == key[1]
           less == Less(c[at])
           h2 == [next |-> h.next,
                  files |-> IF rec.kind = "folder" THEN h.files ELSE h.files - 1,
                  folders |-> IF rec.kind = "folder" THEN h.folders - 1 ELSE h.folders]
           c1 == Without(c, key)
           c2 == Without(c1, T)
           c3 == With(c2, at, less)
           saved == IF rec.kind = "file" THEN h ELSE s
           fork == IF rec.kind = "file" THEN <<WriteText(rec.id, <<>>)>> \o Resize(rec) ELSE <<>>
<1>1. Typed(c, h)
  BY DEF Good
<1>2. /\ key \in ItemKeys(c) /\ key \in DOMAIN c /\ key \in Keys
      /\ rec \in FolderRecs \cup FileRecs /\ rec.kind \in {"folder", "file"}
      /\ T \in DOMAIN c /\ T \in Keys /\ T # key /\ T[1] = id /\ c[T].kind = "thread" /\ id \in Ids
  <2>1. key \in ItemKeys(c)
    BY DEF Items
  <2>2. /\ key \in DOMAIN c /\ key \in Keys
        /\ rec \in FolderRecs \cup FileRecs /\ rec.kind \in {"folder", "file"}
    BY <1>1, <2>1, KeyFacts
  <2>3. T \in DOMAIN c
    BY <2>1, GoodFacts
  <2>4. T \in DOMAIN c \ ItemKeys(c) /\ T[1] = id
    BY <1>1, <2>3, KeyFacts
  <2>5. c[T].kind = "thread" /\ T \in Keys /\ T # key
    BY <1>1, <2>1, <2>4, KeyFacts DEF Typed
  <2>6. id \in FirstID .. h.next - 1 /\ h.next \in {FirstID} \cup (FirstID .. MaxID + 1)
    BY <1>1 DEF Good, Filed, Typed
  <2>7. id \in Ids
    BY <2>6 DEF Ids, FirstID
  <2>8. QED BY <2>1, <2>2, <2>3, <2>4, <2>5, <2>7
<1>3. /\ at \in ItemKeys(c) /\ at \in DOMAIN c /\ at \in Keys /\ c[at].id = P /\ at # key /\ at # T
      /\ ThreadKey(P) \in DOMAIN c /\ id # P
      /\ less \in FolderRecs /\ less.id = P /\ less.kind = "folder" /\ c[at].kind = "folder"
  <2>1. at \in ItemKeys(c) /\ c[at].id = P /\ at # key /\ c[at].kind = "folder"
        /\ ThreadKey(P) \in DOMAIN c /\ id # P
    BY ParentFacts
  <2>2. at \in DOMAIN c /\ at \in Keys /\ less \in FolderRecs /\ less.id = P /\ less.kind = "folder"
    BY <1>1, <2>1, KeyFacts, ValenceCopies
  <2>3. at # T
    BY <1>1, <1>2, <2>1, KeyFacts
  <2>4. QED BY <2>1, <2>2, <2>3
<1>4. ThreadKey(P) # T /\ ThreadKey(P) # key
  BY <1>2, <1>3 DEF ThreadKey, ItemKeys
<1>5. Leads(id, fork, Image(c, h, s), Image(c, h, saved))
  <2>1. CASE rec.kind = "file"
    <3>1. Leads(id, <<WriteText(id, <<>>)>>, Image(c, h, s), Image(c, h, s))
      <4>1. <<>> \in Seq(Names)
        OBVIOUS
      <4> HIDE DEF id
      <4>2. Effect(id, WriteText(id, <<>>), Image(c, h, s), Image(c, h, s))
        BY <1>2, <4>1, OtherEffects
      <4>3. QED BY <4>2, LeadsOne
    <3>2. Leads(id, Resize(rec), Image(c, h, s), Image(c, h, h))
      BY <1>2, ResizeLeads
    <3> HIDE DEF id, rec
    <3>3. Leads(id, <<WriteText(id, <<>>)>> \o Resize(rec), Image(c, h, s), Image(c, h, h))
      BY <3>1, <3>2, LeadsThen
    <3>4. QED BY <2>1, <3>3 DEF id
  <2>2. CASE rec.kind # "file"
    BY <2>2, LeadsNothing
  <2>3. QED BY <2>1, <2>2
<1>6. h \in [next : {FirstID} \cup (FirstID .. MaxID + 1), files : Nat, folders : Nat]
  BY <1>1 DEF Typed
<1>7. Owner(key, c[key]) = id /\ Owner(T, c[T]) = id
  BY <1>2 DEF Owner
<1>8. RemoveRecord(key, rec) = fork \o <<RemoveKey(key), RemoveKey(T)>>
  BY DEF RemoveRecord
<1>9. rec = c[key] /\ id = rec.id /\ T = ThreadKey(id) /\ less = Less(c[at])
  OBVIOUS
<1> HIDE DEF rec, id, T, P, less, fork, saved
<1>10. Effect(id, RemoveKey(key), Image(c, h, saved), Image(c1, h, saved))
  BY <1>2, <1>7, RemoveEffect
<1>11. DOMAIN c1 = DOMAIN c \ {key} /\ \A k \in DOMAIN c1 : c1[k] = c[k]
  BY DEF Without, Restrict
<1>12. Effect(id, RemoveKey(T), Image(c1, h, saved), Image(c2, h, saved))
  <2> HIDE DEF c1
  <2>1. T \in DOMAIN c1 /\ Owner(T, c1[T]) = id
    BY <1>2, <1>7, <1>11
  <2>2. QED BY <1>2, <2>1, RemoveEffect
<1>13. DOMAIN c2 = DOMAIN c \ {key, T} /\ \A k \in DOMAIN c2 : c2[k] = c[k]
  <2> HIDE DEF c1
  <2> QED BY <1>11 DEF Without, Restrict
<1>14. Effect(id, CountDown(rec.kind), Image(c2, h, saved), Image(c2, h2, saved))
  <2> HIDE DEF c2
  <2> QED BY <1>2, <1>6, OtherEffects
<1>15. Effect(id, UpdateCatalog(less), Image(c2, h2, saved), Image(c3, h2, saved))
  <2> HIDE DEF c2, h2
  <2>1. ThreadKey(less.id) \in DOMAIN c2 /\ Place(c2, less.id) = at /\ at \in DOMAIN c2
    BY <1>3, <1>4, <1>13 DEF Place, P
  <2>2. SameItem(less, c2[at])
    BY <1>3, <1>13, <2>1 DEF SameItem
  <2>3. QED BY <1>3, <2>1, <2>2, UpdateEffect
<1>16. Effect(id, UpdateVolume, Image(c3, h2, saved), Image(c3, h2, h2))
  BY OtherEffects
<1> HIDE DEF c1, c2, c3, h2
<1>17. Leads(id, <<RemoveKey(key), RemoveKey(T)>>, Image(c, h, saved), Image(c2, h, saved))
  BY <1>10, <1>12, LeadsTwo
<1>18. Leads(id, <<CountDown(rec.kind), UpdateCatalog(less), UpdateVolume>>,
             Image(c2, h, saved), Image(c3, h2, h2))
  BY <1>14, <1>15, <1>16, LeadsThree
<1>19. Leads(id, fork \o <<RemoveKey(key), RemoveKey(T)>>, Image(c, h, s), Image(c2, h, saved))
  BY <1>5, <1>17, LeadsThen
<1>20. Leads(id, (fork \o <<RemoveKey(key), RemoveKey(T)>>)
                 \o <<CountDown(rec.kind), UpdateCatalog(less), UpdateVolume>>,
             Image(c, h, s), Image(c3, h2, h2))
  BY <1>18, <1>19, LeadsThen
<1>21. LeaveParent(rec.kind, c[at]) = <<CountDown(rec.kind), UpdateCatalog(less), UpdateVolume>>
  BY DEF LeaveParent, less
<1>22. Leads(id, RemoveRecord(key, rec) \o LeaveParent(rec.kind, c[at]), Image(c, h, s), Image(c3, h2, h2))
  BY <1>20, <1>21, <1>8
<1>23. QED BY <1>22 DEF c1, c2, c3, h2, rec, id, T, less

\* move().
LEMMA MoveLeads ==
  ASSUME NEW c, NEW h, NEW drift, NEW key \in Items(c), NEW from, NEW to \in ItemKeys(c), NEW name \in Names, NEW s,
         Good(c, h, drift), from = Place(c, key[1]), c[to].kind = "folder",
         c[to].id # c[key].id, <<c[to].id, name>> \notin DOMAIN c \ {key}
  PROVE  Leads(c[key].id,
               <<RemoveKey(key), RemoveKey(ThreadKey(c[key].id)), AddRecord(<<c[to].id, name>>, c[key]),
                 AddRecord(ThreadKey(c[key].id), Thread(c[to].id, name)),
                 UpdateCatalog(Less(c[from])), UpdateCatalog(More(c[to]))>>,
               Image(c, h, s),
               Image(With(With(With(With(Without(Without(c, key), ThreadKey(c[key].id)),
                                         <<c[to].id, name>>, c[key]),
                                    ThreadKey(c[key].id), Thread(c[to].id, name)),
                               from, Less(c[from])),
                          to, More(c[to])), h, s))
<1> DEFINE rec == c[key]
           id == rec.id
           T == ThreadKey(id)
           P == key[1]
           Q == c[to].id
           new == <<Q, name>>
           less == Less(c[from])
           more == More(c[to])
           thread == Thread(Q, name)
           c1 == Without(c, key)
           c2 == Without(c1, T)
           c3 == With(c2, new, rec)
           c4 == With(c3, T, thread)
           c5 == With(c4, from, less)
           c6 == With(c5, to, more)
<1>1. Typed(c, h)
  BY DEF Good
<1>2. /\ key \in ItemKeys(c) /\ key \in DOMAIN c /\ key \in Keys
      /\ rec \in FolderRecs \cup FileRecs /\ rec.kind \in {"folder", "file"} /\ rec \in Recs
      /\ T \in DOMAIN c /\ T \in Keys /\ T # key /\ T[1] = id /\ c[T].kind = "thread"
      /\ T \notin ItemKeys(c)
  <2>1. key \in ItemKeys(c)
    BY DEF Items
  <2>2. /\ key \in DOMAIN c /\ key \in Keys
        /\ rec \in FolderRecs \cup FileRecs /\ rec.kind \in {"folder", "file"}
    BY <1>1, <2>1, KeyFacts
  <2>3. T \in DOMAIN c
    BY <2>1, GoodFacts
  <2>4. T \in DOMAIN c \ ItemKeys(c) /\ T[1] = id
    BY <1>1, <2>3, KeyFacts
  <2>5. c[T].kind = "thread" /\ T \in Keys /\ T # key
    BY <1>1, <2>1, <2>4, KeyFacts DEF Typed
  <2>6. QED BY <2>1, <2>2, <2>3, <2>4, <2>5 DEF Recs
<1>3. /\ from \in ItemKeys(c) /\ from \in DOMAIN c /\ from \in Keys /\ c[from].id = P
      /\ from # key /\ from # T /\ (from = to => P = Q)
      /\ ThreadKey(P) \in DOMAIN c /\ id # P
      /\ less \in FolderRecs /\ less.id = P /\ less.kind = "folder" /\ c[from].kind = "folder"
  <2>1. from \in ItemKeys(c) /\ c[from].id = P /\ from # key /\ c[from].kind = "folder"
        /\ ThreadKey(P) \in DOMAIN c /\ id # P
    BY ParentFacts
  <2>2. from \in DOMAIN c /\ from \in Keys /\ less \in FolderRecs /\ less.id = P /\ less.kind = "folder"
    BY <1>1, <2>1, KeyFacts, ValenceCopies
  <2>3. QED BY <1>2, <2>1, <2>2
<1>4. /\ to \in DOMAIN c /\ to \in Keys /\ to # T /\ to # key
      /\ ThreadKey(Q) \in DOMAIN c /\ Place(c, Q) = to /\ Q # id /\ Q \in Nat
      /\ more \in FolderRecs /\ more.id = Q /\ more.kind = "folder"
  <2>1. to \in DOMAIN c /\ to \in Keys /\ to # T /\ to # key
    BY <1>1, <1>2, KeyFacts
  <2>2. ThreadKey(Q) \in DOMAIN c /\ Place(c, Q) = to
    BY GoodFacts
  <2>3. more \in FolderRecs /\ more.id = Q /\ more.kind = "folder" /\ Q \in Nat
    BY <1>1, ValenceCopies
  <2>4. QED BY <2>1, <2>2, <2>3
<1>5. new \notin DOMAIN c \ {key} /\ new \in Keys /\ new # T /\ new # from /\ new # to
      /\ thread \in Recs
  <2>1. new \notin DOMAIN c \ {key} /\ new \in Keys /\ thread \in Recs
    BY <1>4 DEF Keys, Recs, Thread, ThreadRecs
  <2>2. QED BY <1>2, <1>3, <1>4, <2>1
<1>6. \A i : ThreadKey(i) \in DOMAIN c => ThreadKey(i) \notin {key, new, from, to} /\ (i # id => ThreadKey(i) # T)
  <2>1. \A i : ThreadKey(i) \in DOMAIN c => ThreadKey(i) \notin ItemKeys(c)
    BY <1>1, KeyFacts
  <2>2. QED BY <1>2, <1>3, <1>5, <2>1 DEF ThreadKey
<1>7. Owner(key, c[key]) = id /\ Owner(T, c[T]) = id
  BY <1>2 DEF Owner
<1>8. P = key[1] /\ Q = c[to].id
  OBVIOUS
<1> HIDE DEF rec, id, T, P, Q, new, less, more, thread
<1>9. Effect(id, RemoveKey(key), Image(c, h, s), Image(c1, h, s))
  BY <1>2, <1>7, RemoveEffect
<1>10. DOMAIN c1 = DOMAIN c \ {key} /\ \A k \in DOMAIN c1 : c1[k] = c[k]
  BY DEF Without, Restrict
<1>11. Effect(id, RemoveKey(T), Image(c1, h, s), Image(c2, h, s))
  <2> HIDE DEF c1
  <2>1. T \in DOMAIN c1 /\ Owner(T, c1[T]) = id
    BY <1>2, <1>7, <1>10
  <2>2. QED BY <1>2, <2>1, RemoveEffect
<1>12. DOMAIN c2 = DOMAIN c \ {key, T} /\ \A k \in DOMAIN c2 : c2[k] = c[k]
  <2> HIDE DEF c1
  <2> QED BY <1>10 DEF Without, Restrict
<1>13. Effect(id, AddRecord(new, rec), Image(c2, h, s), Image(c3, h, s))
  <2> HIDE DEF c2
  <2>1. new \notin DOMAIN c2
    BY <1>5, <1>12
  <2>2. QED BY <1>2, <1>5, <2>1, AddEffect
<1>14. DOMAIN c3 = (DOMAIN c \ {key, T}) \cup {new} /\ \A k \in DOMAIN c \ {key, T} : c3[k] = c[k]
  <2> HIDE DEF c2
  <2> QED BY <1>5, <1>12 DEF With
<1>15. Effect(id, AddRecord(T, thread), Image(c3, h, s), Image(c4, h, s))
  <2> HIDE DEF c3
  <2>1. T \notin DOMAIN c3
    BY <1>5, <1>14
  <2>2. QED BY <1>2, <1>5, <2>1, AddEffect
<1>16. DOMAIN c4 = (DOMAIN c \ {key}) \cup {new} /\ \A k \in DOMAIN c \ {key, T} : c4[k] = c[k]
  <2> HIDE DEF c3
  <2> QED BY <1>2, <1>14 DEF With
<1>17. Effect(id, UpdateCatalog(less), Image(c4, h, s), Image(c5, h, s))
  <2> HIDE DEF c4
  <2>1. ThreadKey(P) \in DOMAIN c \ {key, T}
    BY <1>3, <1>6
  <2>2. ThreadKey(less.id) \in DOMAIN c4 /\ Place(c4, less.id) = from /\ from \in DOMAIN c4
    BY <1>3, <1>16, <2>1 DEF Place, P
  <2>3. SameItem(less, c4[from])
    BY <1>3, <1>16 DEF SameItem
  <2>4. QED BY <1>3, <2>2, <2>3, UpdateEffect
<1>18. DOMAIN c5 = (DOMAIN c \ {key}) \cup {new} /\ \A k \in DOMAIN c \ {key, T, from} : c5[k] = c[k]
  <2> HIDE DEF c4
  <2> QED BY <1>3, <1>16 DEF With
<1>19. Effect(id, UpdateCatalog(more), Image(c5, h, s), Image(c6, h, s))
  <2> HIDE DEF c5
  <2>1. ThreadKey(Q) \in DOMAIN c \ {key, T, from}
    BY <1>4, <1>6
  <2>2. ThreadKey(more.id) \in DOMAIN c5 /\ Place(c5, more.id) = to /\ to \in DOMAIN c5
    BY <1>4, <1>18, <2>1 DEF Place
  <2>3. SameItem(more, c5[to])
    <3>1. CASE from = to
      <4>1. c5[to] = less
        <5> HIDE DEF c4
        <5>1. QED BY ONLY <3>1 DEF With, c5
      <4>2. QED BY <1>3, <1>4, <3>1, <4>1 DEF SameItem
    <3>2. CASE from # to
      BY <1>3, <1>4, <1>18, <3>2 DEF SameItem, Q
    <3>3. QED BY <3>1, <3>2
  <2>4. QED BY <1>4, <2>2, <2>3, UpdateEffect
<1> HIDE DEF c1, c2, c3, c4, c5, c6
<1>20. Leads(id, <<RemoveKey(key), RemoveKey(T), AddRecord(new, rec), AddRecord(T, thread)>>,
             Image(c, h, s), Image(c4, h, s))
  BY <1>9, <1>11, <1>13, <1>15, LeadsFour
<1>21. Leads(id, <<UpdateCatalog(less), UpdateCatalog(more)>>, Image(c4, h, s), Image(c6, h, s))
  BY <1>17, <1>19, LeadsTwo
<1>22. Leads(id, <<RemoveKey(key), RemoveKey(T), AddRecord(new, rec), AddRecord(T, thread),
                   UpdateCatalog(less), UpdateCatalog(more)>>,
             Image(c, h, s), Image(c6, h, s))
  <2>1. Leads(id, <<RemoveKey(key), RemoveKey(T), AddRecord(new, rec), AddRecord(T, thread)>>
                  \o <<UpdateCatalog(less), UpdateCatalog(more)>>,
              Image(c, h, s), Image(c6, h, s))
    BY ONLY <1>20, <1>21, LeadsThen
  <2>2. <<RemoveKey(key), RemoveKey(T), AddRecord(new, rec), AddRecord(T, thread)>>
        \o <<UpdateCatalog(less), UpdateCatalog(more)>>
        = <<RemoveKey(key), RemoveKey(T), AddRecord(new, rec), AddRecord(T, thread),
            UpdateCatalog(less), UpdateCatalog(more)>>
    BY ONLY SixWrites
  <2>3. QED BY ONLY <2>1, <2>2
<1>23. QED BY <1>22 DEF c1, c2, c3, c4, c5, c6, rec, id, T, Q, new, less, more, thread

-----------------------------------------------------------------------------
(* The lookups *)

Texts == text \in [Ids -> Seq(Names)]

\* A word of a walk: as long as there are words, the key is the folder reached.
Reached ==
    {w \in [folder : Nat, words : Seq(Names), key : Keys] :
        /\ w.key = NoKey \/ w.key \in ItemKeys(catalog)
        /\ w.words # <<>> => w.key # NoKey /\ catalog[w.key].kind = "folder"
        /\ w.key # NoKey /\ catalog[w.key].kind = "folder" => catalog[w.key].id = w.folder}

\* What a lookup says when there is nothing is the key of no item.
LEMMA NoKeyFacts ==
  ASSUME Good(catalog, header, renamed)
  PROVE  NoKey \in Keys /\ NoKey \notin ItemKeys(catalog) /\ NoKey # RootKey
<1>1. NoKey[2] = NoName /\ RootKey[2] = VolumeName /\ NoName # VolumeName
  BY DEF NoKey, RootKey
<1>2. NoKey \in Keys
  BY DEF NoKey, Keys
<1>3. QED BY <1>1, <1>2 DEF ItemKeys

\* A file is never the root, and its id is one that was given.
LEMMA FileIds ==
  ASSUME Good(catalog, header, renamed), NEW key \in ItemKeys(catalog), catalog[key].kind = "file"
  PROVE  key \in Items(catalog) /\ catalog[key].id \in Ids /\ catalog[key].link \in BOOLEAN
         /\ catalog[key] \in FileRecs
<1>1. key \in Items(catalog)
  BY DEF Good, Rooted, Items
<1>2. catalog[key].id \in FirstID .. header.next - 1 /\ header.next \in {FirstID} \cup (FirstID .. MaxID + 1)
  BY <1>1 DEF Good, Filed, Typed
<1>3. catalog[key] \in FolderRecs \cup FileRecs
  BY KeyFacts DEF Good
<1>4. catalog[key] \in FileRecs
  BY <1>3 DEF FolderRecs, FileRecs
<1>5. catalog[key].id \in Ids
  <2>1. MaxID \in Nat
    OBVIOUS
  <2> DEFINE id == catalog[key].id
             next == header.next
  <2>2. id \in FirstID .. next - 1 /\ next \in {FirstID} \cup (FirstID .. MaxID + 1)
    BY <1>2
  <2> HIDE DEF id, next
  <2>3. id \in Ids
    BY <2>1, <2>2 DEF Ids, FirstID
  <2>4. QED BY <2>3 DEF id
<1>6. QED BY <1>1, <1>4, <1>5 DEF FileRecs

\* How far a lookup can have come: in a folder, or at its end.
LEMMA ReachedFacts ==
  ASSUME NEW folder \in Nat, NEW words \in Seq(Names), NEW key \in Keys,
         key = NoKey \/ key \in ItemKeys(catalog),
         words # <<>> => key # NoKey /\ catalog[key].kind = "folder",
         key # NoKey /\ catalog[key].kind = "folder" => catalog[key].id = folder
  PROVE  [folder |-> folder, words |-> words, key |-> key] \in Reached
BY DEF Reached

\* The key of the first word, and what the next words are then.
LEMMA WordStep ==
  ASSUME Good(catalog, header, renamed), Texts, NEW w \in Reached, NEW r \in BOOLEAN
  PROVE  NextWord(w, r) \in Reached
<1> DEFINE key == <<w.folder, Head(w.words)>>
           rest == Tail(w.words)
           rec == catalog[key]
           new == NextWord(w, r)
<1>1. w.folder \in Nat /\ w.words \in Seq(Names) /\ w.key \in Keys
      /\ (w.key = NoKey \/ w.key \in ItemKeys(catalog))
      /\ (w.words # <<>> => w.key # NoKey /\ catalog[w.key].kind = "folder")
      /\ (w.key # NoKey /\ catalog[w.key].kind = "folder" => catalog[w.key].id = w.folder)
  BY DEF Reached
<1>2. CASE w.words = <<>>
  BY <1>2 DEF NextWord
<1>3. CASE w.words # <<>>
  <2>1. Head(w.words) \in Names /\ rest \in Seq(Names)
    BY <1>1, <1>3
  <2>2. <<>> \in Seq(Names)
    OBVIOUS
  <2>3. [folder |-> 0, words |-> <<>>, key |-> NoKey] \in Reached
    BY <2>2, NoKeyFacts DEF Reached
  <2>4. CASE key \notin DOMAIN catalog
    BY <1>3, <2>3, <2>4 DEF NextWord
  <2>5. CASE key \in DOMAIN catalog
    <3>1. key \in ItemKeys(catalog) /\ key # NoKey
      <4>1. key[2] = Head(w.words) /\ key[2] # NoName
        BY <2>1
      <4>2. key \in ItemKeys(catalog)
        BY <2>5, <4>1 DEF ItemKeys
      <4>3. QED BY <4>2, NoKeyFacts
    <3>2. key \in Keys /\ rec.id \in Nat /\ rec.kind \in {"folder", "file"}
      BY <3>1, KeyFacts DEF Good
    <3>3. CASE rec.kind = "folder"
      <4>1. new = [folder |-> rec.id, words |-> rest, key |-> key]
        BY <1>3, <2>5, <3>3 DEF NextWord
      <4>2. QED BY <2>1, <3>1, <3>2, <3>3, <4>1, ReachedFacts
    <3>4. CASE rec.kind = "file"
      <4>1. rec.id \in Ids /\ text[rec.id] \in Seq(Names)
        BY <3>1, <3>4, FileIds DEF Texts
      <4>2. CASE rec.link /\ (r \/ rest # <<>>) /\ text[rec.id] = <<>>
        <5>1. new = [folder |-> Root, words |-> rest, key |-> RootKey]
          BY <1>3, <2>5, <3>4, <4>2 DEF NextWord
        <5>2. RootKey \in ItemKeys(catalog) /\ RootKey \in Keys
              /\ catalog[RootKey].kind = "folder" /\ catalog[RootKey].id = Root /\ Root \in Nat
          <6>1. RootKey \in ItemKeys(catalog)
            BY GoodFacts
          <6>2. QED BY <6>1, KeyFacts DEF Good, Rooted, Root
        <5>3. QED BY <2>1, <5>1, <5>2, NoKeyFacts, ReachedFacts
      <4>3. CASE rec.link /\ (r \/ rest # <<>>) /\ text[rec.id] # <<>>
        <5>1. new = [folder |-> w.folder, words |-> text[rec.id] \o rest, key |-> w.key]
          BY <1>3, <2>5, <3>4, <4>3 DEF NextWord
        <5>2. text[rec.id] \o rest \in Seq(Names)
          BY <2>1, <4>1
        <5>3. QED BY <1>1, <1>3, <5>1, <5>2, ReachedFacts
      <4>4. CASE ~(rec.link /\ (r \/ rest # <<>>))
        <5>1. new = [folder |-> 0, words |-> <<>>, key |-> IF rest = <<>> THEN key ELSE NoKey]
          BY <1>3, <2>5, <3>4, <4>4 DEF NextWord
        <5>2. CASE rest = <<>>
          <6>1. new = [folder |-> 0, words |-> <<>>, key |-> key]
            BY <5>1, <5>2
          <6>2. ~(catalog[key].kind = "folder")
            BY <3>4
          <6>3. [folder |-> 0, words |-> <<>>, key |-> key] \in Reached
            <7>1. key \in Keys /\ key \in ItemKeys(catalog) /\ ~(catalog[key].kind = "folder") /\ 0 \in Nat
              BY <3>1, <3>2, <6>2
            <7> HIDE DEF key
            <7>2. QED BY <2>2, <7>1 DEF Reached
          <6>4. QED BY <6>1, <6>3
        <5>3. CASE rest # <<>>
          <6>1. new = [folder |-> 0, words |-> <<>>, key |-> NoKey]
            BY <5>1, <5>3
          <6>2. QED BY <2>3, <6>1
        <5>4. QED BY <5>2, <5>3
      <4>5. QED BY <4>2, <4>3, <4>4
    <3>5. QED BY <3>2, <3>3, <3>4
  <2>6. QED BY <2>4, <2>5
<1>4. QED BY <1>2, <1>3

FromRoot(path) == [folder |-> Root, words |-> path, key |-> RootKey]

\* The words that a lookup reads.
Walks(f, path, r) ==
    /\ f \in [0 .. MaxWords -> Reached]
    /\ f[0] = FromRoot(path)
    /\ \A n \in 1 .. MaxWords : f[n] = NextWord(f[n - 1], r)

\* A lookup begins in the root folder.
LEMMA StartReached ==
  ASSUME Good(catalog, header, renamed), NEW path \in Seq(Names)
  PROVE  FromRoot(path) \in Reached
<1>1. RootKey \in ItemKeys(catalog)
  BY GoodFacts
<1>2. RootKey \in Keys /\ catalog[RootKey].kind = "folder" /\ catalog[RootKey].id = Root /\ Root \in Nat
  BY <1>1, KeyFacts DEF Good, Rooted, Root
<1>3. QED BY <1>1, <1>2, NoKeyFacts DEF FromRoot, Reached

\* A lookup is a sequence of rounds of getRecordFromPath3, each from a state it can
\* have reached.
LEMMA WalkRounds ==
  ASSUME Good(catalog, header, renamed), Texts, NEW path \in Seq(Names), NEW r \in BOOLEAN
  PROVE  \E f : Walks(f, path, r) /\ Walk(path, r) = f[MaxWords]
<1> DEFINE base == [folder |-> Root, words |-> path, key |-> RootKey]
           S == Reached
           Solves(f) == f = [n \in 0 .. MaxWords |-> IF n = 0 THEN base ELSE NextWord(f[n - 1], r)]
           step == [w \in S |-> NextWord(w, r)]
           f == CHOOSE g : Solves(g)
<1>1. base \in S /\ MaxWords \in Nat
  <2>1. FromRoot(path) \in Reached
    BY StartReached
  <2>2. QED BY <2>1 DEF FromRoot
<1>2. step \in [S -> S]
  BY WordStep
<1>3. PICK g \in [0 .. MaxWords -> S] : g[0] = base /\ \A n \in 1 .. MaxWords : g[n] = step[g[n - 1]]
  <2> HIDE DEF base, step, S
  <2>1. \E g : Iterates(g, S, base, step, MaxWords)
    BY <1>1, <1>2, Iteration
  <2>2. QED BY <2>1 DEF Iterates
<1>4. \A n \in 0 .. MaxWords : n # 0 => step[g[n - 1]] = NextWord(g[n - 1], r)
  <2>1. \A n \in 0 .. MaxWords : n # 0 => n - 1 \in 0 .. MaxWords
    BY <1>1
  <2> HIDE DEF base
  <2>2. \A n \in 0 .. MaxWords : n # 0 => g[n - 1] \in S
    <3> HIDE DEF step, S
    <3> QED BY <1>3, <2>1
  <2> HIDE DEF S
  <2>3. QED BY <2>2
<1>5. Solves(g)
  <2> HIDE DEF base, step, S
  <2>1. QED BY <1>3, <1>4
<1>6. Solves(f)
  <2> HIDE DEF Solves
  <2> QED BY <1>5
<1>7. Walk(path, r) = f[MaxWords]
  BY DEF Walk
<1> HIDE DEF f
<1>8. f[0] = base /\ \A n \in 1 .. MaxWords : f[n] = NextWord(f[n - 1], r)
  <2> HIDE DEF base
  <2> QED BY <1>1, <1>6
<1> DEFINE P == {n \in Nat : n <= MaxWords => f[n] \in S}
<1>9. P = Nat
  <2> HIDE DEF base
  <2>1. 0 \in P
    <3> HIDE DEF S
    <3> QED BY <1>1, <1>8
  <2>2. \A n \in P : n + 1 \in P
    <3> SUFFICES ASSUME NEW n \in P, n + 1 <= MaxWords PROVE f[n + 1] \in S
      OBVIOUS
    <3>1. n \in Nat /\ n + 1 \in 1 .. MaxWords /\ n + 1 - 1 = n /\ n <= MaxWords
      BY <1>1
    <3>2. f[n] \in S /\ f[n + 1] = NextWord(f[n], r)
      BY <1>8, <3>1
    <3>3. QED BY <3>2, WordStep
  <2>3. P \in SUBSET Nat
    OBVIOUS
  <2> HIDE DEF P
  <2>4. QED BY <2>1, <2>2, <2>3, SetInduction
<1>10. f \in [0 .. MaxWords -> S]
  <2> HIDE DEF base, S
  <2>1. \A n \in 0 .. MaxWords : f[n] \in S
    BY <1>1, <1>9
  <2>2. f = [n \in 0 .. MaxWords |-> f[n]]
    BY <1>6
  <2>3. QED BY <2>1, <2>2
<1>11. Walks(f, path, r)
  BY <1>8, <1>10 DEF Walks, FromRoot
<1>12. QED BY <1>7, <1>11

\* Behind what a lookup has found there is an item.
LEMMA LookupFacts ==
  ASSUME Good(catalog, header, renamed), Texts, NEW path \in Seq(Names), NEW r \in BOOLEAN, Found(Lookup(path, r))
  PROVE  Lookup(path, r) \in ItemKeys(catalog)
<1>1. PICK f : Walks(f, path, r) /\ Walk(path, r) = f[MaxWords]
  BY WalkRounds
<1>2. f[MaxWords] \in Reached
  BY <1>1 DEF Walks
<1>3. QED BY <1>1, <1>2 DEF Lookup, Found, Reached

\* A lookup of a path with words that does not follow the last one does not end at
\* the root.
LEMMA LookupItem ==
  ASSUME Good(catalog, header, renamed), Texts, NEW path \in Seq(Names), path # <<>>,
         Ends(path, FALSE), Found(Lookup(path, FALSE))
  PROVE  Lookup(path, FALSE) \in Items(catalog)
<1>1. PICK f : Walks(f, path, FALSE) /\ Walk(path, FALSE) = f[MaxWords]
  BY WalkRounds
<1> DEFINE Ok(w) == w.words # <<>> \/ w.key = NoKey \/ w.key \in Items(catalog)
           P == {n \in Nat : n <= MaxWords => Ok(f[n])}
<1>2. MaxWords \in Nat /\ f[0] = FromRoot(path) /\ \A n \in 0 .. MaxWords : f[n] \in Reached
  BY <1>1 DEF Walks
<1>3. Ok(f[0])
  BY <1>2 DEF FromRoot
<1>4. ASSUME NEW w \in Reached, Ok(w) PROVE Ok(NextWord(w, FALSE))
  <2> DEFINE key == <<w.folder, Head(w.words)>>
             rest == Tail(w.words)
             rec == catalog[key]
  <2>1. w.words \in Seq(Names)
    BY DEF Reached
  <2>2. CASE w.words = <<>>
    BY <1>4, <2>2 DEF NextWord
  <2>3. CASE w.words # <<>> /\ key \notin DOMAIN catalog
    BY <2>3 DEF NextWord
  <2>4. CASE w.words # <<>> /\ key \in DOMAIN catalog
    <3>1. key \in Items(catalog) /\ rest \in Seq(Names)
      <4>1. Head(w.words) \in Names /\ key[2] = Head(w.words) /\ rest \in Seq(Names)
        BY <2>1, <2>4
      <4>2. key[2] # NoName /\ key # RootKey
        BY <4>1 DEF RootKey
      <4>3. QED BY <2>4, <4>1, <4>2 DEF Items, ItemKeys
    <3>2. CASE rec.kind = "folder"
      BY <2>4, <3>1, <3>2 DEF NextWord
    <3>3. CASE rec.kind # "folder" /\ rec.link /\ rest # <<>>
      <4>1. CASE text[rec.id] = <<>>
        BY <2>4, <3>3, <4>1 DEF NextWord
      <4>2. CASE text[rec.id] # <<>>
        <5>1. NextWord(w, FALSE).words = text[rec.id] \o rest
          BY <2>4, <3>3, <4>2 DEF NextWord
        <5>2. rec.id \in Ids
          <6>1. key \in ItemKeys(catalog)
            BY <3>1 DEF Items
          <6>2. rec.kind = "file"
            BY <3>3, <6>1, KeyFacts DEF Good
          <6>3. QED BY <6>1, <6>2, FileIds
        <5>3. text[rec.id] \in Seq(Names)
          BY <5>2 DEF Texts
        <5> HIDE DEF rest
        <5>4. text[rec.id] \o rest # <<>>
          BY <3>1, <4>2, <5>3, ConcatEqualIffEmpty
        <5>5. QED BY <5>1, <5>4
      <4>3. QED BY <4>1, <4>2
    <3>4. CASE rec.kind # "folder" /\ ~(rec.link /\ rest # <<>>)
      <4>1. NextWord(w, FALSE) = [folder |-> 0, words |-> <<>>, key |-> IF rest = <<>> THEN key ELSE NoKey]
        BY <2>4, <3>4 DEF NextWord
      <4> DEFINE found == IF rest = <<>> THEN key ELSE NoKey
      <4>2. found = NoKey \/ found \in Items(catalog)
        BY <3>1
      <4> HIDE DEF found
      <4>3. [folder |-> 0, words |-> <<>>, key |-> found].key = found
        OBVIOUS
      <4>4. QED BY <4>1, <4>2, <4>3 DEF found
    <3>5. QED BY <3>2, <3>3, <3>4
  <2>5. QED BY <2>2, <2>3, <2>4
<1>5. P = Nat
  <2> HIDE DEF Ok
  <2>1. 0 \in P
    BY <1>3
  <2>2. \A n \in P : n + 1 \in P
    <3> SUFFICES ASSUME NEW n \in P, n + 1 <= MaxWords PROVE Ok(f[n + 1])
      OBVIOUS
    <3>1. n \in Nat /\ n + 1 \in 1 .. MaxWords /\ n + 1 - 1 = n /\ n <= MaxWords /\ n \in 0 .. MaxWords
      BY <1>2
    <3>2. Ok(f[n]) /\ f[n] \in Reached /\ f[n + 1] = NextWord(f[n], FALSE)
      BY <1>1, <1>2, <3>1 DEF Walks
    <3>3. QED BY <1>4, <3>2
  <2>3. P \in SUBSET Nat
    OBVIOUS
  <2> HIDE DEF P
  <2>4. QED BY <2>1, <2>2, <2>3, SetInduction
<1>6. Ok(f[MaxWords])
  <2> HIDE DEF Ok
  <2> QED BY <1>2, <1>5
<1>7. QED BY <1>1, <1>6 DEF Ends, Lookup, Found

\* The paths of the commands are of any length.
NamePaths == Seq(Names) \ {<<>>}

\* The paths of the bounded calls are among them.
LEMMA BoundedPaths == Paths \subseteq NamePaths /\ Paths \cup {<<>>} \subseteq Seq(Names)
<1>1. ASSUME NEW n \in 1 .. MaxPath, NEW p \in [1 .. n -> Names]
      PROVE  p \in Seq(Names) /\ p # <<>>
  <2>1. n \in Nat /\ n >= 1
    OBVIOUS
  <2>2. p \in Seq(Names)
    BY <2>1
  <2>3. Len(p) = n
    BY <2>1
  <2>4. QED BY <2>1, <2>2, <2>3
<1>2. <<>> \in Seq(Names)
  OBVIOUS
<1>3. QED BY <1>1, <1>2 DEF Paths, NamePaths

\* The last word of a path and the folder path in front of it.
LEMMA PathFacts ==
  ASSUME NEW path \in NamePaths
  PROVE  /\ path \in Seq(Names) /\ path # <<>> /\ Front(path) \in Seq(Names) /\ Last(path) \in Names
         /\ path = Front(path) \o <<Last(path)>>
<1>1. path \in Seq(Names) /\ path # <<>>
  BY DEF NamePaths
<1>2. PICK n : n = Len(path) /\ n \in Nat /\ n >= 1 /\ path \in [1 .. n -> Names]
  BY <1>1
<1>3. Last(path) \in Names /\ Last(path) = path[n]
  BY <1>1, <1>2 DEF Last
<1>4. Front(path) \in Seq(Names) /\ Len(Front(path)) = n - 1 /\ \A i \in 1 .. n - 1 : Front(path)[i] = path[i]
  <2>1. \A i \in 1 .. n - 1 : path[i] \in Names
    BY <1>1, <1>2
  <2>2. Front(path) = SubSeq(path, 1, n - 1)
    BY <1>2 DEF Front
  <2>3. QED BY <1>2, <2>1, <2>2, SubSeqProperties
<1>5. path = Front(path) \o <<Last(path)>>
  <2> DEFINE a == Front(path)
             b == <<Last(path)>>
  <2>1. a \in Seq(Names) /\ b \in Seq(Names) /\ Len(b) = 1 /\ Len(path) = Len(a) + Len(b)
    BY <1>2, <1>3, <1>4
  <2>2. \A i \in 1 .. Len(a) : path[i] = a[i]
    BY <1>4
  <2>3. \A i \in 1 .. Len(b) : path[Len(a) + i] = b[i]
    <3>1. b[1] = path[n] /\ Len(a) + 1 = n
      BY <1>2, <1>3, <1>4
    <3> HIDE DEF a, b
    <3>2. QED BY <2>1, <3>1
  <2> HIDE DEF a, b
  <2>4. a \o b = path
    BY ONLY <1>1, <1>2, <2>1, <2>2, <2>3, Concatenated
  <2>5. QED BY <2>4 DEF a, b
<1>6. QED BY <1>1, <1>2, <1>3, <1>4, <1>5

\* Two sequences of words: the first word is that of the one in front.
LEMMA HeadTailConcat ==
  ASSUME NEW s \in Seq(Names), NEW t \in Seq(Names), s # <<>>
  PROVE  Head(s \o t) = Head(s) /\ Tail(s \o t) = Tail(s) \o t /\ s \o t # <<>>
<1>1. s \o t \in Seq(Names) /\ Len(s \o t) = Len(s) + Len(t) /\ Len(s) \in Nat /\ Len(s) > 0 /\ Len(t) \in Nat
      /\ Tail(s) \in Seq(Names) /\ Len(Tail(s)) = Len(s) - 1
  OBVIOUS
<1>2. s \o t # <<>> /\ Head(s \o t) = Head(s)
  BY <1>1
<1>3. Tail(s) \o t = Tail(s \o t)
  <2> DEFINE whole == Tail(s \o t)
             a == Tail(s)
  <2>1. whole \in Seq(Names) /\ a \in Seq(Names) /\ Len(whole) = Len(a) + Len(t)
    BY <1>1, <1>2
  <2>2. \A i \in 1 .. Len(a) : whole[i] = a[i]
    BY <1>1, <1>2
  <2>3. \A i \in 1 .. Len(t) : whole[Len(a) + i] = t[i]
    <3> SUFFICES ASSUME NEW i \in 1 .. Len(t) PROVE whole[Len(a) + i] = t[i]
      OBVIOUS
    <3>1. whole[Len(a) + i] = (s \o t)[Len(a) + i + 1]
      BY <1>1, <1>2, <2>1
    <3>2. Len(a) + i + 1 = Len(s) + i
      BY <1>1
    <3>3. (s \o t)[Len(s) + i] = t[i]
      BY <1>1
    <3>4. QED BY <3>1, <3>2, <3>3
  <2> HIDE DEF a, whole
  <2>4. a \o t = whole
    BY ONLY <2>1, <2>2, <2>3, Concatenated
  <2>5. QED BY <2>4 DEF a, whole
<1>4. QED BY <1>2, <1>3

\* A path goes on where the path without its last word is: as long as this one has
\* words the longer path has them and the last, then the last; once that has been
\* read and is there, it is found.
Behind(w, v, last) ==
    \/ w.words = <<>> /\ (w.key = NoKey \/ catalog[w.key].kind # "folder")
    \/ v = [folder |-> w.folder, words |-> w.words \o <<last>>, key |-> w.key]
    \/ /\ w.words = <<>>
       /\ <<w.folder, last>> \in DOMAIN catalog => v.words = <<>> /\ v.key # NoKey

\* Two lookups, one of them a word behind the other, stay so in every round.
LEMMA BehindStep ==
  ASSUME Good(catalog, header, renamed), Texts, NEW w \in Reached, NEW v, NEW last \in Names, Behind(w, v, last),
         NEW nextw, NEW nextv, nextw = NextWord(w, TRUE), nextv = NextWord(v, FALSE)
  PROVE  Behind(nextw, nextv, last)
<1> DEFINE key == <<w.folder, Head(w.words)>>
           rest == Tail(w.words)
           rec == catalog[key]
<1>1. w.words \in Seq(Names) /\ <<last>> \in Seq(Names)
  BY DEF Reached
<1>2. CASE w.words = <<>> /\ (w.key = NoKey \/ catalog[w.key].kind # "folder")
  BY <1>2 DEF NextWord, Behind
<1>3. CASE /\ w.words = <<>>
           /\ <<w.folder, last>> \in DOMAIN catalog => v.words = <<>> /\ v.key # NoKey
  BY <1>3 DEF NextWord, Behind
<1>4. CASE v = [folder |-> w.folder, words |-> w.words \o <<last>>, key |-> w.key]
  <2>1. v.folder = w.folder /\ v.words = w.words \o <<last>> /\ v.key = w.key
    BY <1>4
  <2>2. CASE w.words = <<>>
    <3>1. v.words = <<last>> /\ Head(v.words) = last /\ Tail(v.words) = <<>> /\ v.words # <<>>
      BY <1>1, <2>1, <2>2
    <3>2. nextw = w
      BY <2>2 DEF NextWord
    <3>3. ASSUME <<w.folder, last>> \in DOMAIN catalog
          PROVE  nextv.words = <<>> /\ nextv.key # NoKey
      <4> DEFINE at == <<w.folder, last>>
      <4>1. at = <<v.folder, Head(v.words)>> /\ at # NoKey
        <5>1. at[2] = last /\ NoKey[2] = NoName
          BY DEF NoKey
        <5>2. QED BY <2>1, <3>1, <5>1
      <4>2. CASE catalog[at].kind = "folder"
        <5>1. nextv = [folder |-> catalog[at].id, words |-> <<>>, key |-> at]
          BY <3>1, <3>3, <4>1, <4>2 DEF NextWord
        <5>2. QED BY ONLY <4>1, <5>1
      <4>3. CASE catalog[at].kind # "folder"
        <5>1. nextv = [folder |-> 0, words |-> <<>>, key |-> at]
          BY <3>1, <3>3, <4>1, <4>3 DEF NextWord
        <5>2. QED BY ONLY <4>1, <5>1
      <4>4. QED BY <4>2, <4>3
    <3>4. QED BY <2>2, <3>2, <3>3 DEF Behind
  <2>3. CASE w.words # <<>>
    <3>1. /\ v.words # <<>> /\ key = <<v.folder, Head(v.words)>> /\ Tail(v.words) = rest \o <<last>>
          /\ rest \in Seq(Names) /\ rest \o <<last>> # <<>>
      <4>1. Head(v.words) = Head(w.words) /\ Tail(v.words) = rest \o <<last>> /\ v.words # <<>>
        BY <1>1, <2>1, <2>3, HeadTailConcat
      <4>2. rest \in Seq(Names)
        BY <1>1, <2>3
      <4>3. rest \o <<last>> # <<>>
        <5> HIDE DEF rest
        <5> QED BY <1>1, <4>2, ConcatEqualIffEmpty
      <4>4. QED BY <2>1, <4>1, <4>2, <4>3
    <3>2. CASE key \notin DOMAIN catalog
      <4>1. nextw = [folder |-> 0, words |-> <<>>, key |-> NoKey]
        BY <2>3, <3>2 DEF NextWord
      <4>2. QED BY ONLY <4>1 DEF Behind
    <3>3. CASE key \in DOMAIN catalog /\ rec.kind = "folder"
      <4>1. nextw = [folder |-> rec.id, words |-> rest, key |-> key]
        BY <2>3, <3>3 DEF NextWord
      <4>2. nextv = [folder |-> rec.id, words |-> rest \o <<last>>, key |-> key]
        BY <3>1, <3>3 DEF NextWord
      <4>3. QED BY ONLY <4>1, <4>2 DEF Behind
    <3>4. CASE key \in DOMAIN catalog /\ rec.kind # "folder" /\ rec.link /\ text[rec.id] = <<>>
      <4>1. nextw = [folder |-> Root, words |-> rest, key |-> RootKey]
        BY <2>3, <3>4 DEF NextWord
      <4>2. nextv = [folder |-> Root, words |-> rest \o <<last>>, key |-> RootKey]
        BY <3>1, <3>4 DEF NextWord
      <4>3. QED BY ONLY <4>1, <4>2 DEF Behind
    <3>5. CASE key \in DOMAIN catalog /\ rec.kind # "folder" /\ rec.link /\ text[rec.id] # <<>>
      <4>1. nextw = [folder |-> w.folder, words |-> text[rec.id] \o rest, key |-> w.key]
        BY <2>3, <3>5 DEF NextWord
      <4>2. nextv = [folder |-> w.folder, words |-> text[rec.id] \o (rest \o <<last>>), key |-> w.key]
        BY <2>1, <3>1, <3>5 DEF NextWord
      <4>3. text[rec.id] \in Seq(Names)
        <5>1. key \in ItemKeys(catalog)
          <6>1. Head(w.words) \in Names /\ key[2] = Head(w.words)
            BY <1>1, <2>3
          <6>2. QED BY <3>5, <6>1 DEF ItemKeys
        <5>2. rec.kind = "file"
          BY <3>5, <5>1, KeyFacts DEF Good
        <5>3. rec.id \in Ids
          BY <5>1, <5>2, FileIds
        <5>4. QED BY <5>3 DEF Texts
      <4>4. text[rec.id] \o (rest \o <<last>>) = (text[rec.id] \o rest) \o <<last>>
        <5> DEFINE t == text[rec.id]
        <5>1. t \in Seq(Names) /\ rest \in Seq(Names) /\ <<last>> \in Seq(Names)
          BY <1>1, <3>1, <4>3
        <5> HIDE DEF t, rest
        <5>2. t \o (rest \o <<last>>) = (t \o rest) \o <<last>>
          BY ONLY <5>1, ConcatAssociative
        <5>3. QED BY <5>2 DEF t
      <4>5. QED BY ONLY <4>1, <4>2, <4>4 DEF Behind
    <3>6. CASE key \in DOMAIN catalog /\ rec.kind # "folder" /\ ~rec.link
      <4>1. CASE rest = <<>>
        <5>1. nextw = [folder |-> 0, words |-> <<>>, key |-> key]
          BY <2>3, <3>6, <4>1 DEF NextWord
        <5>2. nextw.words = <<>> /\ nextw.key = key
          BY ONLY <5>1
        <5>3. QED BY <3>6, <5>2 DEF Behind
      <4>2. CASE rest # <<>>
        <5>1. nextw = [folder |-> 0, words |-> <<>>, key |-> NoKey]
          BY <2>3, <3>6, <4>2 DEF NextWord
        <5>2. QED BY ONLY <5>1 DEF Behind
      <4>3. QED BY <4>1, <4>2
    <3>7. QED BY <3>2, <3>3, <3>4, <3>5, <3>6
  <2>4. QED BY <2>2, <2>3
<1>5. QED BY <1>2, <1>3, <1>4 DEF Behind

\* What a lookup returns is where its rounds end.
LEMMA LookupIs ==
  ASSUME NEW path, NEW r \in BOOLEAN, NEW w, Walk(path, r) = w
  PROVE  Lookup(path, r) = w.key /\ (Ends(path, r) <=> w.words = <<>>)
BY DEF Lookup, Ends

\* Where a path leads to nothing, and the path to its folder to a folder, there is
\* no item of that name in the folder.
LEMMA NothingThere ==
  ASSUME Good(catalog, header, renamed), Texts, NEW path \in NamePaths,
         Ends(Front(path), TRUE), IsFolder(ParentKey(path)), ~Found(Lookup(path, FALSE))
  PROVE  KeyAt(path) \notin DOMAIN catalog
<1> DEFINE last == Last(path)
<1>1. /\ path \in Seq(Names) /\ Front(path) \in Seq(Names) /\ last \in Names
      /\ path = Front(path) \o <<last>>
  BY PathFacts
<1>2. PICK f : Walks(f, Front(path), TRUE) /\ Walk(Front(path), TRUE) = f[MaxWords]
  BY <1>1, WalkRounds
<1>3. PICK g : Walks(g, path, FALSE) /\ Walk(path, FALSE) = g[MaxWords]
  BY <1>1, WalkRounds
<1> DEFINE P == {n \in Nat : n <= MaxWords => Behind(f[n], g[n], last)}
<1>4. MaxWords \in Nat /\ (\A n \in 0 .. MaxWords : f[n] \in Reached)
      /\ f[0] = FromRoot(Front(path)) /\ g[0] = FromRoot(path)
  BY <1>2, <1>3 DEF Walks
<1> HIDE DEF last
<1>5. P = Nat
  <2>1. 0 \in P
    <3>1. g[0] = [folder |-> f[0].folder, words |-> f[0].words \o <<last>>, key |-> f[0].key]
      BY <1>1, <1>4 DEF FromRoot
    <3>2. QED BY <3>1 DEF Behind
  <2>2. \A n \in P : n + 1 \in P
    <3> SUFFICES ASSUME NEW n \in P, n + 1 <= MaxWords PROVE Behind(f[n + 1], g[n + 1], last)
      OBVIOUS
    <3>1. n \in Nat /\ n + 1 \in 1 .. MaxWords /\ n + 1 - 1 = n /\ n <= MaxWords /\ n \in 0 .. MaxWords
      BY <1>4
    <3>2. f[n + 1] = NextWord(f[n], TRUE) /\ g[n + 1] = NextWord(g[n], FALSE) /\ f[n] \in Reached
          /\ Behind(f[n], g[n], last)
      <4>1. PICK m : m = n + 1
        OBVIOUS
      <4>2. m \in 1 .. MaxWords /\ m - 1 = n
        BY <3>1, <4>1
      <4>3. f[m] = NextWord(f[m - 1], TRUE) /\ g[m] = NextWord(g[m - 1], FALSE)
        BY ONLY <1>2, <1>3, <4>2 DEF Walks
      <4>4. f[n] \in Reached /\ Behind(f[n], g[n], last)
        BY <1>4, <3>1
      <4>5. QED BY ONLY <4>1, <4>2, <4>3, <4>4
    <3>3. Behind(NextWord(f[n], TRUE), NextWord(g[n], FALSE), last)
      BY <1>1, <3>2, BehindStep
    <3>4. QED BY <3>2, <3>3
  <2>3. P \in SUBSET Nat
    OBVIOUS
  <2> HIDE DEF P
  <2>4. QED BY <2>1, <2>2, <2>3, SetInduction
<1> DEFINE w == f[MaxWords]
           v == g[MaxWords]
<1>6. Behind(w, v, last)
  BY <1>4, <1>5
<1>7. w.words = <<>> /\ w.key # NoKey /\ catalog[w.key].kind = "folder" /\ w \in Reached
      /\ ParentKey(path) = w.key /\ v.key = NoKey
  <2>1. Lookup(Front(path), TRUE) = w.key /\ (Ends(Front(path), TRUE) <=> w.words = <<>>)
    BY <1>2, LookupIs
  <2>2. Lookup(path, FALSE) = v.key
    BY <1>3, LookupIs
  <2>3. w.words = <<>> /\ ParentKey(path) = w.key
    BY <2>1 DEF ParentKey
  <2>4. v.key = NoKey
    BY <2>2 DEF Found
  <2>5. w.key # NoKey /\ catalog[w.key].kind = "folder"
    BY <2>3 DEF IsFolder, Found
  <2>6. w \in Reached
    BY <1>4
  <2>7. QED BY <2>3, <2>4, <2>5, <2>6
<1>8. KeyAt(path) = <<w.folder, last>>
  BY <1>7 DEF KeyAt, Reached, last
<1> HIDE DEF w, v
<1>9. ~(v = [folder |-> w.folder, words |-> w.words \o <<last>>, key |-> w.key])
  BY <1>7
<1>10. QED BY <1>6, <1>7, <1>8, <1>9 DEF Behind

\* The ids on the way up from `id`.
Up(f, id) ==
    /\ f[0] = id /\ \A n \in 0 .. MaxID : ThreadKey(f[n]) \in DOMAIN catalog
    /\ \A n \in 1 .. MaxID : f[n] = IF f[n - 1] = Root THEN Root ELSE KeyOf(f[n - 1])[1]

\* The climb from a folder to the root is a sequence of steps to the parent.
LEMMA AboveRounds ==
  ASSUME Good(catalog, header, renamed), NEW id, ThreadKey(id) \in DOMAIN catalog
  PROVE  \E f : Up(f, id) /\ Above(id) = {f[n] : n \in 0 .. MaxID}
<1> DEFINE S == {i \in Nat : ThreadKey(i) \in DOMAIN catalog}
           Parent(i) == IF i = Root THEN Root ELSE KeyOf(i)[1]
           Solves(f) == f = [n \in 0 .. MaxID |-> IF n = 0 THEN id ELSE Parent(f[n - 1])]
           step == [i \in S |-> Parent(i)]
           f == CHOOSE g : Solves(g)
<1>1. id \in S /\ MaxID \in Nat
  BY KeyFacts DEF Good
<1>2. \A i \in S : Parent(i) \in S
  <2> SUFFICES ASSUME NEW i \in S PROVE Parent(i) \in S
    OBVIOUS
  <2>1. CASE i = Root
    BY <2>1
  <2>2. CASE i # Root
    <3>1. KeyOf(i) = Place(catalog, i) /\ Place(catalog, i) \in ItemKeys(catalog)
          /\ catalog[Place(catalog, i)].id = i
      <4>1. Place(catalog, i) \in ItemKeys(catalog) /\ catalog[Place(catalog, i)].id = i
        BY GoodFacts
      <4>2. QED BY <4>1 DEF KeyOf, Place
    <3>2. KeyOf(i) \in Items(catalog)
      BY <2>2, <3>1, GoodFacts DEF Items
    <3>3. ThreadKey(KeyOf(i)[1]) \in DOMAIN catalog
      BY <3>2 DEF Good, Filed
    <3>4. KeyOf(i)[1] \in Nat
      BY <3>3, KeyFacts DEF Good
    <3>5. QED BY <2>2, <3>3, <3>4
  <2>3. QED BY <2>1, <2>2
<1> HIDE DEF Parent
<1>3. step \in [S -> S]
  BY <1>2
<1>4. PICK g \in [0 .. MaxID -> S] : g[0] = id /\ \A n \in 1 .. MaxID : g[n] = step[g[n - 1]]
  <2> HIDE DEF step, S
  <2>1. \E g : Iterates(g, S, id, step, MaxID)
    BY <1>1, <1>3, Iteration
  <2>2. QED BY <2>1 DEF Iterates
<1>5. \A n \in 1 .. MaxID : g[n] = Parent(g[n - 1])
  <2>1. \A n \in 1 .. MaxID : n - 1 \in 0 .. MaxID
    BY <1>1
  <2>2. \A n \in 1 .. MaxID : g[n - 1] \in S
    <3> HIDE DEF step, S
    <3> QED BY <1>4, <2>1
  <2> HIDE DEF S
  <2>3. QED BY <1>4, <2>2
<1>6. Solves(g)
  <2> HIDE DEF S, step
  <2>1. \A n \in 0 .. MaxID : n # 0 => n \in 1 .. MaxID
    BY <1>1
  <2>2. QED BY <1>4, <1>5, <2>1
<1>7. Solves(f)
  <2> HIDE DEF Solves
  <2> QED BY <1>6
<1>8. Above(id) = {f[n] : n \in 0 .. MaxID}
  BY DEF Above, Parent
<1>9. f = g
  <2> HIDE DEF f
  <2>1. f[0] = id /\ \A n \in 1 .. MaxID : f[n] = Parent(f[n - 1])
    BY <1>1, <1>7
  <2> DEFINE P == {n \in Nat : n <= MaxID => f[n] = g[n]}
  <2>2. P = Nat
    <3>1. 0 \in P
      BY <1>4, <2>1
    <3>2. \A n \in P : n + 1 \in P
      <4> SUFFICES ASSUME NEW n \in P, n + 1 <= MaxID PROVE f[n + 1] = g[n + 1]
        OBVIOUS
      <4>1. n \in Nat /\ n + 1 \in 1 .. MaxID /\ n + 1 - 1 = n /\ n <= MaxID
        BY <1>1
      <4>2. f[n + 1] = Parent(f[n]) /\ g[n + 1] = Parent(g[n]) /\ f[n] = g[n]
        BY <1>5, <2>1, <4>1
      <4>3. QED BY <4>2
    <3>3. P \in SUBSET Nat
      OBVIOUS
    <3> HIDE DEF P
    <3>4. QED BY <3>1, <3>2, <3>3, SetInduction
  <2>3. f = [n \in 0 .. MaxID |-> f[n]] /\ g = [n \in 0 .. MaxID |-> g[n]]
    <3>1. f = [n \in 0 .. MaxID |-> f[n]]
      BY <1>7
    <3>2. QED BY <1>4, <3>1
  <2>4. \A n \in 0 .. MaxID : f[n] = g[n]
    BY <1>1, <2>2
  <2>5. QED BY <2>3, <2>4
<1> HIDE DEF f
<1>10. Up(g, id)
  <2>1. \A n \in 0 .. MaxID : ThreadKey(g[n]) \in DOMAIN catalog
    BY <1>4
  <2>2. QED BY <1>4, <1>5, <2>1 DEF Up, Parent
<1>11. QED BY <1>8, <1>9, <1>10

\* A folder is among the folders above it.
LEMMA AboveItself ==
  ASSUME Good(catalog, header, renamed), NEW id, ThreadKey(id) \in DOMAIN catalog
  PROVE  id \in Above(id)
<1>1. PICK f : Up(f, id) /\ Above(id) = {f[n] : n \in 0 .. MaxID}
  BY AboveRounds
<1>2. f[0] = id /\ 0 \in 0 .. MaxID
  BY <1>1 DEF Up
<1>3. QED BY <1>1, <1>2

-----------------------------------------------------------------------------
(* The tree of the items *)

\* Every item has a greater rank than its folder, so no folder is inside itself.
Acyclic(c) ==
    \E rank \in [Nat -> Nat] : \A k \in Items(c) : rank[k[1]] < rank[c[k].id]

\* Going up through ever smaller ranks, as many times as there are items, ends at the
\* root.
LEMMA ClimbEnds ==
  ASSUME NEW S \in SUBSET Nat, IsFiniteSet(S), Root \notin S, NEW N \in Nat, Cardinality(S) <= N,
         NEW rank \in [Nat -> Nat], NEW up, NEW f,
         \A x \in S : up[x] \in S \cup {Root} /\ rank[up[x]] < rank[x],
         f[0] \in S \cup {Root},
         \A n \in 1 .. N : f[n] = IF f[n - 1] = Root THEN Root ELSE up[f[n - 1]]
  PROVE  f[N] = Root
<1>1. \A n \in Nat : n + 1 <= N => n <= N /\ n + 1 \in 1 .. N /\ n + 1 - 1 = n
  OBVIOUS
<1>2. \A n \in Nat : n + 1 <= N => f[n + 1] = IF f[n] = Root THEN Root ELSE up[f[n]]
  BY <1>1
<1> DEFINE T == {n \in Nat : n <= N => f[n] \in S \cup {Root}}
<1>3. T = Nat
  <2>1. T \in SUBSET Nat /\ 0 \in T
    OBVIOUS
  <2>2. ASSUME NEW n \in T PROVE n + 1 \in T
    <3> SUFFICES ASSUME n + 1 <= N PROVE f[n + 1] \in S \cup {Root}
      OBVIOUS
    <3>1. n \in Nat /\ n <= N
      BY <1>1
    <3>2. f[n] \in S \cup {Root} /\ f[n + 1] = IF f[n] = Root THEN Root ELSE up[f[n]]
      BY <1>2, <3>1
    <3>3. QED BY <3>2
  <2> HIDE DEF T
  <2>3. QED BY <2>1, <2>2, SetInduction
<1>4. \A n \in 0 .. N : f[n] \in S \cup {Root}
  <2>1. \A n \in 0 .. N : n \in Nat /\ n <= N
    OBVIOUS
  <2>2. QED BY <1>3, <2>1
<1> HIDE DEF T
<1>5. SUFFICES ASSUME f[N] # Root PROVE FALSE
  OBVIOUS
<1>6. ASSUME NEW m \in 0 .. N PROVE f[m] # Root
  <2> SUFFICES ASSUME f[m] = Root PROVE FALSE
    OBVIOUS
  <2> DEFINE P == {n \in Nat : m + n <= N => f[m + n] = Root}
  <2>1. P \in SUBSET Nat /\ 0 \in P
    OBVIOUS
  <2>2. ASSUME NEW n \in P PROVE n + 1 \in P
    <3> SUFFICES ASSUME m + (n + 1) <= N PROVE f[m + (n + 1)] = Root
      OBVIOUS
    <3>1. PICK i : i = m + n
      OBVIOUS
    <3>2. n \in Nat /\ m \in Nat /\ i \in Nat /\ m + (n + 1) = i + 1 /\ i <= N /\ i + 1 <= N
      BY <3>1
    <3>3. f[i] = Root
      BY <3>1, <3>2
    <3>4. QED BY <1>2, <3>2, <3>3
  <2>3. P = Nat
    <3> HIDE DEF P
    <3> QED BY <2>1, <2>2, SetInduction
  <2>4. PICK i : i = N - m
    OBVIOUS
  <2>5. i \in Nat /\ m + i = N /\ m + i <= N
    BY <2>4
  <2>6. f[m + i] = Root
    BY <2>3, <2>5
  <2>7. QED BY <1>5, <2>5, <2>6
<1>7. \A n \in 0 .. N : f[n] \in S /\ rank[f[n]] \in Nat
  BY <1>4, <1>6
<1>8. \A n \in Nat : n + 1 <= N => rank[f[n + 1]] < rank[f[n]]
  <2> SUFFICES ASSUME NEW n \in Nat, n + 1 <= N PROVE rank[f[n + 1]] < rank[f[n]]
    OBVIOUS
  <2>1. n \in 0 .. N
    BY <1>1
  <2>2. f[n] \in S /\ f[n] # Root
    BY <1>6, <1>7, <2>1
  <2>3. QED BY <1>2, <2>2
<1>9. ASSUME NEW m \in 0 .. N, NEW n \in 0 .. N, m < n PROVE rank[f[n]] < rank[f[m]]
  <2> DEFINE Below(i) == m + i + 1 <= N => rank[f[m + i + 1]] < rank[f[m]]
  <2> DEFINE P == {i \in Nat : Below(i)}
  <2>0. /\ P \subseteq Nat
        /\ \A i \in P : m + i + 1 <= N => rank[f[m + i + 1]] < rank[f[m]]
        /\ \A i \in Nat : (m + i + 1 <= N => rank[f[m + i + 1]] < rank[f[m]]) => i \in P
    <3>1. P \subseteq Nat
      <4> HIDE DEF Below
      <4> QED OBVIOUS
    <3>2. \A i \in Nat : i \in P <=> Below(i)
      <4> HIDE DEF Below
      <4> QED OBVIOUS
    <3> HIDE DEF P
    <3>3. \A i \in P : Below(i)
      <4> HIDE DEF Below
      <4> QED BY <3>1, <3>2
    <3>4. \A i \in Nat : Below(i) => i \in P
      <4> HIDE DEF Below
      <4> QED BY <3>2
    <3>5. QED BY Zenon, <3>1, <3>3, <3>4
  <2> HIDE DEF Below
  <2> HIDE DEF P
  <2>1. 0 \in P
    <3>1. m \in Nat /\ m + 0 + 1 = m + 1
      BY <1>1
    <3>2. m + 0 + 1 <= N => rank[f[m + 0 + 1]] < rank[f[m]]
      BY <1>8, <3>1
    <3>3. QED BY <2>0, <3>2
  <2>2. ASSUME NEW i \in P PROVE i + 1 \in P
    <3>a. i \in Nat
      BY Zenon, <2>0
    <3>0. i \in Nat /\ i + 1 \in Nat
      BY <3>a
    <3> SUFFICES ASSUME m + (i + 1) + 1 <= N PROVE rank[f[m + (i + 1) + 1]] < rank[f[m]]
      BY <2>0, <3>0
    <3>1. i \in Nat /\ m + i + 1 \in 0 .. N /\ m + (i + 1) + 1 = (m + i + 1) + 1 /\ (m + i + 1) + 1 \in 0 .. N
      BY <3>0
    <3>r. rank[f[m + i + 1]] < rank[f[m]]
      <4>1. m + i + 1 <= N
        BY <3>1
      <4>2. QED BY <2>0, <4>1
    <3>2. PICK j : j = m + i + 1
      OBVIOUS
    <3>3. rank[f[j + 1]] < rank[f[j]] /\ rank[f[j]] < rank[f[m]]
      BY <1>8, <3>1, <3>2, <3>r
    <3>4. rank[f[j + 1]] \in Nat /\ rank[f[j]] \in Nat /\ rank[f[m]] \in Nat
      BY <1>7, <3>1, <3>2
    <3>5. \A a, b, c \in Nat : a < b /\ b < c => a < c
      OBVIOUS
    <3>6. rank[f[j + 1]] < rank[f[m]]
      BY <3>3, <3>4, <3>5
    <3>7. QED BY <3>1, <3>2, <3>6
  <2>3. P \in SUBSET Nat
    BY <2>0
  <2>4. P = Nat
    <3> QED BY <2>1, <2>2, <2>3, SetInduction
  <2>5. PICK i : i = n - m - 1
    OBVIOUS
  <2>6. i \in Nat /\ m + i + 1 = n /\ n <= N
    BY <1>9, <2>5
  <2>7. i \in P
    BY <2>4, <2>6
  <2>8. m + i + 1 <= N
    BY <2>6, <1>1
  <2>9. QED BY <2>0, <2>6, <2>7, <2>8
<1> DEFINE g == [n \in 0 .. N |-> f[n]]
<1>10. g \in [0 .. N -> S]
  BY <1>7
<1>11. IsFiniteSet(0 .. N) /\ Cardinality(0 .. N) = N + 1
  BY FS_Interval
<1>12. Cardinality(S) < Cardinality(0 .. N)
  <2>1. Cardinality(S) \in Nat
    BY FS_CardinalityType
  <2>2. QED BY <1>11, <2>1
<1>13. \E m, n \in 0 .. N : m # n /\ g[m] = g[n]
  <2>1. PICK D : D = 0 .. N
    OBVIOUS
  <2> HIDE DEF g
  <2>2. g \in [D -> S] /\ IsFiniteSet(D) /\ Cardinality(S) < Cardinality(D)
    BY <1>10, <1>11, <1>12, <2>1
  <2>3. \E m, n \in D : m # n /\ g[m] = g[n]
    BY ONLY IsFiniteSet(S), <2>2, FS_PigeonHole
  <2>4. QED BY <2>1, <2>3
<1>14. PICK m \in 0 .. N, n \in 0 .. N : m # n /\ f[m] = f[n]
  BY <1>13
<1>15. m \in Int /\ n \in Int /\ ~(rank[f[m]] < rank[f[m]])
  <2>1. rank[f[m]] \in Nat /\ m \in Int /\ n \in Int
    BY <1>7
  <2>2. \A a \in Nat : ~(a < a)
    OBVIOUS
  <2>3. QED BY <2>1, <2>2
<1>16. CASE m < n
  <2>1. rank[f[n]] < rank[f[m]]
    BY <1>9, <1>16
  <2>2. QED BY <1>14, <1>15, <2>1
<1>17. CASE n < m
  <2>1. rank[f[m]] < rank[f[n]]
    BY <1>9, <1>17
  <2>2. QED BY <1>14, <1>15, <2>1
<1>18. QED BY <1>14, <1>15, <1>16, <1>17

\* The ids of the items of an image, and the way up from each.
Given(c) == {c[k].id : k \in Items(c)}

\* Every id that an item has was given, and no two items have the same.
LEMMA GivenFacts ==
  ASSUME NEW c, NEW h, NEW drift, Good(c, h, drift)
  PROVE  /\ Given(c) \in SUBSET (FirstID .. h.next - 1) /\ Given(c) \in SUBSET Nat
         /\ IsFiniteSet(Given(c)) /\ Root \notin Given(c) /\ Cardinality(Given(c)) <= MaxID
         /\ \A k \in Items(c) : c[k].id \in Given(c) /\ k[1] \in Given(c) \cup {Root}
         /\ \A i \in Given(c) : Place(c, i) \in Items(c) /\ c[Place(c, i)].id = i
<1>1. \A k \in Items(c) : c[k].id \in FirstID .. h.next - 1
  BY DEF Good, Filed
<1>2. Given(c) \in SUBSET (FirstID .. h.next - 1)
  BY <1>1 DEF Given
<1>3. h.next \in Nat /\ h.next - 1 \in Int /\ (h.next - 1 <= MaxID \/ h.next = FirstID) /\ MaxID \in Nat
  <2>1. h.next \in {FirstID} \cup (FirstID .. MaxID + 1)
    BY DEF Good, Typed
  <2>2. MaxID \in Nat
    OBVIOUS
  <2>3. QED BY <2>1, <2>2 DEF FirstID
<1>4. IsFiniteSet(FirstID .. h.next - 1) /\ Cardinality(FirstID .. h.next - 1) <= MaxID
  <2>1. /\ IsFiniteSet(FirstID .. h.next - 1)
        /\ Cardinality(FirstID .. h.next - 1) = IF FirstID > h.next - 1 THEN 0 ELSE (h.next - 1) - FirstID + 1
    <3>1. FirstID \in Int /\ h.next - 1 \in Int
      BY <1>3 DEF FirstID
    <3>2. QED BY <3>1, FS_Interval
  <2>2. QED BY <1>3, <2>1 DEF FirstID
<1>5. IsFiniteSet(Given(c)) /\ Cardinality(Given(c)) <= Cardinality(FirstID .. h.next - 1)
  BY <1>2, <1>4, FS_Subset
<1>6. Cardinality(Given(c)) <= MaxID
  <2>1. Cardinality(Given(c)) \in Nat /\ Cardinality(FirstID .. h.next - 1) \in Nat
    BY <1>4, <1>5, FS_CardinalityType
  <2>2. QED BY <1>3, <1>4, <1>5, <2>1
<1>7. Root \notin Given(c) /\ Given(c) \in SUBSET Nat
  BY <1>2, <1>3 DEF Root, FirstID
<1>8. \A i \in Given(c) : Place(c, i) \in Items(c) /\ c[Place(c, i)].id = i
  BY GoodFacts DEF Given
<1>9. ASSUME NEW k \in Items(c) PROVE c[k].id \in Given(c) /\ k[1] \in Given(c) \cup {Root}
  <2>1. Place(c, k[1]) \in ItemKeys(c) /\ c[Place(c, k[1])].id = k[1]
    BY ParentFacts
  <2>2. CASE Place(c, k[1]) = RootKey
    BY <2>1, <2>2, GoodFacts DEF Given
  <2>3. CASE Place(c, k[1]) # RootKey
    BY <2>1, <2>3 DEF Given, Items
  <2>4. QED BY <2>2, <2>3 DEF Given
<1>10. QED BY <1>2, <1>5, <1>6, <1>7, <1>8, <1>9

-----------------------------------------------------------------------------
(* No folder gets inside itself *)

\* An image whose items are some of those of another, in the same folders.
LEMMA AcyclicFewer ==
  ASSUME NEW c, NEW d, Acyclic(c), Items(d) \subseteq Items(c), \A k \in Items(d) : d[k].id = c[k].id
  PROVE  Acyclic(d)
BY DEF Acyclic

\* An id to be given is none of those given, nor the root's.
LEMMA BeyondRange ==
  ASSUME NEW n \in Nat, n >= 3
  PROVE  n \notin 3 .. n - 1 /\ n # 2
OBVIOUS

\* An item with a new id.
LEMMA AcyclicAdd ==
  ASSUME NEW c, NEW h, NEW drift, NEW d, NEW key, Good(c, h, drift), Acyclic(c), key \in Keys,
         Items(d) = Items(c) \cup {key}, d[key].id = h.next, key[1] \in Given(c) \cup {Root},
         \A k \in Items(c) : d[k].id = c[k].id, key \notin Items(c)
  PROVE  Acyclic(d)
<1>1. PICK rank \in [Nat -> Nat] : \A k \in Items(c) : rank[k[1]] < rank[c[k].id]
  BY DEF Acyclic
<1> DEFINE new == [i \in Nat |-> IF i = h.next THEN rank[key[1]] + 1 ELSE rank[i]]
<1>2. h.next \in Nat /\ key[1] \in Nat
  BY GoodFacts DEF Keys
<1>3. h.next \notin Given(c) \cup {Root}
  <2>1. Given(c) \in SUBSET (FirstID .. h.next - 1) /\ h.next >= FirstID
    BY GivenFacts, GoodFacts
  <2>2. h.next >= 3
    BY ONLY <2>1 DEF FirstID
  <2>3. h.next \notin FirstID .. h.next - 1 /\ h.next # Root
    BY ONLY <1>2, <2>2, BeyondRange DEF FirstID, Root
  <2>4. QED BY <2>1, <2>3
<1>4. new \in [Nat -> Nat]
  <2>1. rank[key[1]] \in Nat
    BY <1>2
  <2>2. \A n \in Nat : n + 1 \in Nat
    OBVIOUS
  <2>3. QED BY <2>1, <2>2
<1>5. ASSUME NEW k \in Items(d) PROVE new[k[1]] < new[d[k].id]
  <2>1. CASE k = key
    <3>1. new[d[k].id] = rank[key[1]] + 1 /\ new[k[1]] = rank[key[1]] /\ rank[key[1]] \in Nat
      BY <1>2, <1>3, <2>1
    <3>2. \A n \in Nat : n < n + 1
      OBVIOUS
    <3>3. QED BY <3>1, <3>2
  <2>2. CASE k # key
    <3>1. k \in Items(c) /\ d[k].id = c[k].id
      BY <2>2
    <3>2. c[k].id \in Given(c) /\ k[1] \in Given(c) \cup {Root} /\ Given(c) \subseteq Nat
      BY <3>1, GivenFacts
    <3>3. c[k].id \in Nat /\ k[1] \in Nat /\ c[k].id # h.next /\ k[1] # h.next
      BY <1>3, <3>2 DEF Root
    <3>4. new[c[k].id] = rank[c[k].id] /\ new[k[1]] = rank[k[1]]
      BY <3>3
    <3>5. QED BY <1>1, <3>1, <3>4
  <2>3. QED BY <2>1, <2>2
<1>6. QED
  <2> HIDE DEF new
  <2> QED BY <1>4, <1>5 DEF Acyclic

\* An item that goes into a folder that is not inside it: everything but the folders
\* on the way up from there gets higher ranks.
LEMMA AcyclicMove ==
  ASSUME NEW c, NEW h, NEW drift, NEW d, NEW key \in Items(c), NEW to, NEW A \in SUBSET Nat, Good(c, h, drift), Acyclic(c),
         NEW new, new[1] = to, new \in Items(d), d[new].id = c[key].id,
         Items(d) = (Items(c) \ {key}) \cup {new},
         \A k \in Items(d) : k # new => d[k].id = c[k].id,
         to \in A, c[key].id \notin A, \A k \in Items(c) : c[k].id \in A => k[1] \in A
  PROVE  Acyclic(d)
<1>1. PICK rank \in [Nat -> Nat] : \A k \in Items(c) : rank[k[1]] < rank[c[k].id]
  BY DEF Acyclic
<1> DEFINE high == [i \in Nat |-> IF i \in A THEN rank[i] ELSE rank[i] + rank[to] + 1]
<1>2. to \in Nat /\ rank[to] \in Nat
  OBVIOUS
<1>3. \A k \in Items(c) : k[1] \in Nat /\ c[k].id \in Nat
  <2>1. Given(c) \in SUBSET Nat /\ Root \in Nat
    BY GivenFacts DEF Root
  <2>2. QED BY <2>1, GivenFacts
<1>4. high \in [Nat -> Nat]
  <2>1. \A a, b \in Nat : a + b + 1 \in Nat
    OBVIOUS
  <2>2. \A i \in Nat : rank[i] \in Nat
    OBVIOUS
  <2>3. QED BY <1>2, <2>1, <2>2
<1>5. ASSUME NEW k \in Items(d) PROVE high[k[1]] < high[d[k].id]
  <2>1. CASE k = new
    <3>1. high[k[1]] = rank[to] /\ d[k].id = c[key].id /\ c[key].id \in Nat /\ rank[c[key].id] \in Nat
      BY <1>2, <1>3, <2>1
    <3>2. high[c[key].id] = rank[c[key].id] + rank[to] + 1
      BY <3>1
    <3>3. \A a, b \in Nat : b < a + b + 1
      OBVIOUS
    <3>4. rank[to] < rank[c[key].id] + rank[to] + 1
      BY <1>2, <3>1, <3>3
    <3> HIDE DEF high
    <3>5. QED BY <3>1, <3>2, <3>4
  <2>2. CASE k # new
    <3>1. k \in Items(c) /\ d[k].id = c[k].id
      BY <2>2
    <3>2. PICK i, j \in Nat : i = k[1] /\ j = c[k].id
      BY <1>3, <3>1
    <3>3. rank[i] < rank[j] /\ rank[i] \in Nat /\ rank[j] \in Nat /\ (j \in A => i \in A)
      BY <1>1, <3>1, <3>2
    <3>4. high[i] \in {rank[i], rank[i] + rank[to] + 1} /\ (i \in A => high[i] = rank[i])
      OBVIOUS
    <3>5. high[j] = IF j \in A THEN rank[j] ELSE rank[j] + rank[to] + 1
      OBVIOUS
    <3>6. high[i] < high[j]
      <4>1. \A a, b, t \in Nat : a < b => a < b + t + 1 /\ a + t + 1 < b + t + 1
        OBVIOUS
      <4> HIDE DEF high
      <4>2. CASE j \in A
        BY <3>3, <3>4, <3>5, <4>2
      <4>3. CASE j \notin A
        <5>1. high[j] = rank[j] + rank[to] + 1
          BY <3>5, <4>3
        <5>2. QED BY ONLY <1>2, <3>3, <3>4, <4>1, <5>1
      <4>4. QED BY <4>2, <4>3
    <3>7. QED BY <3>1, <3>2, <3>6
  <2>3. QED BY <2>1, <2>2
<1>6. QED
  <2> HIDE DEF high
  <2> QED BY <1>4, <1>5 DEF Acyclic

\* The ids above `id` have with every item its folder among them.
LEMMA AboveClosed ==
  ASSUME Good(catalog, header, renamed), Acyclic(catalog), NEW id, ThreadKey(id) \in DOMAIN catalog
  PROVE  /\ Above(id) \in SUBSET Nat
         /\ \A k \in Items(catalog) : catalog[k].id \in Above(id) => k[1] \in Above(id)
<1> DEFINE c == catalog
           S == Given(c)
<1>1. PICK f : Up(f, id) /\ Above(id) = {f[n] : n \in 0 .. MaxID}
  BY AboveRounds
<1>2. PICK rank \in [Nat -> Nat] : \A k \in Items(c) : rank[k[1]] < rank[c[k].id]
  BY DEF Acyclic
<1>3. \A n \in 0 .. MaxID : f[n] \in Nat /\ Place(c, f[n]) \in ItemKeys(c) /\ c[Place(c, f[n])].id = f[n]
  <2>1. \A n \in 0 .. MaxID : ThreadKey(f[n]) \in DOMAIN c
    BY <1>1 DEF Up
  <2>2. QED BY <2>1, GoodFacts, KeyFacts DEF Good
<1>4. \A x : KeyOf(x) = Place(c, x)
  BY DEF KeyOf, Place
<1> DEFINE up == [x \in S |-> Place(c, x)[1]]
<1>5. \A n \in 0 .. MaxID : f[n] \in S \cup {Root}
  <2> SUFFICES ASSUME NEW n \in 0 .. MaxID PROVE f[n] \in S \cup {Root}
    OBVIOUS
  <2>1. CASE Place(c, f[n]) = RootKey
    BY <1>3, <2>1, GoodFacts
  <2>2. CASE Place(c, f[n]) # RootKey
    BY <1>3, <2>2 DEF Given, Items
  <2>3. QED BY <2>1, <2>2
<1>6. \A x \in S : up[x] \in S \cup {Root} /\ rank[up[x]] < rank[x]
  <2> SUFFICES ASSUME NEW x \in S PROVE up[x] \in S \cup {Root} /\ rank[up[x]] < rank[x]
    OBVIOUS
  <2>1. Place(c, x) \in Items(c) /\ c[Place(c, x)].id = x
    BY GivenFacts
  <2>2. up[x] = Place(c, x)[1]
    OBVIOUS
  <2>3. QED BY <1>2, <2>1, <2>2, GivenFacts
<1>7. \A n \in 1 .. MaxID : f[n] = IF f[n - 1] = Root THEN Root ELSE up[f[n - 1]]
  <2> SUFFICES ASSUME NEW n \in 1 .. MaxID PROVE f[n] = IF f[n - 1] = Root THEN Root ELSE up[f[n - 1]]
    OBVIOUS
  <2>1. n - 1 \in 0 .. MaxID
    OBVIOUS
  <2>2. f[n] = IF f[n - 1] = Root THEN Root ELSE Place(c, f[n - 1])[1]
    BY <1>1, <1>4 DEF Up
  <2>3. QED BY <1>5, <2>1, <2>2
<1>8. MaxID \in Nat
  OBVIOUS
<1>9. f[MaxID] = Root
  <2>1. S \in SUBSET Nat /\ IsFiniteSet(S) /\ Root \notin S /\ Cardinality(S) <= MaxID
    BY GivenFacts
  <2>2. f[0] \in S \cup {Root}
    BY <1>5, <1>8
  <2> HIDE DEF S, up
  <2>3. QED BY ONLY <1>6, <1>7, <1>8, <2>1, <2>2, rank \in [Nat -> Nat], ClimbEnds
<1>10. ASSUME NEW k \in Items(c), c[k].id \in Above(id) PROVE k[1] \in Above(id)
  <2>1. PICK n \in 0 .. MaxID : f[n] = c[k].id
    BY <1>1, <1>10
  <2>2. f[n] # Root /\ Place(c, f[n]) = k
    <3>1. k \in ItemKeys(c) /\ k # RootKey
      BY GoodFacts
    <3>2. Place(c, c[k].id) = k /\ c[k].id # Root
      BY <3>1, GoodFacts
    <3>3. QED BY <2>1, <3>2
  <2>3. n + 1 \in 1 .. MaxID /\ n + 1 - 1 = n /\ n + 1 \in 0 .. MaxID
    <3>1. n # MaxID
      BY <1>9, <2>2
    <3>2. QED BY <1>8, <3>1
  <2>4. PICK m : m = n + 1
    OBVIOUS
  <2>5. f[m] = IF f[m - 1] = Root THEN Root ELSE KeyOf(f[m - 1])[1]
    BY <1>1, <2>3, <2>4 DEF Up
  <2>6. f[m] = k[1]
    <3>1. m - 1 = n
      BY <2>3, <2>4
    <3>2. KeyOf(f[n]) = k
      BY <1>4, <2>2
    <3>3. QED BY <2>2, <2>5, <3>1, <3>2
  <2>7. QED BY <1>1, <2>3, <2>4, <2>6
<1>11. Above(id) \in SUBSET Nat
  BY <1>1, <1>3
<1>12. QED BY <1>10, <1>11

-----------------------------------------------------------------------------
(* What a change of the items makes of the tree *)

ItemAt(key, rec) == [parent |-> key[1], name |-> key[2], kind |-> rec.kind]

\* A function of the ids that has every item where its key says is the tree.
LEMMA TreeFacts ==
  ASSUME NEW c, NEW h, NEW drift, Good(c, h, drift)
  PROVE  /\ DOMAIN TreeOf(c) = Given(c) /\ TreeOf(c) = [i \in Given(c) |-> TreeOf(c)[i]]
         /\ \A k \in Items(c) : TreeOf(c)[c[k].id] = ItemAt(k, c[k])
         /\ \A i \in Given(c) : TreeOf(c)[i] = ItemAt(Place(c, i), c[Place(c, i)])
<1> DEFINE At(i) == CHOOSE j \in Items(c) : c[j].id = i
<1>1. \A i \in Given(c) : At(i) = Place(c, i)
  <2> SUFFICES ASSUME NEW i \in Given(c) PROVE At(i) = Place(c, i)
    OBVIOUS
  <2>1. Place(c, i) \in Items(c) /\ c[Place(c, i)].id = i
    BY GivenFacts
  <2>2. \A j \in Items(c) : c[j].id = i => j = Place(c, i)
    BY GoodFacts
  <2>3. QED BY <2>1, <2>2
<1>2. TreeOf(c) = [i \in Given(c) |-> ItemAt(At(i), c[At(i)])]
  BY DEF TreeOf, Given, ItemAt
<1>3. \A i \in Given(c) : TreeOf(c)[i] = ItemAt(Place(c, i), c[Place(c, i)])
  <2> HIDE DEF At
  <2> QED BY <1>1, <1>2
<1>4. \A k \in Items(c) : TreeOf(c)[c[k].id] = ItemAt(k, c[k])
  <2> SUFFICES ASSUME NEW k \in Items(c) PROVE TreeOf(c)[c[k].id] = ItemAt(k, c[k])
    OBVIOUS
  <2>1. c[k].id \in Given(c) /\ Place(c, c[k].id) = k
    BY GivenFacts, GoodFacts
  <2>2. QED BY <1>3, <2>1
<1>5. QED
  <2> HIDE DEF At
  <2> QED BY <1>2, <1>3, <1>4

\* What shows each item where it is shows the tree.
LEMMA TreeIs ==
  ASSUME NEW c, NEW h, NEW drift, Good(c, h, drift), NEW t, t = [i \in Given(c) |-> t[i]],
         \A k \in Items(c) : t[c[k].id] = ItemAt(k, c[k])
  PROVE  TreeOf(c) = t
<1>1. \A i \in Given(c) : TreeOf(c)[i] = t[i]
  <2> SUFFICES ASSUME NEW i \in Given(c) PROVE TreeOf(c)[i] = t[i]
    OBVIOUS
  <2>1. Place(c, i) \in Items(c) /\ c[Place(c, i)].id = i
    BY GivenFacts
  <2>2. t[c[Place(c, i)].id] = ItemAt(Place(c, i), c[Place(c, i)])
    BY <2>1
  <2>3. TreeOf(c)[i] = ItemAt(Place(c, i), c[Place(c, i)])
    BY TreeFacts
  <2>4. QED BY <2>1, <2>2, <2>3
<1>2. TreeOf(c) = [i \in Given(c) |-> TreeOf(c)[i]]
  BY TreeFacts
<1>3. QED BY <1>1, <1>2

\* The same items.
LEMMA SameTree ==
  ASSUME NEW c, NEW d, NEW h, NEW h2, NEW drift, NEW drift2, Good(c, h, drift), Good(d, h2, drift2), Items(d) = Items(c),
         \A k \in Items(c) : d[k].id = c[k].id /\ d[k].kind = c[k].kind
  PROVE  TreeOf(d) = TreeOf(c)
<1> DEFINE t == TreeOf(c)
<1>1. Given(d) = Given(c)
  BY DEF Given
<1>2. t = [i \in Given(d) |-> t[i]]
  BY <1>1, TreeFacts
<1>3. \A k \in Items(d) : t[d[k].id] = ItemAt(k, d[k])
  <2> SUFFICES ASSUME NEW k \in Items(d) PROVE t[d[k].id] = ItemAt(k, d[k])
    OBVIOUS
  <2>1. t[c[k].id] = ItemAt(k, c[k])
    BY TreeFacts
  <2>2. ItemAt(k, c[k]) = ItemAt(k, d[k])
    BY DEF ItemAt
  <2>3. QED BY <2>1, <2>2
<1>4. QED
  <2> HIDE DEF t
  <2>1. TreeOf(d) = t
    BY <1>2, <1>3, TreeIs
  <2>2. QED BY <2>1 DEF t

\* One item more, or one that was elsewhere.
LEMMA PutTree ==
  ASSUME NEW c, NEW d, NEW h, NEW h2, NEW drift, NEW drift2, Good(c, h, drift), Good(d, h2, drift2), NEW rest, NEW key,
         rest \subseteq Items(c), key \notin rest, Items(d) = rest \cup {key},
         \A k \in rest : d[k].id = c[k].id /\ d[k].kind = c[k].kind,
         Given(d) = Given(c) \cup {d[key].id}
  PROVE  TreeOf(d) = Tree!Put(TreeOf(c), d[key].id, ItemAt(key, d[key]))
<1> DEFINE t == Tree!Put(TreeOf(c), d[key].id, ItemAt(key, d[key]))
<1>1. DOMAIN TreeOf(c) = Given(c)
  BY TreeFacts
<1>2. /\ t = [i \in Given(d) |-> t[i]] /\ t[d[key].id] = ItemAt(key, d[key])
      /\ \A i \in Given(c) : i # d[key].id => t[i] = TreeOf(c)[i]
  BY <1>1 DEF Tree!Put
<1>3. ASSUME NEW k \in Items(d) PROVE t[d[k].id] = ItemAt(k, d[k])
  <2>1. CASE k = key
    BY <1>2, <2>1
  <2>2. CASE k # key
    <3>1. k \in Items(c) /\ d[k].id = c[k].id /\ ItemAt(k, c[k]) = ItemAt(k, d[k])
      BY <2>2 DEF ItemAt
    <3>2. TreeOf(c)[c[k].id] = ItemAt(k, c[k]) /\ c[k].id \in Given(c)
      BY <3>1, TreeFacts, GivenFacts
    <3>3. d[k].id # d[key].id
      <4>1. k \in ItemKeys(d) /\ key \in ItemKeys(d)
        BY GoodFacts
      <4>2. QED BY <2>2, <4>1, GoodFacts
    <3> HIDE DEF t
    <3>4. QED BY <1>2, <3>1, <3>2, <3>3
  <2>3. QED BY <2>1, <2>2
<1>4. QED
  <2> HIDE DEF t
  <2>1. TreeOf(d) = t
    BY <1>2, <1>3, TreeIs
  <2>2. QED BY <2>1 DEF t

\* One item less.
LEMMA RestrictTree ==
  ASSUME NEW c, NEW d, NEW h, NEW h2, NEW drift, NEW drift2, Good(c, h, drift), Good(d, h2, drift2), NEW key \in Items(c),
         Items(d) = Items(c) \ {key}, \A k \in Items(d) : d[k].id = c[k].id /\ d[k].kind = c[k].kind
  PROVE  TreeOf(d) = Restrict(TreeOf(c), DOMAIN TreeOf(c) \ {c[key].id})
<1> DEFINE t == Restrict(TreeOf(c), DOMAIN TreeOf(c) \ {c[key].id})
<1>1. Given(d) = Given(c) \ {c[key].id}
  <2>1. \A k \in Items(c) : c[k].id = c[key].id => k = key
    BY GoodFacts
  <2>2. QED BY <2>1 DEF Given
<1>2. t = [i \in Given(d) |-> t[i]] /\ \A i \in Given(d) : t[i] = TreeOf(c)[i]
  BY <1>1, TreeFacts DEF Restrict
<1>3. ASSUME NEW k \in Items(d) PROVE t[d[k].id] = ItemAt(k, d[k])
  <2>1. TreeOf(c)[c[k].id] = ItemAt(k, c[k])
    BY TreeFacts
  <2>2. ItemAt(k, c[k]) = ItemAt(k, d[k]) /\ d[k].id \in Given(d)
    BY DEF ItemAt, Given
  <2> HIDE DEF t
  <2>3. QED BY <1>2, <2>1, <2>2
<1>4. QED
  <2> HIDE DEF t
  <2>1. TreeOf(d) = t
    BY ONLY Good(d, h2, drift2), <1>2, <1>3, TreeIs
  <2>2. QED BY <2>1 DEF t

\* The copy of Cardinality in FolderTree is the same operator.
LEMMA SameCardinality ==
  ASSUME NEW S
  PROVE  Tree!Cardinality(S) = Cardinality(S)
BY DEF Tree!Cardinality, Cardinality

\* Going up from any item of an image in which no folder is inside itself ends at the
\* root.
LEMMA TreeHangs ==
  ASSUME NEW c, NEW h, NEW drift, Good(c, h, drift), Acyclic(c)
  PROVE  Tree!Hangs(TreeOf(c))
<1> DEFINE t == TreeOf(c)
           S == Given(c)
           All == S \cup {Root}
           N == Cardinality(S)
           last == Tree!Cardinality(DOMAIN t)
<1>1. /\ DOMAIN t = S /\ last = N /\ S \in SUBSET Nat /\ IsFiniteSet(S) /\ Root \notin S /\ N \in Nat
      /\ \A k \in Items(c) : t[c[k].id].parent = k[1]
  <2>1. \A k \in Items(c) : ItemAt(k, c[k]).parent = k[1]
    BY DEF ItemAt
  <2>2. QED BY <2>1, GivenFacts, TreeFacts, FS_CardinalityType, SameCardinality
<1>2. PICK rank \in [Nat -> Nat] : \A k \in Items(c) : rank[k[1]] < rank[c[k].id]
  BY DEF Acyclic
<1>3. ASSUME NEW i \in S PROVE t[i].parent \in All /\ rank[t[i].parent] < rank[i]
  <2>1. PICK k \in Items(c) : c[k].id = i
    BY DEF Given
  <2>2. t[i].parent = k[1]
    BY <1>1, <2>1
  <2>3. QED BY <1>2, <2>1, <2>2, GivenFacts
<1> DEFINE Parent(x) == IF x = Root THEN Root ELSE t[x].parent
           Solves(i, f) == f = [n \in 0 .. last |-> IF n = 0 THEN i ELSE Parent(f[n - 1])]
<1>4. ASSUME NEW i \in S, NEW f, f = CHOOSE g : Solves(i, g) PROVE f[last] = Root
  <2> DEFINE step == [x \in All |-> Parent(x)]
             up == [x \in S |-> t[x].parent]
  <2> HIDE DEF t, S, N, last
  <2>1. N \in Nat
    BY <1>1
  <2>2. step \in [All -> All]
    BY <1>3
  <2>3. PICK g : Iterates(g, All, i, step, N)
    <3>1. i \in All /\ N \in Nat
      BY <1>1
    <3> HIDE DEF All, step
    <3>2. QED BY <2>2, <3>1, Iteration
  <2>4. \A n \in 1 .. N : n - 1 \in 0 .. N
    BY <1>1
  <2>5. \A n \in 1 .. N : g[n] = Parent(g[n - 1])
    <3> HIDE DEF Parent
    <3>1. \A n \in 1 .. N : g[n - 1] \in All
      BY <2>3, <2>4 DEF Iterates
    <3> HIDE DEF All
    <3>2. QED BY <2>3, <3>1 DEF Iterates
  <2>6. Solves(i, g)
    <3> HIDE DEF Parent, All, step
    <3>1. \A n \in 0 .. N : n # 0 => n \in 1 .. N
      BY <1>1
    <3>2. g = [n \in 0 .. N |-> g[n]] /\ g[0] = i
      BY <2>3 DEF Iterates
    <3>3. g = [n \in 0 .. N |-> IF n = 0 THEN i ELSE Parent(g[n - 1])]
      BY <2>5, <3>1, <3>2
    <3>4. QED BY <1>1, <3>3
  <2>7. Solves(i, f)
    <3> HIDE DEF Solves
    <3> QED BY <1>4, <2>6
  <2>8. f[0] = i /\ \A n \in 1 .. N : f[n] = Parent(f[n - 1])
    <3> HIDE DEF Parent
    <3>1. f = [n \in 0 .. N |-> IF n = 0 THEN i ELSE Parent(f[n - 1])]
      BY <1>1, <2>7
    <3>2. 0 \in 0 .. N /\ \A n \in 1 .. N : n \in 0 .. N /\ n # 0
      BY <1>1
    <3>3. QED BY <3>1, <3>2
  <2> DEFINE P == {n \in Nat : n <= N => f[n] \in All}
  <2>9. P = Nat
    <3>1. P \in SUBSET Nat /\ 0 \in P
      BY <2>8
    <3>2. ASSUME NEW n \in P PROVE n + 1 \in P
      <4>0. n + 1 \in Nat
        OBVIOUS
      <4> SUFFICES ASSUME n + 1 <= N PROVE f[n + 1] \in All
        BY <4>0
      <4>1. PICK m : m = n + 1
        OBVIOUS
      <4>2. n \in Nat /\ m \in 1 .. N /\ m - 1 = n /\ n <= N
        BY <2>1, <4>1
      <4>3. f[m] = Parent(f[n]) /\ f[n] \in All
        BY <2>8, <4>2
      <4>4. QED BY <1>3, <4>1, <4>3
    <3> HIDE DEF P
    <3>3. QED BY <3>1, <3>2, SetInduction
  <2>10. \A n \in 0 .. N : f[n] \in All
    <3>1. \A n \in 0 .. N : n \in Nat /\ n <= N
      BY <1>1
    <3>2. QED BY <2>9, <3>1
  <2>11. \A n \in 1 .. N : f[n] = IF f[n - 1] = Root THEN Root ELSE up[f[n - 1]]
    <3> SUFFICES ASSUME NEW n \in 1 .. N PROVE f[n] = IF f[n - 1] = Root THEN Root ELSE up[f[n - 1]]
      OBVIOUS
    <3>1. f[n - 1] \in All /\ f[n] = Parent(f[n - 1])
      BY <2>4, <2>8, <2>10
    <3>2. QED BY <3>1
  <2>12. \A x \in S : up[x] \in S \cup {Root} /\ rank[up[x]] < rank[x]
    BY <1>3
  <2>13. f[0] \in S \cup {Root} /\ Cardinality(S) <= N /\ N \in Nat
    BY <1>1, <2>8 DEF N
  <2> HIDE DEF up, All, P, step, Parent, Solves
  <2>14. f[N] = Root
    BY ONLY rank \in [Nat -> Nat], <1>1, <2>11, <2>12, <2>13, ClimbEnds
  <2>15. QED BY <1>1, <2>14
<1>5. QED
  <2> SUFFICES ASSUME NEW i \in DOMAIN t PROVE (CHOOSE g : Solves(i, g))[last] = Root
    BY DEF Tree!Hangs
  <2>1. i \in S
    BY <1>1
  <2> HIDE DEF Solves, t, S, last
  <2>2. PICK f : f = CHOOSE g : Solves(i, g)
    OBVIOUS
  <2>3. QED BY <1>4, <2>1, <2>2

\* What a call may make of the tree and of the next id to give.
TreeStep(t, next, new, newNext) ==
    \/ new = t /\ newNext = next
    \/ /\ newNext = next + 1 /\ next \in Ids
       /\ \E item \in Tree!Item :
             item.parent \in Tree!Folders(t) /\ Tree!NameFree(t, next, item) /\ new = Tree!Put(t, next, item)
    \/ /\ newNext = next
       /\ \E i \in DOMAIN t, parent \in Tree!Folders(t), name \in Names :
             LET item == [t[i] EXCEPT !.parent = parent, !.name = name]
             IN  Tree!NameFree(t, i, item) /\ new = Tree!Put(t, i, item) /\ Tree!Hangs(new)
    \/ /\ newNext = next
       /\ \E i \in DOMAIN t :
             (\A j \in DOMAIN t : t[j].parent # i) /\ new = Restrict(t, DOMAIN t \ {i})

\* A folder of the image is one of the tree.
LEMMA FolderFacts ==
  ASSUME NEW c, NEW h, NEW drift, Good(c, h, drift), NEW at \in ItemKeys(c), c[at].kind = "folder"
  PROVE  c[at].id \in Tree!Folders(TreeOf(c)) /\ c[at].id \in Given(c) \cup {Root}
<1>1. CASE at = RootKey
  <2>1. c[at].id = Root
    BY <1>1, GoodFacts
  <2>2. QED BY <2>1 DEF Tree!Folders
<1>2. CASE at # RootKey
  <2>1. at \in Items(c)
    BY <1>2 DEF Items
  <2>2. c[at].id \in Given(c) /\ TreeOf(c)[c[at].id] = ItemAt(at, c[at])
    BY <2>1, GivenFacts, TreeFacts
  <2>3. ItemAt(at, c[at]).kind = "folder"
    BY DEF ItemAt
  <2>4. c[at].id \in DOMAIN TreeOf(c)
    BY <2>2, TreeFacts
  <2>5. QED BY <2>2, <2>3, <2>4 DEF Tree!Folders
<1>3. QED BY <1>1, <1>2

\* A key that no record has, or the item's own, is free in the tree for the item.
LEMMA FreeName ==
  ASSUME NEW c, NEW h, NEW drift, Good(c, h, drift), NEW item, NEW id,
         ThreadKey(id) \in DOMAIN c => <<item.parent, item.name>> \notin DOMAIN c \ {Place(c, id)},
         ThreadKey(id) \notin DOMAIN c => <<item.parent, item.name>> \notin DOMAIN c
  PROVE  Tree!NameFree(TreeOf(c), id, item)
<1> SUFFICES ASSUME NEW i \in DOMAIN TreeOf(c) \ {id}, TreeOf(c)[i].parent = item.parent, TreeOf(c)[i].name = item.name
             PROVE  FALSE
  BY DEF Tree!NameFree
<1>1. i \in Given(c) /\ TreeOf(c)[i] = ItemAt(Place(c, i), c[Place(c, i)])
  BY TreeFacts
<1>2. TreeOf(c)[i].parent = Place(c, i)[1] /\ TreeOf(c)[i].name = Place(c, i)[2]
  BY <1>1 DEF ItemAt
<1>3. Place(c, i) \in DOMAIN c /\ c[Place(c, i)].id = i
  BY <1>1, GivenFacts, GoodFacts, KeyFacts DEF Good
<1>4. <<item.parent, item.name>> = Place(c, i)
  BY <1>2 DEF Place
<1>5. CASE ThreadKey(id) \in DOMAIN c
  <2>1. Place(c, i) = Place(c, id)
    BY <1>3, <1>4, <1>5
  <2>2. c[Place(c, id)].id = id
    BY <1>5, GoodFacts
  <2>3. QED BY <1>3, <2>1, <2>2
<1>6. QED BY <1>3, <1>4, <1>5

\* newFolder, newFile and makeSymlink.
LEMMA CreateTree ==
  ASSUME NEW c, NEW h, NEW drift, NEW at \in ItemKeys(c), NEW name \in Names, NEW rec \in FolderRecs \cup FileRecs,
         NEW d, Good(c, h, drift), Acyclic(c), h.next \in Ids, c[at].kind = "folder",
         <<c[at].id, name>> \notin DOMAIN c,
         rec.id = h.next, rec.kind = "folder" => rec.valence = 0,
         d = With(With(With(c, <<c[at].id, name>>, rec), ThreadKey(h.next), Thread(c[at].id, name)),
                  at, More(c[at]))
  PROVE  Acyclic(d) /\ TreeStep(TreeOf(c), h.next, TreeOf(d), h.next + 1)
<1> DEFINE parent == c[at].id
           K == <<parent, name>>
           T == ThreadKey(h.next)
           h2 == Counted(h, rec.kind)
<1>1. Good(d, h2, drift)
  BY GoodAdd
<1>2. Typed(c, h) /\ at \in DOMAIN c /\ at[2] # NoName /\ parent \in Nat /\ h.next \in Nat
  BY KeyFacts, GoodFacts DEF Good
<1>3. K \in Keys /\ K[2] # NoName /\ T[2] = NoName /\ K[1] = parent /\ K[2] = name /\ K # RootKey
  BY <1>2, GoodFacts DEF Keys, ThreadKey, ItemKeys
<1>4. /\ DOMAIN d = DOMAIN c \cup {K, T} /\ d[K] = rec
      /\ \A k \in ItemKeys(c) : d[k] = IF k = at THEN More(c[at]) ELSE c[k]
  <2>1. K # T /\ K # at /\ T # at
    BY <1>2, <1>3
  <2>2. DOMAIN d = DOMAIN c \cup {K, T} /\ d[K] = rec
    BY <1>2, <2>1 DEF With
  <2>3. \A k \in ItemKeys(c) : k \in DOMAIN c /\ k # K /\ k # T
    BY <1>3 DEF ItemKeys
  <2>4. QED BY <2>2, <2>3 DEF With
<1> HIDE DEF K, T
<1>5. \A k \in ItemKeys(c) : d[k].id = c[k].id /\ d[k].kind = c[k].kind
  <2>1. More(c[at]).id = c[at].id /\ More(c[at]).kind = c[at].kind
    BY <1>2, ValenceCopies
  <2>2. QED BY <1>4, <2>1
<1>6. Items(d) = Items(c) \cup {K} /\ K \notin Items(c)
  BY <1>3, <1>4 DEF Items, ItemKeys, K
<1>7. \A k \in Items(c) : k \in ItemKeys(c) /\ d[k].id = c[k].id /\ d[k].kind = c[k].kind
  BY <1>5 DEF Items
<1>8. Given(d) = Given(c) \cup {d[K].id} /\ d[K].id = h.next
  BY <1>4, <1>6, <1>7 DEF Given
<1>9. parent \in Tree!Folders(TreeOf(c)) /\ parent \in Given(c) \cup {Root}
  BY FolderFacts
<1>10. Acyclic(d)
  <2>1. K[1] \in Given(c) \cup {Root} /\ K \in Keys /\ d[K].id = h.next /\ K \notin Items(c)
        /\ Items(d) = Items(c) \cup {K} /\ \A k \in Items(c) : d[k].id = c[k].id
    BY <1>3, <1>6, <1>7, <1>8, <1>9
  <2>2. QED BY ONLY <2>1, Good(c, h, drift), Acyclic(c), AcyclicAdd
<1>11. TreeOf(d) = Tree!Put(TreeOf(c), h.next, ItemAt(K, rec))
  <2>1. Items(c) \subseteq Items(c)
    OBVIOUS
  <2>2. TreeOf(d) = Tree!Put(TreeOf(c), d[K].id, ItemAt(K, d[K]))
    BY <1>1, <1>6, <1>7, <1>8, <2>1, PutTree
  <2>3. QED BY <1>4, <1>8, <2>2
<1>12. ItemAt(K, rec) = [parent |-> parent, name |-> name, kind |-> rec.kind]
  BY <1>3 DEF ItemAt
<1>13. PICK item : item = ItemAt(K, rec)
  OBVIOUS
<1>14. item.parent = parent /\ item.name = name
  BY <1>12, <1>13
<1>15. item \in Tree!Item
  <2>1. rec.kind \in {"folder", "file"}
    BY DEF FolderRecs, FileRecs
  <2>2. parent \in Ids \cup {Root}
    <3>1. Given(c) \in SUBSET (FirstID .. h.next - 1) /\ MaxID \in Nat
      BY GivenFacts
    <3>2. \A n \in FirstID .. h.next - 1 : n \in Ids
      BY <1>2, <3>1 DEF Ids, FirstID
    <3>3. QED BY <1>9, <3>1, <3>2
  <2>3. QED BY <1>12, <1>13, <2>1, <2>2 DEF Tree!Item
<1>16. Tree!NameFree(TreeOf(c), h.next, item)
  <2>1. <<item.parent, item.name>> \notin DOMAIN c
    BY <1>14
  <2>2. PICK id : id = h.next
    OBVIOUS
  <2>3. QED BY <2>1, <2>2, FreeName
<1>17. item.parent \in Tree!Folders(TreeOf(c)) /\ TreeOf(d) = Tree!Put(TreeOf(c), h.next, item)
  BY <1>9, <1>11, <1>13, <1>14
<1>18. QED BY <1>10, <1>15, <1>16, <1>17 DEF TreeStep

\* removeFile.
LEMMA RemoveTree ==
  ASSUME NEW c, NEW h, NEW drift, NEW key \in Items(c), NEW at, NEW d, Good(c, h, drift), Acyclic(c), ~NotEmpty(c[key]),
         at = Place(c, key[1]),
         d = With(Without(Without(c, key), ThreadKey(c[key].id)), at, Less(c[at]))
  PROVE  Acyclic(d) /\ TreeStep(TreeOf(c), h.next, TreeOf(d), h.next)
<1> DEFINE T == ThreadKey(c[key].id)
           h2 == [next |-> h.next,
                  files |-> IF c[key].kind = "folder" THEN h.files ELSE h.files - 1,
                  folders |-> IF c[key].kind = "folder" THEN h.folders - 1 ELSE h.folders]
<1>1. Good(d, h2, drift)
  BY GoodRemove
<1>2. at \in ItemKeys(c) /\ c[at].kind = "folder" /\ at # key
  BY ParentFacts
<1>3. Typed(c, h) /\ T[2] = NoName /\ key[2] # NoName /\ at[2] # NoName /\ at \in DOMAIN c
  BY <1>2 DEF Good, ThreadKey, ItemKeys, Items
<1>4. /\ DOMAIN d = DOMAIN c \ {key, T}
      /\ \A k \in ItemKeys(c) \ {key} : d[k] = IF k = at THEN Less(c[at]) ELSE c[k]
  <2>1. at # T /\ at # key
    BY <1>2, <1>3
  <2>2. \A k \in ItemKeys(c) : k \in DOMAIN c /\ k # T
    BY <1>3 DEF ItemKeys
  <2> HIDE DEF T
  <2>3. DOMAIN d = DOMAIN c \ {key, T}
    BY <1>3, <2>1 DEF With, Without, Restrict, T
  <2>4. QED BY <2>2, <2>3 DEF With, Without, Restrict, T
<1> HIDE DEF T
<1>5. \A k \in ItemKeys(c) \ {key} : d[k].id = c[k].id /\ d[k].kind = c[k].kind
  <2>1. Less(c[at]).id = c[at].id /\ Less(c[at]).kind = c[at].kind
    BY <1>2, <1>3, ValenceCopies
  <2>2. QED BY <1>4, <2>1
<1>6. Items(d) = Items(c) \ {key}
  BY <1>3, <1>4 DEF Items, ItemKeys
<1>7. \A k \in Items(d) : d[k].id = c[k].id /\ d[k].kind = c[k].kind
  BY <1>5, <1>6 DEF Items
<1>8. Acyclic(d)
  <2>1. Items(d) \subseteq Items(c)
    BY <1>6
  <2>2. QED BY <1>7, <2>1, AcyclicFewer
<1>9. TreeOf(d) = Restrict(TreeOf(c), DOMAIN TreeOf(c) \ {c[key].id})
  <2>1. PICK g : Good(d, g, drift)
    BY <1>1
  <2>2. QED BY ONLY Good(c, h, drift), key \in Items(c), <1>6, <1>7, <2>1, RestrictTree
<1>10. ASSUME NEW j \in DOMAIN TreeOf(c) PROVE TreeOf(c)[j].parent # c[key].id
  <2>1. j \in Given(c)
    BY TreeFacts
  <2>2. PICK k : k = Place(c, j)
    OBVIOUS
  <2>3. k \in Items(c) /\ TreeOf(c)[j] = ItemAt(k, c[k])
    BY <2>1, <2>2, GivenFacts, TreeFacts
  <2>4. TreeOf(c)[j].parent = k[1]
    BY <2>3 DEF ItemAt
  <2>5. k[1] # c[key].id
    <3> SUFFICES ASSUME k[1] = c[key].id PROVE FALSE
      OBVIOUS
    <3>1. Place(c, k[1]) = key /\ key \in ItemKeys(c)
      BY GoodFacts
    <3>2. c[key].kind = "folder"
      BY <2>3, <3>1, ParentFacts
    <3>3. c[key].valence = drift[c[key].id] + Cardinality(Children(c, c[key].id)) /\ drift[c[key].id] \in Nat
      BY <3>1, <3>2, DriftFacts DEF Good, Valences
    <3>4. k \in Children(c, c[key].id)
      BY <2>3 DEF Children
    <3>5. IsFiniteSet(Children(c, c[key].id)) /\ Cardinality(Children(c, c[key].id)) \in Nat
      BY <1>3, FiniteItems
    <3>6. Cardinality(Children(c, c[key].id)) # 0
      BY <3>4, <3>5, FS_EmptySet
    <3>7. QED
      <4>1. c[key].valence > 0
        BY ONLY <3>3, <3>5, <3>6
      <4>2. QED BY <3>2, <4>1 DEF NotEmpty
  <2>6. QED BY <2>4, <2>5
<1>11. c[key].id \in DOMAIN TreeOf(c)
  BY GivenFacts, TreeFacts
<1>12. QED BY <1>8, <1>9, <1>10, <1>11 DEF TreeStep

\* move().
LEMMA MoveTree ==
  ASSUME NEW c, NEW h, NEW drift, NEW key \in Items(c), NEW from, NEW to \in ItemKeys(c), NEW name \in Names, NEW d,
         NEW A \in SUBSET Nat,
         Good(c, h, drift), Acyclic(c), from = Place(c, key[1]), c[to].kind = "folder",
         c[to].id # c[key].id, <<c[to].id, name>> \notin DOMAIN c \ {key},
         c[to].id \in A, c[key].id \notin A, \A k \in Items(c) : c[k].id \in A => k[1] \in A,
         d = With(With(With(With(Without(Without(c, key), ThreadKey(c[key].id)),
                                 <<c[to].id, name>>, c[key]),
                            ThreadKey(c[key].id), Thread(c[to].id, name)),
                       from, Less(c[from])),
                  to, More(c[to]))
  PROVE  Acyclic(d) /\ TreeStep(TreeOf(c), h.next, TreeOf(d), h.next)
<1> DEFINE parent == c[to].id
           id == c[key].id
           K == <<parent, name>>
           T == ThreadKey(id)
<1>1. Good(d, h, Drifted(drift, key[1], c[to].id))
  BY GoodMove
<1>2. from \in ItemKeys(c) /\ c[from].kind = "folder" /\ from # key /\ c[from].id = key[1]
  BY ParentFacts
<1>3. key \in ItemKeys(c) /\ key # to /\ key # RootKey
  BY <1>2, GoodFacts
<1>4. /\ T[2] = NoName /\ K[1] = parent /\ K[2] = name /\ K[2] # NoName /\ K # RootKey
      /\ T \in DOMAIN c
      /\ \A k \in ItemKeys(c) : k \in DOMAIN c /\ k[2] # NoName
  BY <1>3, GoodFacts DEF ThreadKey, ItemKeys
<1>5. K # T /\ \A k \in ItemKeys(c) \ {key} : k # K /\ k # T
  BY <1>4
<1>6. /\ DOMAIN d = (DOMAIN c \ {key}) \cup {K} /\ d[K] = c[key]
      /\ \A k \in ItemKeys(c) \ {key} :
            d[k] = IF k = to THEN More(c[to]) ELSE IF k = from THEN Less(c[from]) ELSE c[k]
  <2> HIDE DEF K, T
  <2>1. DOMAIN d = (DOMAIN c \ {key}) \cup {K}
    <3>1. DOMAIN d = (((((DOMAIN c \ {key}) \ {T}) \cup {K}) \cup {T}) \cup {from}) \cup {to}
      BY DEF With, Without, Restrict, K, T
    <3>2. from \in DOMAIN c /\ to \in DOMAIN c /\ from # key /\ to # key /\ T \in DOMAIN c /\ T # key
      BY <1>2, <1>3, <1>4, <1>5
    <3>3. QED BY <3>1, <3>2
  <2>2. from # K /\ to # K /\ K # T
    BY <1>2, <1>5
  <2>3. d[K] = c[key]
    BY <2>2, <2>1 DEF With, Without, Restrict, K, T
  <2>4. ASSUME NEW k \in ItemKeys(c) \ {key}
        PROVE  d[k] = IF k = to THEN More(c[to]) ELSE IF k = from THEN Less(c[from]) ELSE c[k]
    <3>1. k # K /\ k # T /\ k \in DOMAIN c /\ k # key
      BY <1>4, <1>5
    <3>2. QED BY <2>1, <3>1 DEF With, Without, Restrict, K, T
  <2>5. QED BY <2>1, <2>3, <2>4
<1> HIDE DEF T
<1>7. \A k \in ItemKeys(c) \ {key} : d[k].id = c[k].id /\ d[k].kind = c[k].kind
  <2>1. Typed(c, h)
    BY DEF Good
  <2>2. More(c[to]).id = c[to].id /\ More(c[to]).kind = c[to].kind
    BY <2>1, ValenceCopies
  <2>3. Less(c[from]).id = c[from].id /\ Less(c[from]).kind = c[from].kind
    BY <1>2, <2>1, ValenceCopies
  <2>4. QED BY <1>6, <2>2, <2>3
<1>8. Items(d) = (Items(c) \ {key}) \cup {K} /\ K \notin Items(c) \ {key}
  <2> HIDE DEF K
  <2>1. K \notin DOMAIN c \ {key}
    BY DEF K
  <2>2. QED BY <1>4, <1>6, <2>1 DEF Items, ItemKeys
<1>9. \A k \in Items(c) \ {key} : d[k].id = c[k].id /\ d[k].kind = c[k].kind
  BY <1>7 DEF Items
<1> HIDE DEF K
<1>10. d[K].id = id /\ Given(d) = Given(c) /\ id \in Given(c) /\ Given(d) = Given(c) \cup {d[K].id}
  <2>1. d[K].id = id /\ id \in Given(c)
    BY <1>6, GivenFacts
  <2>2. \A k \in Items(d) : d[k].id \in Given(c)
    BY <1>8, <1>9, <2>1, GivenFacts
  <2>3. \A k \in Items(c) : c[k].id \in Given(d)
    <3>1. K \in Items(d)
      BY <1>8
    <3>2. id \in Given(d)
      BY <2>1, <3>1 DEF Given
    <3>3. \A k \in Items(c) \ {key} : k \in Items(d) /\ c[k].id = d[k].id
      BY <1>8, <1>9
    <3>4. QED BY <3>2, <3>3 DEF Given
  <2>4. Given(d) \subseteq Given(c) /\ Given(c) \subseteq Given(d)
    BY <2>2, <2>3 DEF Given
  <2>5. QED BY <2>1, <2>4
<1>11. Acyclic(d)
  <2>1. K[1] = parent /\ K \in Items(d) /\ d[K].id = c[key].id
    BY <1>4, <1>8, <1>10
  <2>2. \A k \in Items(d) : k # K => d[k].id = c[k].id
    BY <1>8, <1>9
  <2>3. Items(d) = (Items(c) \ {key}) \cup {K}
    BY <1>8
  <2>4. parent \in A /\ c[key].id \notin A
    OBVIOUS
  <2>5. Good(c, h, drift) /\ Acyclic(c) /\ key \in Items(c) /\ A \in SUBSET Nat
        /\ \A k \in Items(c) : c[k].id \in A => k[1] \in A
    OBVIOUS
  <2> HIDE DEF parent, id
  <2>6. QED BY ONLY <2>1, <2>2, <2>3, <2>4, <2>5, AcyclicMove
<1>12. TreeOf(d) = Tree!Put(TreeOf(c), id, ItemAt(K, c[key]))
  <2>1. Items(c) \ {key} \subseteq Items(c) /\ K \notin Items(c) \ {key}
    BY <1>8
  <2>2. Given(d) = Given(c) \cup {d[K].id}
    BY <1>10
  <2>3. PICK rest, new : rest = Items(c) \ {key} /\ new = K
    OBVIOUS
  <2>4. /\ Good(c, h, drift) /\ Good(d, h, Drifted(drift, key[1], parent)) /\ rest \subseteq Items(c) /\ new \notin rest
        /\ Items(d) = rest \cup {new}
        /\ \A k \in rest : d[k].id = c[k].id /\ d[k].kind = c[k].kind
        /\ Given(d) = Given(c) \cup {d[new].id}
    BY <1>1, <1>8, <1>9, <2>1, <2>2, <2>3
  <2>5. TreeOf(d) = Tree!Put(TreeOf(c), d[new].id, ItemAt(new, d[new]))
    BY ONLY <2>4, PutTree
  <2>6. QED BY <1>6, <1>10, <2>3, <2>5
<1>13. PICK item : item = [TreeOf(c)[id] EXCEPT !.parent = parent, !.name = name]
  OBVIOUS
<1>14. item = ItemAt(K, c[key]) /\ item.parent = parent /\ item.name = name
  <2>1. PICK old : old = TreeOf(c)[id]
    OBVIOUS
  <2>2. old = [parent |-> key[1], name |-> key[2], kind |-> c[key].kind]
    BY <2>1, TreeFacts DEF ItemAt
  <2>3. item = [parent |-> parent, name |-> name, kind |-> c[key].kind]
    <3> HIDE DEF parent
    <3>1. item = [old EXCEPT !.parent = parent, !.name = name]
      BY <1>13, <2>1
    <3>2. QED BY ONLY <2>2, <3>1
  <2>4. ItemAt(K, c[key]) = [parent |-> parent, name |-> name, kind |-> c[key].kind]
    BY <1>4 DEF ItemAt
  <2>5. QED BY <2>3, <2>4
<1>15. Tree!NameFree(TreeOf(c), id, item)
  <2>1. ThreadKey(id) \in DOMAIN c /\ Place(c, id) = key
    BY <1>3, GoodFacts
  <2>2. <<item.parent, item.name>> \notin DOMAIN c \ {key}
    BY <1>14
  <2>3. QED BY <2>1, <2>2, FreeName
<1>16. Tree!Hangs(TreeOf(d))
  BY <1>1, <1>11, TreeHangs
<1>17. parent \in Tree!Folders(TreeOf(c)) /\ id \in DOMAIN TreeOf(c)
  BY <1>10, FolderFacts, TreeFacts
<1>18. TreeOf(d) = Tree!Put(TreeOf(c), id, item)
  BY <1>12, <1>14
<1>19. QED BY <1>11, <1>13, <1>15, <1>16, <1>17, <1>18 DEF TreeStep

-----------------------------------------------------------------------------
(* The invariant *)

Now == Image(catalog, header, savedHeader)

\* What a call may leave, and what its callers may see of it.
Fit(end) ==
    /\ Good(end.catalog, end.header, renamed) /\ end.saved = end.header /\ Acyclic(end.catalog)
    /\ TreeStep(TreeOf(before.catalog), before.next, TreeOf(end.catalog), end.header.next)

\* The writes left to make lead to such an image.
Promise == \E end : Leads(before.item, todo, Now, end) /\ Fit(end)

\* The records of other items are there, but for one that is about to be added.
Kept ==
    \A k \in DOMAIN before.catalog :
        Owner(k, before.catalog[k]) # before.item =>
            \/ k \in DOMAIN catalog /\ SameItem(catalog[k], before.catalog[k])
            \/ Doing("add") /\ Head(todo).key = k /\ SameItem(Head(todo).rec, before.catalog[k])

Between == todo = <<>> => before.catalog = catalog /\ before.next = header.next
Remembered == before = [catalog |-> before.catalog, next |-> before.next, item |-> before.item]

Inv == broken = FALSE /\ Texts /\ Promise /\ Kept /\ Between /\ Remembered

\* What callers see of a step.
Seen == TreeStep(TreeOf(before.catalog), before.next, TreeOf(before'.catalog), before'.next)

\* A step that leaves the tree alone is a step of the tree.
LEMMA NothingSeen ==
  ASSUME NEW t, NEW next
  PROVE  TreeStep(t, next, t, next)
BY DEF TreeStep

\* Between calls the image is whole and saved.
LEMMA WholeBetween ==
  ASSUME Inv, todo = <<>>
  PROVE  Good(catalog, header, renamed) /\ savedHeader = header /\ Acyclic(catalog)
<1>1. PICK end : Leads(before.item, todo, Now, end) /\ Fit(end)
  BY DEF Inv, Promise
<1>2. Leads(before.item, <<>>, Now, end)
  BY <1>1
<1>3. end = Now
  <2> DEFINE item == before.item
             now == Now
  <2>1. Leads(item, <<>>, now, end)
    BY <1>2
  <2> HIDE DEF item, now
  <2>2. end = now
    BY <2>1, LeadsEmpty
  <2>3. QED BY <2>2 DEF now
<1>4. QED BY <1>1, <1>3 DEF Now, Image, Fit

\* The image that a new volume has.
LEMMA InitInv == Init => Inv
<1> SUFFICES ASSUME Init PROVE Inv
  OBVIOUS
<1> DEFINE T == ThreadKey(Root)
<1>1. RootKey \in Keys /\ T \in Keys /\ RootKey[2] # NoName /\ T[2] = NoName /\ T # RootKey
      /\ RootKey = <<RootParent, VolumeName>> /\ T[1] = Root /\ Root \in Nat /\ Root = 2 /\ FirstID = 3
  BY DEF RootKey, ThreadKey, Keys, RootParent, Root, FirstID
<1>2. /\ DOMAIN catalog = {RootKey, T} /\ catalog[RootKey] = Folder(Root)
      /\ catalog[T] = Thread(RootParent, VolumeName) /\ catalog = [k \in DOMAIN catalog |-> catalog[k]]
  BY <1>1 DEF Init
<1>3. Folder(Root) \in FolderRecs /\ Thread(RootParent, VolumeName) \in ThreadRecs
  BY DEF Folder, FolderRecs, Thread, ThreadRecs, Root, RootParent
<1>4. Folder(Root).kind = "folder" /\ Folder(Root).id = Root /\ Folder(Root).valence = 0
  BY DEF Folder
<1>5. Place(catalog, Root) = RootKey
  BY <1>1, <1>2 DEF Place, Thread
<1> HIDE DEF T
<1>6. ItemKeys(catalog) = {RootKey} /\ Items(catalog) = {}
  BY <1>1, <1>2 DEF ItemKeys, Items
<1>7. header = [next |-> FirstID, files |-> 0, folders |-> 0] /\ MaxID \in Nat
  BY DEF Init
<1>8. Typed(catalog, header)
  <2>1. IsFiniteSet({RootKey, T})
    <3>1. IsFiniteSet({} \cup {RootKey})
      BY FS_EmptySet, FS_AddElement
    <3>2. IsFiniteSet(({} \cup {RootKey}) \cup {T})
      BY <3>1, FS_AddElement
    <3>3. ({} \cup {RootKey}) \cup {T} = {RootKey, T}
      OBVIOUS
    <3>4. QED BY <3>2, <3>3
  <2>2. header \in [next : {FirstID} \cup (FirstID .. MaxID + 1), files : Nat, folders : Nat]
    BY <1>7 DEF FirstID
  <2>3. \A k \in DOMAIN catalog :
          IF k[2] = NoName THEN catalog[k] \in ThreadRecs ELSE catalog[k] \in FolderRecs \cup FileRecs
    BY <1>1, <1>2, <1>3
  <2>4. QED BY <1>1, <1>2, <2>1, <2>2, <2>3 DEF Typed
<1>9. Rooted(catalog) /\ Filed(catalog, header)
  BY <1>2, <1>4, <1>6 DEF Rooted, Filed
<1>10. Linked(catalog)
  BY <1>1, <1>2, <1>4, <1>5, <1>6 DEF Linked, T
<1>11. Valences(catalog, renamed) /\ Counts(catalog, header) /\ Fresh(header, renamed)
  <2>1. Children(catalog, Root) = {} /\ Kind(catalog, "file") = {} /\ Kind(catalog, "folder") = {}
    BY <1>6 DEF Children, Kind
  <2>2. renamed = [i \in {Root} \cup Ids |-> 0]
    BY DEF Init
  <2>3. Fresh(header, renamed) /\ renamed[Root] = 0
    BY <2>2 DEF Fresh
  <2>4. Cardinality({}) = 0
    BY FS_EmptySet
  <2>5. Counts(catalog, header)
    BY ONLY <1>7, <2>1, <2>4 DEF Counts
  <2>6. catalog[RootKey].id = Root /\ catalog[RootKey].valence = 0
    BY <1>2, <1>4
  <2>7. Valences(catalog, renamed)
    BY ONLY <1>6, <2>1, <2>3, <2>4, <2>6 DEF Valences
  <2>8. QED BY <2>3, <2>5, <2>7
<1>12. Good(catalog, header, renamed)
  BY <1>8, <1>9, <1>10, <1>11 DEF Good
<1>13. todo = <<>> /\ savedHeader = header /\ text = [i \in Ids |-> <<>>]
       /\ before = [catalog |-> catalog, next |-> FirstID, item |-> 0]
  BY DEF Init
<1>14. Promise
  <2> DEFINE item == before.item
             now == Now
  <2>1. Leads(item, <<>>, now, now)
    BY LeadsNothing
  <2>2. Good(now.catalog, now.header, renamed) /\ now.saved = now.header
        /\ now.catalog = before.catalog /\ now.header.next = before.next
    BY <1>7, <1>12, <1>13 DEF Now, Image
  <2> HIDE DEF now
  <2>3. Acyclic(now.catalog)
    <3>1. [n \in Nat |-> 0] \in [Nat -> Nat]
      OBVIOUS
    <3>2. Items(now.catalog) = {}
      BY <1>6, <1>13, <2>2
    <3>3. QED BY <3>1, <3>2 DEF Acyclic
  <2>4. Fit(now)
    BY <2>2, <2>3, NothingSeen DEF Fit
  <2>5. QED BY <1>13, <2>1, <2>4 DEF Promise, now
<1>15. Kept /\ Between /\ Remembered
  BY <1>7, <1>13 DEF Kept, Between, Remembered, SameItem
<1>16. Texts
  <2>1. <<>> \in Seq(Names)
    OBVIOUS
  <2>2. QED BY <1>13, <2>1 DEF Texts
<1>17. broken = FALSE
  BY DEF Init
<1>18. QED BY <1>14, <1>15, <1>16, <1>17 DEF Inv

\* A write is done: the invariant if the rest leads on and others' records are kept.
LEMMA FinishInv ==
  ASSUME NEW rest, NEW item, NEW end, Inv, Finish(rest), item = before.item, Texts',
         Leads(item, rest, Image(catalog', header', savedHeader'), end),
         Fit(end),
         \A k \in DOMAIN before.catalog :
            Owner(k, before.catalog[k]) # item =>
                \/ k \in DOMAIN catalog' /\ SameItem(catalog'[k], before.catalog[k])
                \/ /\ rest # <<>> /\ Head(rest).op = "add" /\ Head(rest).key = k
                   /\ SameItem(Head(rest).rec, before.catalog[k])
  PROVE  Inv' /\ Seen
<1>1. todo' = rest /\ renamed' = renamed /\ broken = FALSE /\ broken' = FALSE
  BY DEF Finish, Inv
<1>2. CASE rest = <<>>
  <2>1. before' = [catalog |-> catalog', next |-> header'.next, item |-> 0]
    BY <1>1, <1>2 DEF Finish
  <2>2. before'.item = 0 /\ before'.catalog = catalog' /\ before'.next = header'.next
    BY <2>1
  <2>3. PICK now : now = Image(catalog', header', savedHeader')
    OBVIOUS
  <2>4. Leads(item, <<>>, now, end)
    BY <1>2, <2>3
  <2>5. end = now /\ Leads(0, <<>>, end, end)
    BY <2>4, LeadsEmpty, LeadsNothing
  <2>6. Promise' /\ Seen
    <3>1. end.catalog = catalog' /\ end.header = header'
      BY <2>3, <2>5 DEF Image
    <3>2. Fit(end)' /\ Seen
      BY <1>1, <2>2, <3>1, NothingSeen DEF Fit, Seen
    <3>3. QED BY <1>1, <1>2, <2>2, <2>3, <2>5, <3>2 DEF Promise, Now
  <2>7. Remembered'
    BY <2>1, <2>2 DEF Remembered
  <2>8. Kept' /\ Between'
    BY <2>2 DEF Kept, Between, SameItem
  <2>9. QED BY <1>1, <2>6, <2>7, <2>8 DEF Inv
<1>3. CASE rest # <<>>
  <2>1. before' = before
    BY <1>3 DEF Finish
  <2>2. Promise' /\ Seen
    BY <1>1, <2>1, NothingSeen DEF Promise, Now, Fit, Seen
  <2>3. Kept'
    BY <1>1, <1>3, <2>1 DEF Kept, Doing
  <2>4. Between' /\ Remembered'
    BY <1>1, <1>3, <2>1 DEF Inv, Between, Remembered
  <2>5. QED BY <1>1, <2>2, <2>3, <2>4 DEF Inv
<1>4. QED BY <1>2, <1>3

\* What the first write of a promise does.
LEMMA HeadPromise ==
  ASSUME Inv, todo # <<>>
  PROVE  /\ Head(todo) \in Writes
         /\ \E item, mid, end :
               /\ item = before.item
               /\ Effect(item, Head(todo), Now, mid)
               /\ Leads(item, Tail(todo), mid, end)
               /\ Fit(end)
<1>1. PICK end : Leads(before.item, todo, Now, end) /\ Fit(end)
  BY DEF Inv, Promise
<1> DEFINE item == before.item
           s == todo
           now == Now
<1>2. Leads(item, s, now, end) /\ s # <<>>
  BY <1>1
<1> HIDE DEF item, s, now
<1>3. PICK mid : Effect(item, Head(s), now, mid) /\ Leads(item, Tail(s), mid, end)
  BY <1>2, LeadsHead
<1>4. Head(s) \in Writes
  BY <1>2, LeadsHead
<1>5. QED BY <1>1, <1>3, <1>4 DEF item, s, now

\* addToBTree, as the next write of a call, keeps the invariant.
LEMMA AddInv ==
  ASSUME Inv, DoAdd
  PROVE  Inv' /\ Seen
<1>1. todo # <<>> /\ Head(todo).op = "add"
  BY DEF DoAdd, Doing
<1>2. PICK item, mid, end :
         /\ item = before.item
         /\ Effect(item, Head(todo), Now, mid) /\ Leads(item, Tail(todo), mid, end)
         /\ Fit(end)
  BY <1>1, HeadPromise
<1>3. AddTo(Head(todo), Now, mid)
  BY <1>1, <1>2 DEF Effect, AddTo, RemoveFrom, UpdateIn, CountIn, SaveIn
<1>4. Head(todo).key \notin DOMAIN catalog
      /\ mid = Image(With(catalog, Head(todo).key, Head(todo).rec), header, savedHeader)
  BY <1>3 DEF AddTo, Now, Image
<1>5. catalog' = With(catalog, Head(todo).key, Head(todo).rec) /\ UNCHANGED <<text, header, savedHeader>>
      /\ Finish(Tail(todo))
  BY <1>4 DEF DoAdd, With
<1>6. DOMAIN catalog' = DOMAIN catalog \cup {Head(todo).key}
      /\ catalog'[Head(todo).key] = Head(todo).rec /\ \A k \in DOMAIN catalog : catalog'[k] = catalog[k]
  BY <1>4, <1>5 DEF With
<1>7. ASSUME NEW k \in DOMAIN before.catalog, Owner(k, before.catalog[k]) # item
      PROVE  k \in DOMAIN catalog' /\ SameItem(catalog'[k], before.catalog[k])
  <2>1. \/ k \in DOMAIN catalog /\ SameItem(catalog[k], before.catalog[k])
        \/ Head(todo).key = k /\ SameItem(Head(todo).rec, before.catalog[k])
    BY <1>2, <1>7 DEF Inv, Kept
  <2>2. QED BY <1>6, <2>1
<1>8. Texts'
  BY <1>5 DEF Inv, Texts
<1>9. PICK rest : rest = Tail(todo)
  OBVIOUS
<1>10. mid = Image(catalog', header', savedHeader')
  BY <1>4, <1>5
<1>11. QED BY <1>2, <1>5, <1>7, <1>8, <1>9, <1>10, FinishInv

\* So does removeFromBTree.
LEMMA RemoveInv ==
  ASSUME Inv, DoRemove
  PROVE  Inv' /\ Seen
<1>1. todo # <<>> /\ Head(todo).op = "remove"
  BY DEF DoRemove, Doing
<1>2. PICK item, mid, end :
         /\ item = before.item
         /\ Effect(item, Head(todo), Now, mid) /\ Leads(item, Tail(todo), mid, end)
         /\ Fit(end)
  BY <1>1, HeadPromise
<1>3. RemoveFrom(item, Head(todo), Now, mid)
  BY <1>1, <1>2 DEF Effect, AddTo, RemoveFrom, UpdateIn, CountIn, SaveIn
<1>4. Owner(Head(todo).key, catalog[Head(todo).key]) = item
      /\ mid = Image(Without(catalog, Head(todo).key), header, savedHeader)
  BY <1>3 DEF RemoveFrom, Now, Image
<1>5. catalog' = Without(catalog, Head(todo).key) /\ UNCHANGED <<text, header, savedHeader>>
      /\ Finish(Tail(todo))
  BY DEF DoRemove, Without
<1>6. DOMAIN catalog' = DOMAIN catalog \ {Head(todo).key} /\ \A k \in DOMAIN catalog' : catalog'[k] = catalog[k]
  BY <1>5 DEF Without, Restrict
<1>7. ASSUME NEW k \in DOMAIN before.catalog, Owner(k, before.catalog[k]) # item
      PROVE  k \in DOMAIN catalog' /\ SameItem(catalog'[k], before.catalog[k])
  <2>1. k \in DOMAIN catalog /\ SameItem(catalog[k], before.catalog[k])
    BY <1>1, <1>2, <1>7 DEF Inv, Kept, Doing
  <2>2. k # Head(todo).key
    BY <1>4, <1>7, <2>1 DEF Owner, SameItem
  <2>3. QED BY <1>6, <2>1, <2>2
<1>8. Texts'
  BY <1>5 DEF Inv, Texts
<1>9. PICK rest : rest = Tail(todo)
  OBVIOUS
<1>10. mid = Image(catalog', header', savedHeader')
  BY <1>4, <1>5
<1>11. QED BY <1>2, <1>5, <1>7, <1>8, <1>9, <1>10, FinishInv

\* The record that updateCatalog has removed is the next to be added.
LEMMA UpdateInv ==
  ASSUME Inv, DoUpdate
  PROVE  Inv' /\ Seen
<1>1. todo # <<>> /\ Head(todo).op = "update"
  BY DEF DoUpdate, Doing
<1>2. PICK item, mid, end :
         /\ item = before.item
         /\ Effect(item, Head(todo), Now, mid) /\ Leads(item, Tail(todo), mid, end)
         /\ Fit(end)
  BY <1>1, HeadPromise
<1>3. UpdateIn(Head(todo), Now, mid)
  BY <1>1, <1>2 DEF Effect, AddTo, RemoveFrom, UpdateIn, CountIn, SaveIn
<1>4. PICK rec, key, c, h, s, rest :
         /\ rec = Head(todo).rec /\ key = KeyOf(rec.id) /\ c = catalog /\ h = header /\ s = savedHeader
         /\ rest = Tail(todo)
  OBVIOUS
<1>5. key = Place(c, rec.id)
  BY <1>4 DEF KeyOf, Place
<1>6. /\ ThreadKey(rec.id) \in DOMAIN c /\ key \in DOMAIN c /\ key \in Keys
      /\ SameItem(rec, c[key]) /\ mid = Image(With(c, key, rec), h, s)
  BY <1>3, <1>4, <1>5 DEF UpdateIn, Now, Image
<1>7. catalog' = Without(c, key) /\ UNCHANGED <<text, header, savedHeader>>
      /\ Finish(<<AddRecord(key, rec)>> \o rest)
  BY <1>4 DEF DoUpdate, Without, AddedBack
<1>8. rec \in Recs
  <2>1. Head(todo) \in Writes
    BY <1>1, HeadPromise
  <2>2. Head(todo) \in [op : {"update"}, rec : FolderRecs \cup FileRecs]
    BY <1>1, <2>1 DEF Writes
  <2>3. QED BY <1>4, <2>2 DEF Recs
<1>9. DOMAIN Without(c, key) = DOMAIN c \ {key} /\ \A k \in DOMAIN c \ {key} : Without(c, key)[k] = c[k]
  BY DEF Without, Restrict
<1>10. With(Without(c, key), key, rec) = With(c, key, rec)
  <2>1. (DOMAIN c \ {key}) \cup {key} = DOMAIN c \cup {key}
    BY <1>6
  <2>2. QED BY <1>9, <2>1 DEF With
<1>11. Leads(item, <<AddRecord(key, rec)>> \o rest, Image(Without(c, key), h, s), end)
  <2>1. Effect(item, AddRecord(key, rec), Image(Without(c, key), h, s),
               Image(With(Without(c, key), key, rec), h, s))
    BY <1>6, <1>8, <1>9, AddEffect
  <2>2. Effect(item, AddRecord(key, rec), Image(Without(c, key), h, s), mid)
    BY <1>6, <1>10, <2>1
  <2>3. Leads(item, <<AddRecord(key, rec)>>, Image(Without(c, key), h, s), mid)
    BY <2>2, LeadsOne
  <2>4. Leads(item, rest, mid, end)
    BY <1>2, <1>4
  <2>5. QED BY ONLY <2>3, <2>4, LeadsThen
<1>12. PICK all : all = <<AddRecord(key, rec)>> \o rest
  OBVIOUS
<1>13. all # <<>> /\ Head(all) = AddRecord(key, rec)
  <2>1. rest \in Seq(Writes)
    BY <1>2, <1>4 DEF Leads
  <2>2. QED BY <1>12, <2>1
<1>14. ASSUME NEW k \in DOMAIN before.catalog, Owner(k, before.catalog[k]) # item
      PROVE  \/ k \in DOMAIN catalog' /\ SameItem(catalog'[k], before.catalog[k])
             \/ /\ all # <<>> /\ Head(all).op = "add" /\ Head(all).key = k
                /\ SameItem(Head(all).rec, before.catalog[k])
  <2>1. k \in DOMAIN c /\ SameItem(c[k], before.catalog[k])
    BY <1>1, <1>2, <1>4, <1>14 DEF Inv, Kept, Doing
  <2>2. CASE k = key
    <3>1. SameItem(rec, before.catalog[k])
      BY <1>6, <2>1, <2>2 DEF SameItem
    <3>2. Head(all).op = "add" /\ Head(all).key = key /\ Head(all).rec = rec
      BY <1>13 DEF AddRecord
    <3>3. QED BY <1>13, <2>2, <3>1, <3>2
  <2>3. CASE k # key
    BY <1>7, <1>9, <2>1, <2>3
  <2>4. QED BY <2>2, <2>3
<1>15. Texts'
  BY <1>7 DEF Inv, Texts
<1>16. Leads(item, all, Image(catalog', header', savedHeader'), end) /\ Finish(all)
  BY <1>4, <1>7, <1>11, <1>12
<1>17. QED BY <1>2, <1>14, <1>15, <1>16, FinishInv

\* So do the writes of a link's text, of the counts in memory and of the header.
LEMMA OtherWritesInv ==
  ASSUME Inv, DoText \/ DoCount \/ DoSave
  PROVE  Inv' /\ Seen
<1>1. todo # <<>> /\ Head(todo).op \in {"text", "count", "save"}
  BY DEF DoText, DoCount, DoSave, Doing
<1>2. PICK item, mid, end :
         /\ item = before.item
         /\ Effect(item, Head(todo), Now, mid) /\ Leads(item, Tail(todo), mid, end)
         /\ Fit(end)
  BY <1>1, HeadPromise
<1>3. Head(todo) \in Writes
  BY <1>1, HeadPromise
<1>4. PICK rest : rest = Tail(todo)
  OBVIOUS
<1>5. UNCHANGED catalog /\ Finish(rest)
  BY <1>4 DEF DoText, DoCount, DoSave
<1>6. mid = Image(catalog', header', savedHeader') /\ Texts'
  <2>1. CASE DoText
    <3>1. Head(todo).op = "text" /\ UNCHANGED <<catalog, header, savedHeader>>
          /\ text' = [text EXCEPT ![Head(todo).id] = Head(todo).text]
      BY <2>1 DEF DoText, Doing
    <3>2. mid = Now
      BY <1>2, <3>1 DEF Effect, AddTo, RemoveFrom, UpdateIn, CountIn, SaveIn
    <3>3. Head(todo) \in [op : {"text"}, id : Ids, text : Seq(Names)]
      BY <1>3, <3>1 DEF Writes
    <3>4. Head(todo).text \in Seq(Names)
      BY <3>3
    <3>5. Texts'
      BY <3>1, <3>4 DEF Inv, Texts
    <3>6. QED BY <3>1, <3>2, <3>5 DEF Now
  <2>2. CASE DoCount
    <3>1. Head(todo).op = "count" /\ UNCHANGED <<catalog, text, savedHeader>>
          /\ header' = IF Head(todo).kind = "folder" THEN [header EXCEPT !.folders = header.folders - 1]
                       ELSE [header EXCEPT !.files = header.files - 1]
      BY <2>2 DEF DoCount, Doing
    <3>2. CountIn(Head(todo), Now, mid)
      BY <1>2, <3>1 DEF Effect, AddTo, RemoveFrom, UpdateIn, CountIn, SaveIn
    <3>3. mid = Image(catalog', header', savedHeader')
      BY <3>1, <3>2 DEF CountIn, Now, Image
    <3>4. QED BY <3>1, <3>3 DEF Inv, Texts
  <2>3. CASE DoSave
    <3>1. Head(todo).op = "save" /\ UNCHANGED <<catalog, text, header>> /\ savedHeader' = header
      BY <2>3 DEF DoSave, Doing
    <3>2. SaveIn(Head(todo), Now, mid)
      BY <1>2, <3>1 DEF Effect, AddTo, RemoveFrom, UpdateIn, CountIn, SaveIn
    <3>3. mid = Image(catalog', header', savedHeader')
      BY <3>1, <3>2 DEF SaveIn, Now, Image
    <3>4. QED BY <3>1, <3>3 DEF Inv, Texts
  <2>4. QED BY <2>1, <2>2, <2>3
<1>7. \A k \in DOMAIN before.catalog :
         Owner(k, before.catalog[k]) # item =>
             k \in DOMAIN catalog' /\ SameItem(catalog'[k], before.catalog[k])
  BY <1>1, <1>2, <1>5 DEF Inv, Kept, Doing
<1>8. QED BY <1>2, <1>4, <1>5, <1>6, <1>7, FinishInv

-----------------------------------------------------------------------------
(* The calls *)

\* A call that makes some writes and then others makes some.
LEMMA SomeWrites ==
  ASSUME NEW s \in Seq(Writes), NEW t \in Seq(Writes), s # <<>>
  PROVE  s \o t # <<>>
<1>1. Len(s) \in Nat /\ Len(t) \in Nat /\ Len(s) > 0 /\ Len(s \o t) = Len(s) + Len(t)
  OBVIOUS
<1>2. Len(s \o t) # 0
  BY <1>1
<1>3. QED BY <1>2

\* A call has begun: the invariant if its writes lead to a whole image.
LEMMA BeginMovedInv ==
  ASSUME NEW item, NEW writes, NEW end, broken' = FALSE, Inv, todo = <<>>, Begin(item, writes),
         Leads(item, writes, Image(catalog, header', savedHeader), end),
         Good(end.catalog, end.header, renamed'), end.saved = end.header, Acyclic(end.catalog),
         TreeStep(TreeOf(catalog), header.next, TreeOf(end.catalog), end.header.next),
         header'.next = header.next \/ writes # <<>>
  PROVE  Inv' /\ Seen
<1>1. todo' = writes /\ UNCHANGED <<catalog, text, savedHeader>>
      /\ before' = [before EXCEPT !.item = item]
  BY DEF Begin
<1>2. before' = [catalog |-> before.catalog, next |-> before.next, item |-> item]
  BY <1>1 DEF Inv, Remembered
<1>3. before'.item = item /\ before'.catalog = before.catalog /\ before'.next = before.next
  BY <1>2
<1>4. before.catalog = catalog /\ before.next = header.next
  BY DEF Inv, Between
<1>5. Promise'
  <2>1. Fit(end)'
    BY <1>3, <1>4 DEF Fit
  <2>2. QED BY <1>1, <1>3, <2>1 DEF Promise, Now
<1>6. Kept' /\ Between' /\ Remembered'
  BY <1>1, <1>2, <1>3, <1>4 DEF Kept, Between, Remembered, SameItem
<1>7. Texts'
  BY <1>1 DEF Inv, Texts
<1>8. Seen
  BY <1>3, NothingSeen DEF Seen
<1>9. QED BY <1>5, <1>6, <1>7, <1>8 DEF Inv

LEMMA BeginInv ==
  ASSUME NEW item, NEW writes, NEW end, UNCHANGED renamed, broken' = FALSE, Inv, todo = <<>>, Begin(item, writes),
         Leads(item, writes, Image(catalog, header', savedHeader), end),
         Good(end.catalog, end.header, renamed), end.saved = end.header, Acyclic(end.catalog),
         TreeStep(TreeOf(catalog), header.next, TreeOf(end.catalog), end.header.next),
         header'.next = header.next \/ writes # <<>>
  PROVE  Inv' /\ Seen
BY BeginMovedInv

\* What the calls that make an item find.
LEMMA CreateFacts ==
  ASSUME Inv, NEW path \in NamePaths, CanCreate(path)
  PROVE  /\ todo = <<>> /\ Good(catalog, header, renamed) /\ savedHeader = header /\ Acyclic(catalog)
         /\ header.next \in Ids
         /\ ParentKey(path) \in ItemKeys(catalog) /\ catalog[ParentKey(path)].kind = "folder"
         /\ Last(path) \in Names
         /\ header = [next |-> header.next, files |-> header.files, folders |-> header.folders]
         /\ Folder(header.next) \in FolderRecs /\ File(header.next) \in FileRecs
<1>1. todo = <<>> /\ header.next \in Ids /\ IsFolder(ParentKey(path))
  BY DEF CanCreate, Ready
<1>2. Good(catalog, header, renamed) /\ savedHeader = header /\ Acyclic(catalog)
  BY <1>1, WholeBetween
<1>3. Front(path) \in Seq(Names) /\ Last(path) \in Names
  BY PathFacts
<1>4. ParentKey(path) \in ItemKeys(catalog)
  <2>1. Found(Lookup(Front(path), TRUE))
    BY <1>1 DEF ParentKey, IsFolder
  <2>2. Texts
    BY DEF Inv
  <2>3. Lookup(Front(path), TRUE) \in ItemKeys(catalog)
    BY <1>2, <1>3, <2>1, <2>2, LookupFacts
  <2>4. QED BY <2>3 DEF ParentKey
<1>5. catalog[ParentKey(path)].kind = "folder"
  BY <1>1 DEF IsFolder
<1>6. header = [next |-> header.next, files |-> header.files, folders |-> header.folders]
  BY <1>2 DEF Good, Typed
<1>7. Folder(header.next) \in FolderRecs /\ File(header.next) \in FileRecs
  BY <1>1 DEF Folder, File, FolderRecs, FileRecs, Ids, FirstID
<1>8. QED BY <1>1, <1>2, <1>3, <1>4, <1>5, <1>6, <1>7

\* Where the writes of the calls that make an item lead.
LEMMA CreatePromise ==
  ASSUME Inv, NEW path \in NamePaths, CanCreate(path), KeyAt(path) \notin DOMAIN catalog,
         NEW rec, rec \in {Folder(header.next), File(header.next)}
  PROVE  \E d : /\ Good(d, Counted(header, rec.kind), renamed) /\ Acyclic(d)
                /\ TreeStep(TreeOf(catalog), header.next, TreeOf(d), header.next + 1)
                /\ CreateWrites(path, rec) # <<>>
                /\ \A s : Leads(header.next, CreateWrites(path, rec),
                            Image(catalog, Counted(header, rec.kind), s),
                            Image(d, Counted(header, rec.kind), Counted(header, rec.kind)))
                /\ KeyAt(path) \in ItemKeys(d) /\ d[KeyAt(path)] = rec
<1> DEFINE at == ParentKey(path)
           name == Last(path)
           c == catalog
           h == header
           K == <<c[at].id, name>>
           h2 == Counted(h, rec.kind)
           d == With(With(With(c, K, rec), ThreadKey(h.next), Thread(c[at].id, name)), at, More(c[at]))
<1>1. /\ Good(c, h, renamed) /\ Acyclic(c) /\ h.next \in Ids /\ at \in ItemKeys(c) /\ c[at].kind = "folder" /\ name \in Names
      /\ Folder(h.next) \in FolderRecs /\ File(h.next) \in FileRecs
  BY CreateFacts
<1>2. K \notin DOMAIN c
  BY DEF KeyAt
<1>3. rec \in FolderRecs \cup FileRecs /\ rec.id = h.next /\ (rec.kind = "folder" => rec.valence = 0)
  <2>1. CASE rec = Folder(h.next)
    <3>1. rec.id = h.next /\ rec.valence = 0
      BY <2>1 DEF Folder
    <3>2. QED BY <1>1, <2>1, <3>1
  <2>2. CASE rec = File(h.next)
    <3>1. rec.id = h.next /\ rec.kind = "file"
      BY <2>2 DEF File
    <3>2. QED BY <1>1, <2>2, <3>1
  <2>3. QED BY <2>1, <2>2
<1>4. \A t : Leads(h.next, CreateWrites(path, rec), Image(c, h2, t), Image(d, h2, h2))
  <2> SUFFICES ASSUME NEW t PROVE Leads(h.next, CreateWrites(path, rec), Image(c, h2, t), Image(d, h2, h2))
    OBVIOUS
  <2>1. CreateWrites(path, rec) =
          <<AddRecord(K, rec), AddRecord(ThreadKey(h.next), Thread(c[at].id, name)),
            UpdateCatalog(More(c[at])), UpdateVolume>>
    BY <1>3 DEF CreateWrites, KeyAt
  <2>2. Leads(h.next,
          <<AddRecord(K, rec), AddRecord(ThreadKey(h.next), Thread(c[at].id, name)),
            UpdateCatalog(More(c[at])), UpdateVolume>>, Image(c, h2, t), Image(d, h2, h2))
    <3> HIDE DEF c, h, at, name, h2
    <3> QED BY <1>1, <1>2, <1>3, CreateLeads
  <2>3. QED BY <2>1, <2>2
<1>5. Good(d, h2, renamed)
  <2> HIDE DEF c, h, at, name
  <2> QED BY <1>1, <1>2, <1>3, GoodAdd
<1>6. K \in ItemKeys(d) /\ d[K] = rec
  <2>1. K \in DOMAIN d
    BY DEF With
  <2>2. K[2] = name
    OBVIOUS
  <2>3. K # ThreadKey(h.next)
    BY <1>1, <2>2 DEF ThreadKey
  <2>4. K # at
    BY <1>1, <1>2 DEF ItemKeys
  <2>5. d[K] = rec
    BY <2>3, <2>4 DEF With
  <2>6. QED BY <1>1, <2>1, <2>2, <2>5 DEF ItemKeys
<1>7. Acyclic(d) /\ TreeStep(TreeOf(c), h.next, TreeOf(d), h.next + 1)
  <2> HIDE DEF c, h, at, name
  <2> QED BY <1>1, <1>2, <1>3, CreateTree
<1>8. CreateWrites(path, rec) # <<>>
  BY DEF CreateWrites
<1> HIDE DEF d
<1>9. QED BY <1>4, <1>5, <1>6, <1>7, <1>8 DEF KeyAt

\* newFolder leads to an image that has one folder more.
LEMMA NewFolderInv ==
  ASSUME ~broken', Inv, NEW path \in NamePaths, NewFolder(path)
  PROVE  Inv' /\ Seen
<1> DEFINE rec == Folder(header.next)
<1>1. CanCreate(path) /\ ~Taken(path) /\ UNCHANGED renamed /\ Begin(header.next, CreateWrites(path, rec))
      /\ broken' = FALSE
      /\ header' = [header EXCEPT !.next = header.next + 1, !.folders = header.folders + 1]
  BY DEF NewFolder
<1>2. KeyAt(path) \notin DOMAIN catalog
  BY <1>1 DEF Taken
<1>3. rec.kind = "folder"
  BY DEF Folder
<1>4. header' = Counted(header, "folder")
  BY <1>1, CreateFacts DEF Counted
<1>5. PICK d : /\ Good(d, Counted(header, rec.kind), renamed) /\ Acyclic(d)
               /\ TreeStep(TreeOf(catalog), header.next, TreeOf(d), header.next + 1)
               /\ CreateWrites(path, rec) # <<>>
               /\ \A s : Leads(header.next, CreateWrites(path, rec),
                            Image(catalog, Counted(header, rec.kind), s),
                            Image(d, Counted(header, rec.kind), Counted(header, rec.kind)))
  BY <1>1, <1>2, CreatePromise
<1>6. PICK item, writes, end : item = header.next /\ writes = CreateWrites(path, rec) /\ end = Image(d, header', header')
  OBVIOUS
<1>7. Leads(item, writes, Image(catalog, header', savedHeader), end)
  BY <1>3, <1>4, <1>5, <1>6
<1>8. Good(end.catalog, end.header, renamed) /\ end.saved = end.header /\ Acyclic(end.catalog)
  BY <1>3, <1>4, <1>5, <1>6 DEF Image
<1>9. todo = <<>>
  BY <1>1 DEF CanCreate, Ready
<1>10. TreeStep(TreeOf(catalog), header.next, TreeOf(end.catalog), end.header.next) /\ writes # <<>>
  <2>1. end.catalog = d /\ end.header.next = header.next + 1
    BY <1>4, <1>6 DEF Image, Counted
  <2>2. QED BY <1>5, <1>6, <2>1
<1>11. QED BY <1>1, <1>6, <1>7, <1>8, <1>9, <1>10, BeginInv

\* newFile and the allocate() behind it lead to an image that has one file more.
LEMMA NewFileInv ==
  ASSUME ~broken', Inv, NEW path \in NamePaths, NewFile(path)
  PROVE  Inv' /\ Seen
<1> DEFINE rec == File(header.next)
<1>1. CanCreate(path) /\ ~Taken(path) /\ UNCHANGED renamed /\ broken' = FALSE
      /\ header' = [header EXCEPT !.next = header.next + 1, !.files = header.files + 1]
  BY DEF NewFile
<1>2. KeyAt(path) \notin DOMAIN catalog
  BY <1>1 DEF Taken
<1>3. rec.kind = "file" /\ rec.id = header.next
  BY DEF File
<1>4. Begin(header.next, CreateWrites(path, rec) \o Resize(rec))
  BY <1>2, <1>3 DEF NewFile, Taken
<1>5. header' = Counted(header, "file")
  BY <1>1, CreateFacts DEF Counted
<1>6. PICK d : /\ Good(d, Counted(header, rec.kind), renamed) /\ Acyclic(d)
               /\ TreeStep(TreeOf(catalog), header.next, TreeOf(d), header.next + 1)
               /\ CreateWrites(path, rec) # <<>>
               /\ \A s : Leads(header.next, CreateWrites(path, rec),
                            Image(catalog, Counted(header, rec.kind), s),
                            Image(d, Counted(header, rec.kind), Counted(header, rec.kind)))
               /\ KeyAt(path) \in ItemKeys(d) /\ d[KeyAt(path)] = rec
  BY <1>1, <1>2, CreatePromise
<1>7. PICK item, one, two, now, key, s :
         /\ item = header.next /\ one = CreateWrites(path, rec) /\ two = Resize(rec) /\ now = header'
         /\ key = KeyAt(path) /\ s = savedHeader
  OBVIOUS
<1>8. Good(d, now, renamed) /\ key \in ItemKeys(d) /\ d[key] = rec /\ Leads(item, one, Image(catalog, now, s), Image(d, now, now))
  BY <1>3, <1>5, <1>6, <1>7
<1>9. Leads(item, Resize(d[key]), Image(d, now, now), Image(d, now, now))
  BY <1>8, ResizeLeads
<1>10. Leads(item, two, Image(d, now, now), Image(d, now, now))
  BY <1>7, <1>8, <1>9
<1>11. Leads(item, one \o two, Image(catalog, now, s), Image(d, now, now))
  BY ONLY <1>8, <1>10, LeadsThen
<1>12. PICK writes, end : writes = one \o two /\ end = Image(d, now, now)
  OBVIOUS
<1>13. Leads(item, writes, Image(catalog, header', savedHeader), end) /\ Begin(item, writes)
  BY <1>4, <1>7, <1>11, <1>12
<1>14. Good(end.catalog, end.header, renamed) /\ end.saved = end.header /\ Acyclic(end.catalog)
  BY <1>6, <1>8, <1>12 DEF Image
<1>15. todo = <<>>
  BY <1>1 DEF CanCreate, Ready
<1>16. TreeStep(TreeOf(catalog), header.next, TreeOf(end.catalog), end.header.next) /\ writes # <<>>
  <2>1. end.catalog = d /\ end.header.next = header.next + 1
    BY <1>5, <1>7, <1>12 DEF Image, Counted
  <2>2. one \in Seq(Writes) /\ two \in Seq(Writes) /\ one # <<>>
    BY <1>6, <1>7, <1>8, <1>10 DEF Leads
  <2>3. QED BY <1>6, <1>12, <2>1, <2>2, SomeWrites
<1>17. QED BY <1>1, <1>13, <1>14, <1>15, <1>16, BeginInv

\* add_hfs of a file that is there leads back to the same records.
LEMMA OverwriteFileInv ==
  ASSUME Inv, NEW path \in NamePaths, OverwriteFile(path)
  PROVE  Inv' /\ Seen
<1>1. /\ todo = <<>> /\ Found(Lookup(path, TRUE)) /\ UNCHANGED <<header, renamed>> /\ broken' = FALSE
      /\ Begin(catalog[Lookup(path, TRUE)].id, Resize(catalog[Lookup(path, TRUE)]))
  BY DEF OverwriteFile, Ready, Inv
<1>2. Good(catalog, header, renamed) /\ savedHeader = header /\ Acyclic(catalog)
  BY <1>1, WholeBetween
<1>3. PICK key, c, h : key = Lookup(path, TRUE) /\ c = catalog /\ h = header
  OBVIOUS
<1>4. key \in ItemKeys(c)
  BY <1>1, <1>2, <1>3, PathFacts, LookupFacts DEF Inv
<1>5. PICK item, writes, end : item = c[key].id /\ writes = Resize(c[key]) /\ end = Image(c, h, h)
  OBVIOUS
<1>6. Good(c, h, renamed)
  BY <1>2, <1>3
<1>7. Leads(item, Resize(c[key]), Image(c, h, h), Image(c, h, h))
  BY <1>4, <1>6, ResizeLeads
<1>8. Leads(item, writes, Image(catalog, header', savedHeader), end) /\ Begin(item, writes)
  BY <1>1, <1>2, <1>3, <1>5, <1>7
<1>9. Good(end.catalog, end.header, renamed) /\ end.saved = end.header /\ Acyclic(end.catalog)
      /\ TreeStep(TreeOf(catalog), header.next, TreeOf(end.catalog), end.header.next)
  BY <1>2, <1>3, <1>5, <1>6, NothingSeen DEF Image
<1>10. QED BY <1>1, <1>8, <1>9, BeginInv

\* The record that makeSymlink makes of the file it has added.
LEMMA LinkFile ==
  ASSUME NEW id, NEW link \in BOOLEAN
  PROVE  [File(id) EXCEPT !.link = link] = [kind |-> "file", id |-> id, link |-> link]
BY DEF File

\* newFile and the record once more with its type, then the text.
LEMMA MakeSymlinkInv ==
  ASSUME Inv, NEW path \in NamePaths, NEW t \in Seq(Names), MakeSymlink(path, t)
  PROVE  Inv' /\ Seen
<1> DEFINE file == File(header.next)
           rec == [file EXCEPT !.link = TRUE]
<1>1. CanCreate(path) /\ ~Found(Lookup(path, FALSE))
      /\ header' = [header EXCEPT !.next = header.next + 1, !.files = header.files + 1]
      /\ UNCHANGED renamed /\ broken' = FALSE
  BY DEF MakeSymlink, Inv
<1>2. KeyAt(path) \notin DOMAIN catalog
  <2>1. Good(catalog, header, renamed) /\ Texts
    BY <1>1, CreateFacts DEF Inv
  <2>2. Ends(Front(path), TRUE) /\ IsFolder(ParentKey(path))
    BY <1>1 DEF CanCreate
  <2>3. QED BY <1>1, <2>1, <2>2, NothingThere
<1>3. header.next \in Ids /\ header.next \in Nat
  BY <1>1, CreateFacts DEF Ids, FirstID
<1>4. file = [kind |-> "file", id |-> header.next, link |-> FALSE]
      /\ rec = [kind |-> "file", id |-> header.next, link |-> TRUE]
  <2>1. file = [kind |-> "file", id |-> header.next, link |-> FALSE]
    BY DEF File
  <2>2. TRUE \in BOOLEAN
    OBVIOUS
  <2>3. [File(header.next) EXCEPT !.link = TRUE] = [kind |-> "file", id |-> header.next, link |-> TRUE]
    BY ONLY <2>2, LinkFile
  <2>4. QED BY <2>1, <2>3
<1> HIDE DEF rec
<1>5. file.kind = "file" /\ file.id = header.next /\ rec.kind = "file" /\ rec.id = header.next /\ rec \in FileRecs
      /\ file \in {Folder(header.next), File(header.next)}
  BY <1>3, <1>4 DEF FileRecs
<1>6. Begin(header.next, CreateWrites(path, file) \o <<UpdateCatalog(rec)>> \o Resize(rec)
                         \o <<WriteText(header.next, t)>>)
  BY <1>5 DEF MakeSymlink, rec
<1>7. header' = Counted(header, "file")
  BY <1>1, CreateFacts DEF Counted
<1>8. PICK d : /\ Good(d, Counted(header, file.kind), renamed) /\ Acyclic(d)
               /\ TreeStep(TreeOf(catalog), header.next, TreeOf(d), header.next + 1)
               /\ CreateWrites(path, file) # <<>>
               /\ \A s : Leads(header.next, CreateWrites(path, file),
                            Image(catalog, Counted(header, file.kind), s),
                            Image(d, Counted(header, file.kind), Counted(header, file.kind)))
               /\ KeyAt(path) \in ItemKeys(d) /\ d[KeyAt(path)] = file
  <2> HIDE DEF file
  <2> QED BY <1>1, <1>2, <1>5, CreatePromise
<1>9. PICK item, one, two, three, four, now, key, s, new, old :
         /\ item = header.next /\ one = CreateWrites(path, file) /\ two = UpdateCatalog(rec) /\ three = Resize(rec)
         /\ four = WriteText(header.next, t)
         /\ now = header' /\ key = KeyAt(path) /\ s = savedHeader /\ new = rec /\ old = file
  OBVIOUS
<1>10. Good(d, now, renamed) /\ key \in ItemKeys(d) /\ d[key] = old /\ Leads(item, one, Image(catalog, now, s), Image(d, now, now))
  BY <1>5, <1>7, <1>8, <1>9
<1>11. new \in FolderRecs \cup FileRecs /\ SameItem(new, d[key]) /\ (new.kind = "folder" => new.valence = d[key].valence)
  BY <1>5, <1>9, <1>10 DEF SameItem
<1>12. PICK d2 : d2 = With(d, key, new)
  OBVIOUS
<1>13. Good(d2, now, renamed)
  BY <1>10, <1>11, <1>12, GoodChange
<1>14. Effect(item, UpdateCatalog(new), Image(d, now, now), Image(d2, now, now))
  BY <1>10, <1>11, <1>12, RewriteEffect
<1>15. Leads(item, <<two>>, Image(d, now, now), Image(d2, now, now))
  BY <1>9, <1>14, LeadsOne
<1>16. key \in ItemKeys(d2) /\ d2[key] = new
  <2>1. DOMAIN d2 = DOMAIN d \cup {key} /\ d2[key] = new
    BY <1>12 DEF With
  <2>2. QED BY <1>10, <2>1 DEF ItemKeys
<1>17. Leads(item, Resize(d2[key]), Image(d2, now, now), Image(d2, now, now))
  BY <1>13, <1>16, ResizeLeads
<1>18. Leads(item, three, Image(d2, now, now), Image(d2, now, now))
  BY <1>9, <1>16, <1>17
<1>19. Leads(item, <<four>>, Image(d2, now, now), Image(d2, now, now))
  <2>1. t \in Seq(Names)
    OBVIOUS
  <2>2. Effect(item, WriteText(header.next, t), Image(d2, now, now), Image(d2, now, now))
    BY <1>3, <2>1, OtherEffects
  <2>3. QED BY <1>9, <2>2, LeadsOne
<1>20. Leads(item, one \o <<two>>, Image(catalog, now, s), Image(d2, now, now))
  BY ONLY <1>10, <1>15, LeadsThen
<1>21. Leads(item, one \o <<two>> \o three, Image(catalog, now, s), Image(d2, now, now))
  BY ONLY <1>18, <1>20, LeadsThen
<1>22. Leads(item, one \o <<two>> \o three \o <<four>>, Image(catalog, now, s), Image(d2, now, now))
  BY ONLY <1>19, <1>21, LeadsThen
<1>23. PICK writes, end : writes = one \o <<two>> \o three \o <<four>> /\ end = Image(d2, now, now)
  OBVIOUS
<1>24. Leads(item, writes, Image(catalog, header', savedHeader), end) /\ Begin(item, writes)
  BY <1>6, <1>9, <1>22, <1>23
<1>25. todo = <<>>
  BY <1>1 DEF CanCreate, Ready
<1>26. Acyclic(d2) /\ TreeOf(d2) = TreeOf(d)
  <2>1. Items(d2) = Items(d)
    <3>1. DOMAIN d2 = DOMAIN d
      BY <1>10, <1>12 DEF With, ItemKeys
    <3>2. QED BY <3>1 DEF Items, ItemKeys
  <2>2. \A k \in Items(d) : d2[k].id = d[k].id /\ d2[k].kind = d[k].kind
    <3>1. new.id = d[key].id /\ new.kind = d[key].kind
      BY <1>5, <1>9, <1>10
    <3>2. \A k \in Items(d) : k \in DOMAIN d
      BY DEF Items, ItemKeys
    <3>3. QED BY <1>12, <3>1, <3>2 DEF With
  <2>3. Acyclic(d2)
    BY <1>8, <2>1, <2>2, AcyclicFewer
  <2>4. TreeOf(d2) = TreeOf(d)
    BY <1>10, <1>13, <2>1, <2>2, SameTree
  <2>5. QED BY <2>3, <2>4
<1>27. Good(end.catalog, end.header, renamed) /\ end.saved = end.header /\ Acyclic(end.catalog)
  BY <1>13, <1>23, <1>26 DEF Image
<1>28. TreeStep(TreeOf(catalog), header.next, TreeOf(end.catalog), end.header.next)
  <2>1. end.catalog = d2 /\ end.header.next = header.next + 1
    BY <1>7, <1>9, <1>23 DEF Image, Counted
  <2>2. QED BY <1>8, <1>26, <2>1
<1>29. writes # <<>>
  <2>1. /\ one \in Seq(Writes) /\ <<two>> \in Seq(Writes) /\ three \in Seq(Writes) /\ <<four>> \in Seq(Writes)
        /\ one \o <<two>> \in Seq(Writes) /\ one \o <<two>> \o three \in Seq(Writes)
    BY <1>10, <1>15, <1>18, <1>19, <1>20, <1>21 DEF Leads
  <2>2. one # <<>>
    BY <1>8, <1>9
  <2>3. QED BY <1>23, <2>1, <2>2, SomeWrites
<1>30. QED BY <1>1, <1>24, <1>25, <1>27, <1>28, <1>29, BeginInv

\* makeSymlink of a link that is there changes the link's text only.
LEMMA RewriteSymlinkInv ==
  ASSUME Inv, NEW path \in NamePaths, NEW t \in Seq(Names), RewriteSymlink(path, t)
  PROVE  Inv' /\ Seen
<1>1. PICK key, rec, c, h, old, new :
         /\ key = Lookup(path, FALSE) /\ rec = catalog[key] /\ c = catalog /\ h = header /\ old = text[rec.id]
         /\ new = WrittenOver(old, t)
  OBVIOUS
<1>2. /\ todo = <<>> /\ Found(key) /\ rec.kind = "file" /\ UNCHANGED <<header, renamed>> /\ broken' = FALSE
      /\ Begin(rec.id, (IF Len(t) > Len(old) THEN Resize(rec) ELSE <<>>) \o <<WriteText(rec.id, new)>>)
  BY <1>1 DEF RewriteSymlink, Ready, Inv
<1>3. Good(c, h, renamed) /\ Good(catalog, header, renamed) /\ savedHeader = h /\ Texts /\ Acyclic(c)
  BY <1>1, <1>2, WholeBetween DEF Inv
<1>4. key \in ItemKeys(c)
  BY <1>1, <1>2, <1>3, PathFacts, LookupFacts
<1>5. rec.id \in Ids /\ c[key] = rec
  BY <1>1, <1>2, <1>3, <1>4, FileIds
<1>6. new \in Seq(Names)
  <2>1. old \in Seq(Names) /\ t \in Seq(Names)
    BY <1>1, <1>3, <1>5 DEF Texts
  <2>2. Len(old) \in Nat /\ Len(t) + 1 \in Nat /\ Len(t) + 1 >= 1
    BY <2>1
  <2>3. SubSeq(old, Len(t) + 1, Len(old)) \in Seq(Names)
    BY <2>1, <2>2, SubSeqProperties
  <2>4. PICK tail : tail = SubSeq(old, Len(t) + 1, Len(old))
    OBVIOUS
  <2>5. t \o tail \in Seq(Names)
    BY <2>1, <2>3, <2>4
  <2>6. new = t \o tail
    BY <1>1, <2>4 DEF WrittenOver
  <2>7. QED BY <2>5, <2>6
<1>7. PICK item, one, two : item = rec.id /\ one = (IF Len(t) > Len(old) THEN Resize(rec) ELSE <<>>)
                            /\ two = WriteText(rec.id, new)
  OBVIOUS
<1>8. Leads(item, Resize(c[key]), Image(c, h, h), Image(c, h, h))
  BY <1>3, <1>4, ResizeLeads
<1>9. Leads(item, one, Image(c, h, h), Image(c, h, h))
  <2>1. Leads(item, <<>>, Image(c, h, h), Image(c, h, h))
    BY LeadsNothing
  <2>2. QED BY <1>5, <1>7, <1>8, <2>1
<1>10. Leads(item, <<two>>, Image(c, h, h), Image(c, h, h))
  <2>1. Effect(item, WriteText(rec.id, new), Image(c, h, h), Image(c, h, h))
    BY <1>5, <1>6, OtherEffects
  <2>2. QED BY <1>7, <2>1, LeadsOne
<1>11. Leads(item, one \o <<two>>, Image(c, h, h), Image(c, h, h))
  BY ONLY <1>9, <1>10, LeadsThen
<1>12. PICK writes, end : writes = one \o <<two>> /\ end = Image(c, h, h)
  OBVIOUS
<1>13. Leads(item, writes, Image(catalog, header', savedHeader), end) /\ Begin(item, writes)
  BY <1>1, <1>2, <1>3, <1>7, <1>11, <1>12
<1>14. Good(end.catalog, end.header, renamed) /\ end.saved = end.header /\ Acyclic(end.catalog)
       /\ TreeStep(TreeOf(catalog), header.next, TreeOf(end.catalog), end.header.next)
  BY <1>1, <1>3, <1>12, NothingSeen DEF Image
<1>15. QED BY <1>2, <1>13, <1>14, BeginInv

\* chmodFile and chownFile lead back to the same records.
LEMMA SetPermissionsInv ==
  ASSUME Inv, NEW path \in Seq(Names), SetPermissions(path)
  PROVE  Inv' /\ Seen
<1>1. PICK key, rec, c, h : key = Lookup(path, TRUE) /\ rec = catalog[key] /\ c = catalog /\ h = header
  OBVIOUS
<1>2. /\ todo = <<>> /\ Found(key) /\ UNCHANGED <<header, renamed>> /\ broken' = FALSE /\ Begin(rec.id, <<UpdateCatalog(rec)>>)
  BY <1>1 DEF SetPermissions, Ready, Inv
<1>3. Good(c, h, renamed) /\ Good(catalog, header, renamed) /\ savedHeader = h /\ Texts /\ Acyclic(c)
  BY <1>1, <1>2, WholeBetween DEF Inv
<1>4. path \in Seq(Names)
  OBVIOUS
<1>5. key \in ItemKeys(c) /\ c[key] = rec
  BY <1>1, <1>2, <1>3, <1>4, LookupFacts
<1>6. Typed(c, h)
  BY <1>3 DEF Good
<1>7. rec \in FolderRecs \cup FileRecs /\ SameItem(rec, c[key])
  BY <1>5, <1>6, KeyFacts DEF SameItem
<1>8. PICK item : item = rec.id
  OBVIOUS
<1>9. Effect(item, UpdateCatalog(rec), Image(c, h, h), Image(With(c, key, rec), h, h))
  BY <1>3, <1>5, <1>7, RewriteEffect
<1>10. With(c, key, c[key]) = c
  BY <1>5, <1>6, SameAgain
<1>11. Leads(item, <<UpdateCatalog(rec)>>, Image(c, h, h), Image(c, h, h))
  BY <1>5, <1>9, <1>10, LeadsOne
<1>12. PICK writes, end : writes = <<UpdateCatalog(rec)>> /\ end = Image(c, h, h)
  OBVIOUS
<1>13. Leads(item, writes, Image(catalog, header', savedHeader), end) /\ Begin(item, writes)
  BY <1>1, <1>2, <1>3, <1>8, <1>11, <1>12
<1>14. Good(end.catalog, end.header, renamed) /\ end.saved = end.header /\ Acyclic(end.catalog)
       /\ TreeStep(TreeOf(catalog), header.next, TreeOf(end.catalog), end.header.next)
  BY <1>1, <1>3, <1>12, NothingSeen DEF Image
<1>15. QED BY <1>2, <1>13, <1>14, BeginInv

\* removeFile leads to an image that has one item less, unless it is a folder with
\* items in it.
LEMMA RemoveFileInv ==
  ASSUME Inv, NEW path \in NamePaths, RemoveFile(path)
  PROVE  Inv' /\ Seen
<1>1. PICK key, rec, c, h, at :
         key = Lookup(path, FALSE) /\ rec = catalog[key] /\ c = catalog /\ h = header /\ at = Place(c, key[1])
  OBVIOUS
<1>2. RecordByCNID(key[1]) = c[at]
  BY <1>1 DEF RecordByCNID, KeyOf, Place
<1>3. /\ todo = <<>> /\ Found(key) /\ Ends(path, FALSE) /\ UNCHANGED <<header, renamed>> /\ ~NotEmpty(rec)
      /\ broken' = FALSE
      /\ Begin(rec.id, RemoveRecord(key, rec) \o LeaveParent(rec.kind, c[at]))
  BY <1>1, <1>2 DEF RemoveFile, Ready, Inv, Removed
<1>4. Good(c, h, renamed) /\ Good(catalog, header, renamed) /\ savedHeader = h /\ Texts /\ Acyclic(c)
  BY <1>1, <1>3, WholeBetween DEF Inv
<1>5. key \in Items(c) /\ c[key] = rec
  BY <1>1, <1>3, <1>4, PathFacts, LookupItem
<1>6. PICK h2, d : /\ h2 = [next |-> h.next,
                            files |-> IF rec.kind = "folder" THEN h.files ELSE h.files - 1,
                            folders |-> IF rec.kind = "folder" THEN h.folders - 1 ELSE h.folders]
                   /\ d = With(Without(Without(c, key), ThreadKey(rec.id)), at, Less(c[at]))
  OBVIOUS
<1>7. Good(d, h2, renamed)
  <2>1. ~NotEmpty(c[key]) /\ d = With(Without(Without(c, key), ThreadKey(c[key].id)), at, Less(c[at]))
    BY <1>3, <1>5, <1>6
  <2>2. Good(d, [next |-> h.next,
                 files |-> IF c[key].kind = "folder" THEN h.files ELSE h.files - 1,
                 folders |-> IF c[key].kind = "folder" THEN h.folders - 1 ELSE h.folders], renamed)
    BY <1>1, <1>4, <1>5, <2>1, GoodRemove
  <2>3. QED BY <1>5, <1>6, <2>2
<1>8. Leads(rec.id, RemoveRecord(key, rec) \o LeaveParent(rec.kind, c[at]), Image(c, h, h), Image(d, h2, h2))
  <2>1. LET n == [next |-> h.next,
                  files |-> IF c[key].kind = "folder" THEN h.files ELSE h.files - 1,
                  folders |-> IF c[key].kind = "folder" THEN h.folders - 1 ELSE h.folders]
        IN  Leads(c[key].id, RemoveRecord(key, c[key]) \o LeaveParent(c[key].kind, c[at]),
                  Image(c, h, h),
                  Image(With(Without(Without(c, key), ThreadKey(c[key].id)), at, Less(c[at])), n, n))
    BY <1>1, <1>4, <1>5, RemoveLeads
  <2>2. QED BY <1>5, <1>6, <2>1
<1>9. PICK item, writes, end :
         /\ item = rec.id /\ writes = RemoveRecord(key, rec) \o LeaveParent(rec.kind, c[at])
         /\ end = Image(d, h2, h2)
  OBVIOUS
<1>10. Leads(item, writes, Image(catalog, header', savedHeader), end) /\ Begin(item, writes)
  BY <1>1, <1>3, <1>4, <1>8, <1>9
<1>11. Acyclic(d) /\ TreeStep(TreeOf(c), h.next, TreeOf(d), h.next)
  <2>1. ~NotEmpty(c[key]) /\ d = With(Without(Without(c, key), ThreadKey(c[key].id)), at, Less(c[at]))
    BY <1>3, <1>5, <1>6
  <2>2. Good(c, h, renamed) /\ Acyclic(c) /\ key \in Items(c) /\ at = Place(c, key[1])
    BY <1>1, <1>4, <1>5
  <2>3. QED BY ONLY <2>1, <2>2, RemoveTree
<1>12. Good(end.catalog, end.header, renamed) /\ end.saved = end.header /\ Acyclic(end.catalog)
       /\ TreeStep(TreeOf(catalog), header.next, TreeOf(end.catalog), end.header.next)
  BY <1>1, <1>6, <1>7, <1>9, <1>11 DEF Image
<1>13. QED BY <1>3, <1>10, <1>12, BeginInv

\* move leads to an image in which one item has another place, with everything in it.
LEMMA MoveInv ==
  ASSUME ~broken', Inv, NEW source \in NamePaths, NEW dest \in NamePaths, Move(source, dest)
  PROVE  Inv' /\ Seen
<1>1. PICK key, rec, c, h, from, to, name :
         /\ key = Lookup(source, FALSE) /\ rec = catalog[key] /\ c = catalog /\ h = header
         /\ from = Place(c, key[1]) /\ to = ParentKey(dest) /\ name = Last(dest)
  OBVIOUS
<1>2. RecordByCNID(key[1]) = c[from] /\ KeyAt(dest) = <<c[to].id, name>>
  BY <1>1 DEF RecordByCNID, KeyOf, Place, KeyAt
<1>3. /\ todo = <<>> /\ Found(key) /\ Ends(source, FALSE) /\ UNCHANGED header
      /\ Ends(Front(dest), TRUE) /\ IsFolder(to)
      /\ <<c[to].id, name>> \notin DOMAIN c \ {key} /\ rec.id \notin Above(c[to].id)
      /\ renamed' = Drifted(renamed, c[from].id, c[to].id) /\ broken' = FALSE
      /\ Begin(rec.id,
               <<RemoveKey(key), RemoveKey(ThreadKey(rec.id)), AddRecord(<<c[to].id, name>>, rec),
                 AddRecord(ThreadKey(rec.id), Thread(c[to].id, name)),
                 UpdateCatalog(Less(c[from])), UpdateCatalog(More(c[to]))>>)
  <2>1. MovedThread(c[from].id, c[to].id, name) = Thread(c[to].id, name)
    BY DEF MovedThread
  <2>2. broken' = Unchecked(key, dest, c[to])
    BY <1>1 DEF Move
  <2>3. /\ todo = <<>> /\ Found(key) /\ Ends(source, FALSE) /\ UNCHANGED header
        /\ Ends(Front(dest), TRUE) /\ IsFolder(to) /\ ~Unchecked(key, dest, c[to])
    BY <1>1, <2>2 DEF Move, Ready
  <2>4. /\ <<c[to].id, name>> \notin DOMAIN c \ {key} /\ rec.id \notin Above(c[to].id)
        /\ broken' = FALSE
    BY <1>1, <1>2, <2>2, <2>3 DEF Unchecked, Taken
  <2>5. Begin(rec.id,
              <<RemoveKey(key), RemoveKey(ThreadKey(rec.id)), AddRecord(KeyAt(dest), rec),
                AddRecord(ThreadKey(rec.id), MovedThread(c[from].id, c[to].id, name)),
                UpdateCatalog(Less(c[from])), UpdateCatalog(More(c[to]))>>)
    BY <1>1, <1>2 DEF Move
  <2>6. renamed' = Drifted(renamed, c[from].id, c[to].id)
    BY <1>1, <1>2 DEF Move, Drifted
  <2>7. QED BY <1>2, <2>1, <2>3, <2>4, <2>5, <2>6
<1>4. Good(c, h, renamed) /\ Good(catalog, header, renamed) /\ savedHeader = h /\ Texts /\ Acyclic(c)
  BY <1>1, <1>3, WholeBetween DEF Inv
<1>5. key \in Items(c) /\ c[key] = rec
  BY <1>1, <1>3, <1>4, PathFacts, LookupItem
<1>6. name \in Names
  BY <1>1, PathFacts
<1>7. to \in ItemKeys(c) /\ c[to].kind = "folder"
  <2>1. Found(Lookup(Front(dest), TRUE)) /\ to = Lookup(Front(dest), TRUE)
    BY <1>1, <1>3 DEF ParentKey, IsFolder
  <2>2. to \in ItemKeys(c)
    BY <1>1, <1>4, <2>1, PathFacts, LookupFacts
  <2>3. QED BY <1>1, <1>3, <2>2 DEF IsFolder
<1>8. <<c[to].id, name>> \notin DOMAIN c \ {key}
  BY <1>3
<1>9. c[to].id # rec.id
  <2>1. ThreadKey(c[to].id) \in DOMAIN catalog
    BY <1>1, <1>4, <1>7, GoodFacts
  <2>2. c[to].id \in Above(c[to].id)
    BY <1>4, <2>1, AboveItself
  <2>3. QED BY <1>3, <2>2
<1>10. c[from].id = key[1] /\ renamed' = Drifted(renamed, key[1], c[to].id)
  <2>1. c[from].id = key[1]
    <3>1. from = Place(c, key[1])
      BY <1>1, <1>5
    <3>2. QED BY ONLY <1>4, <1>5, <3>1, ParentFacts
  <2>2. QED BY ONLY <1>3, <2>1
<1>11. PICK d : d = With(With(With(With(Without(Without(c, key), ThreadKey(rec.id)), <<c[to].id, name>>, rec),
                                   ThreadKey(rec.id), Thread(c[to].id, name)),
                              from, Less(c[from])),
                         to, More(c[to]))
  OBVIOUS
<1>12. Good(d, h, renamed')
  <2>1. d = With(With(With(With(Without(Without(c, key), ThreadKey(c[key].id)), <<c[to].id, name>>, c[key]),
                                ThreadKey(c[key].id), Thread(c[to].id, name)),
                           from, Less(c[from])),
                      to, More(c[to]))
    BY <1>5, <1>11
  <2>2. c[to].id # c[key].id
    BY <1>5, <1>9
  <2>3. key \in Items(c) /\ to \in ItemKeys(c) /\ name \in Names
    BY <1>5, <1>6, <1>7
  <2>4. /\ Good(c, h, renamed) /\ from = Place(c, key[1]) /\ c[to].kind = "folder"
        /\ <<c[to].id, name>> \notin DOMAIN c \ {key}
    BY <1>1, <1>4, <1>7, <1>8
  <2>5. Good(d, h, Drifted(renamed, key[1], c[to].id))
    BY ONLY <2>1, <2>2, <2>3, <2>4, GoodMove
  <2>6. QED BY <1>10, <2>5
<1>13. PICK item, writes, end :
         /\ item = rec.id
         /\ writes = <<RemoveKey(key), RemoveKey(ThreadKey(rec.id)), AddRecord(<<c[to].id, name>>, rec),
                       AddRecord(ThreadKey(rec.id), Thread(c[to].id, name)),
                       UpdateCatalog(Less(c[from])), UpdateCatalog(More(c[to]))>>
         /\ end = Image(d, h, h)
  OBVIOUS
<1>14. Leads(item, writes, Image(c, h, h), end)
  <2>1. /\ from = Place(c, key[1]) /\ c[to].id # c[key].id /\ <<c[to].id, name>> \notin DOMAIN c \ {key}
        /\ c[key] = rec
    BY <1>1, <1>5, <1>8, <1>9
  <2>2. QED BY ONLY <1>4, <1>5, <1>6, <1>7, <1>11, <1>13, <2>1, MoveLeads
<1>15. Leads(item, writes, Image(catalog, header', savedHeader), end) /\ Begin(item, writes)
  BY <1>1, <1>3, <1>4, <1>13, <1>14
<1>16. Acyclic(d) /\ TreeStep(TreeOf(c), h.next, TreeOf(d), h.next)
  <2>1. PICK A : A = Above(c[to].id)
    OBVIOUS
  <2>2. ThreadKey(c[to].id) \in DOMAIN catalog
    BY <1>1, <1>4, <1>7, GoodFacts
  <2>3. /\ A \in SUBSET Nat /\ c[to].id \in A /\ c[key].id \notin A
        /\ \A k \in Items(c) : c[k].id \in A => k[1] \in A
    BY <1>1, <1>3, <1>4, <1>5, <2>1, <2>2, AboveItself, AboveClosed
  <2>4. d = With(With(With(With(Without(Without(c, key), ThreadKey(c[key].id)), <<c[to].id, name>>, c[key]),
                                ThreadKey(c[key].id), Thread(c[to].id, name)),
                           from, Less(c[from])),
                      to, More(c[to]))
    BY <1>5, <1>11
  <2>5. c[to].id # c[key].id /\ key \in Items(c) /\ to \in ItemKeys(c) /\ name \in Names
    BY <1>5, <1>6, <1>7, <1>9
  <2>6. /\ Good(c, h, renamed) /\ Acyclic(c) /\ from = Place(c, key[1]) /\ c[to].kind = "folder"
        /\ <<c[to].id, name>> \notin DOMAIN c \ {key}
    BY <1>1, <1>4, <1>7, <1>8
  <2>7. QED BY ONLY <2>3, <2>4, <2>5, <2>6, MoveTree
<1>17. Good(end.catalog, end.header, renamed') /\ end.saved = end.header /\ Acyclic(end.catalog)
       /\ TreeStep(TreeOf(catalog), header.next, TreeOf(end.catalog), end.header.next)
  BY <1>1, <1>12, <1>13, <1>16 DEF Image
<1>18. QED BY <1>3, <1>15, <1>17, BeginMovedInv

-----------------------------------------------------------------------------
(* Every step *)

\* A step that leaves the catalog alone keeps the invariant.
LEMMA StutterInv ==
  ASSUME Inv, UNCHANGED vars
  PROVE  Inv' /\ Seen
<1>1. Inv'
  BY DEF Inv, Texts, Promise, Fit, Kept, Between, Remembered, Now, Doing, vars
<1>2. QED BY <1>1, NothingSeen DEF Seen, vars

\* What holds up to a call that nothing checks, and of the steps that follow it.
Sound == broken \/ Inv

\* A call leaves what its callers see for its end to change.
LEMMA BegunUnseen ==
  ASSUME Inv, NEW item, NEW writes, Begin(item, writes)
  PROVE  Seen
<1>1. before'.catalog = before.catalog /\ before'.next = before.next
  BY DEF Inv, Remembered, Begin
<1>2. QED BY <1>1, NothingSeen DEF Seen

\* A new item, under a name that is taken or not.
LEMMA CreateKeeps ==
  ASSUME Inv, NEW path \in NamePaths, NewFolder(path) \/ NewFile(path)
  PROVE  Sound' /\ Seen
<1>1. CASE broken'
  <2>1. Seen
    BY BegunUnseen DEF NewFolder, NewFile
  <2>2. QED BY <1>1, <2>1 DEF Sound
<1>2. CASE ~broken'
  BY <1>2, NewFolderInv, NewFileInv DEF Sound
<1>3. QED BY <1>1, <1>2

\* A move, onto an item or into itself or not.
LEMMA MoveKeeps ==
  ASSUME Inv, NEW source \in NamePaths, NEW dest \in NamePaths, Move(source, dest)
  PROVE  Sound' /\ Seen
<1>1. CASE broken'
  <2>1. Seen
    BY BegunUnseen DEF Move
  <2>2. QED BY <1>1, <2>1 DEF Sound
<1>2. CASE ~broken'
  BY <1>2, MoveInv DEF Sound
<1>3. QED BY <1>1, <1>2

\* The steps that follow a call that nothing checks are not seen.
LEMMA BrokenStep ==
  ASSUME broken, Write \/ UNCHANGED vars
  PROVE  Sound' /\ Seen
<1>1. broken' /\ before' = before
  BY DEF Write, DoAdd, DoRemove, DoUpdate, DoText, DoCount, DoSave, Finish, vars
<1>2. QED BY <1>1, NothingSeen DEF Sound, Seen

\* Every call and every write of a call keeps what holds.
LEMMA StepKeeps ==
  ASSUME Sound, [Next]_vars
  PROVE  Sound' /\ Seen
<1>1. CASE broken
  <2>1. ~Call
    BY <1>1 DEF Call, NewFolder, NewFile, OverwriteFile, RemoveFile, MakeSymlink, RewriteSymlink,
                Move, SetPermissions, CanCreate, Ready
  <2>2. QED BY <1>1, <2>1, BrokenStep DEF Next, NotFollowed
<1>2. CASE Inv /\ Write
  BY <1>2, AddInv, RemoveInv, UpdateInv, OtherWritesInv DEF Write, Sound
<1>3. CASE Inv /\ Call
  <2>1. Paths \subseteq NamePaths /\ Paths \cup {<<>>} \subseteq Seq(Names) /\ LinkTexts \subseteq Seq(Names)
    BY BoundedPaths DEF InputAssumption
  <2>2. CASE \E p \in Paths : NewFolder(p) \/ NewFile(p) \/ OverwriteFile(p) \/ RemoveFile(p)
    BY <1>3, <2>1, <2>2, CreateKeeps, OverwriteFileInv, RemoveFileInv DEF Sound
  <2>3. CASE \E p \in Paths, t \in LinkTexts : MakeSymlink(p, t) \/ RewriteSymlink(p, t)
    BY <1>3, <2>1, <2>3, MakeSymlinkInv, RewriteSymlinkInv DEF Sound
  <2>4. CASE \E p, q \in Paths : Move(p, q)
    BY <1>3, <2>1, <2>4, MoveKeeps
  <2>5. CASE \E p \in Paths \cup {<<>>} : SetPermissions(p)
    BY <1>3, <2>1, <2>5, SetPermissionsInv DEF Sound
  <2>6. QED BY <1>3, <2>2, <2>3, <2>4, <2>5 DEF Call
<1>4. CASE Inv /\ UNCHANGED vars
  BY <1>4, StutterInv DEF Sound
<1>5. QED BY <1>1, <1>2, <1>3, <1>4 DEF Next, NotFollowed, Sound

-----------------------------------------------------------------------------
(* The steps of commands *)

Steps ==
    [op : {"clear"}, id : Nat, path : Seq(Names)]
    \cup [op : {"remove", "write", "mkdir", "chmod"}, path : NamePaths]
    \cup [op : {"merge"}, path : Seq(Names), host : HostFolders, at : Seq(Names)]
    \cup [op : {"entry", "make"}, path : NamePaths, type : Sorts, text : Seq(Names)]

\* The step a command takes next is of the form that its name says.
LEMMA StepForms ==
  ASSUME NEW step \in Steps
  PROVE  /\ step.op = "clear" => step \in [op : {"clear"}, id : Nat, path : Seq(Names)]
         /\ step.op \in {"remove", "write", "mkdir", "chmod"} => step.path \in NamePaths
         /\ step.op = "merge" =>
               step \in [op : {"merge"}, path : Seq(Names), host : HostFolders, at : Seq(Names)]
         /\ step.op \in {"entry", "make"} =>
               step \in [op : {"entry", "make"}, path : NamePaths, type : Sorts, text : Seq(Names)]
BY DEF Steps

\* The steps that commands put in front of the others are steps.
LEMMA StepMakers ==
  /\ \A id \in Nat, path \in Seq(Names) : Clear(id, path) \in Steps
  /\ \A path \in NamePaths :
        Discard(path) \in Steps /\ WriteFile(path) \in Steps /\ Mkdir(path) \in Steps /\ Chmod(path) \in Steps
  /\ \A path \in Seq(Names), host \in HostFolders, at \in Seq(Names) : Merge(path, host, at) \in Steps
  /\ \A e \in [op : {"entry", "make"}, path : NamePaths, type : Sorts, text : Seq(Names)] :
        Make(e) \in Steps
<1>1. \A id \in Nat, path \in Seq(Names) : Clear(id, path) \in Steps
  BY DEF Steps, Clear
<1>2. \A path \in NamePaths :
        Discard(path) \in Steps /\ WriteFile(path) \in Steps /\ Mkdir(path) \in Steps /\ Chmod(path) \in Steps
  BY DEF Steps, Discard, WriteFile, Mkdir, Chmod
<1>3. \A path \in Seq(Names), host \in HostFolders, at \in Seq(Names) : Merge(path, host, at) \in Steps
  BY DEF Steps, Merge
<1>4. \A e \in [op : {"entry", "make"}, path : NamePaths, type : Sorts, text : Seq(Names)] :
        Make(e) \in Steps
  BY DEF Steps, Make
<1>5. QED BY <1>1, <1>2, <1>3, <1>4

\* Paths that have a word more.
LEMMA LongerPath ==
  ASSUME NEW path \in Seq(Names), NEW name \in Names
  PROVE  Append(path, name) \in NamePaths
<1>1. Append(path, name) \in Seq(Names) /\ Len(Append(path, name)) = Len(path) + 1 /\ Len(path) \in Nat
  OBVIOUS
<1>2. Len(<<>>) = 0
  OBVIOUS
<1>3. QED BY <1>1, <1>2 DEF NamePaths

\* What FlattenSeq makes of sequences of steps.
LEMMA Flattened ==
  ASSUME NEW S, NEW seqs \in Seq(Seq(S))
  PROVE  FlattenSeq(seqs) \in Seq(S)
<1>1. PICK f : Fronts(f, seqs, S)
  BY FlattenFronts
<1>2. Len(seqs) \in 0 .. Len(seqs)
  OBVIOUS
<1>3. QED BY <1>1, <1>2 DEF Fronts

\* A set as a sequence.
LEMMA ListOf ==
  ASSUME NEW S, IsFiniteSet(S)
  PROVE  SetToSeq(S) \in Seq(S)
<1> DEFINE n == Cardinality(S)
           Lists(f) == f \in [1 .. n -> S] /\ IsInjective(f)
<1>1. n \in Nat
  BY FS_CardinalityType
<1>2. \E f : Lists(f)
  <2>1. PICK f : f \in Bijection(1 .. n, S)
    BY FS_CardinalityType DEF ExistsBijection
  <2>2. f \in [1 .. n -> S] /\ \A i, j \in 1 .. n : f[i] = f[j] => i = j
    BY <2>1 DEF Bijection, Injection, IsInjective
  <2>3. Lists(f)
    BY <2>2 DEF IsInjective
  <2>4. QED BY <2>3
<1>3. Lists(CHOOSE f : Lists(f))
  <2> HIDE DEF Lists
  <2> QED BY <1>2
<1>4. QED BY <1>1, <1>3 DEF SetToSeq

\* A command puts the steps that one step stands for in front of the others.
LEMMA StepsTaken ==
  ASSUME plan \in Seq(Steps), plan # <<>>, NEW steps \in Seq(Steps), Take(steps)
  PROVE  (plan \in Seq(Steps))'
<1>1. Tail(plan) \in Seq(Steps)
  OBVIOUS
<1>2. QED BY <1>1 DEF Take

\* The steps of commands are writes and calls of the catalog, or leave it alone.
LEMMA CommandStepInv ==
  ASSUME Inv, plan \in Seq(Steps), Step
  PROVE  Sound' /\ Seen /\ (plan \in Seq(Steps))'
<1> DEFINE step == Head(plan)
<1>1. todo = <<>> /\ plan # <<>> /\ step \in Steps
  <2>1. todo = <<>> /\ plan # <<>>
    BY DEF Step, TakeClear, TakeRemove, TakeMerge, TakeMkdir, TakeWrite, TakeChmod, TakeEntry, TakeMake, Taking, Ready
  <2>2. QED BY <2>1
<1>2. <<>> \in Seq(Steps) /\ NamePaths \subseteq Seq(Names)
  BY DEF NamePaths
<1>3. \A s \in Steps : <<s>> \in Seq(Steps)
  OBVIOUS
<1>4. CASE TakeClear
  <2>1. step.op = "clear" /\ UNCHANGED vars
    BY <1>4 DEF TakeClear, Taking
  <2>2. step.id \in Nat /\ step.path \in Seq(Names)
    BY <1>1, <2>1, StepForms
  <2> DEFINE items == Contents(step.id)
             list == SetToSeq(items)
             steps == [i \in DOMAIN list |-> ClearItem(list[i], Append(step.path, list[i][2]))]
             after == IF step.path = <<>> THEN <<>> ELSE <<Discard(step.path)>>
  <2>3. Good(catalog, header, renamed)
    BY <1>1, WholeBetween
  <2>4. \A k \in items : k[2] \in Names /\ catalog[k].id \in Nat
    <3>1. \A k \in Items(catalog) : k[2] \in Names /\ catalog[k].id \in Nat
      BY <2>3, KeyFacts DEF Good, Filed, Items
    <3>2. QED BY <3>1 DEF Contents
  <2>5. IsFiniteSet(items)
    <3>1. items \subseteq DOMAIN catalog /\ IsFiniteSet(DOMAIN catalog)
      BY <2>3 DEF Contents, Items, ItemKeys, Good, Typed
    <3>2. QED BY <3>1, FS_Subset
  <2>6. list \in Seq(items)
    BY <2>5, ListOf
  <2>7. \A k \in items : ClearItem(k, Append(step.path, k[2])) \in Steps
    <3> SUFFICES ASSUME NEW k \in items PROVE ClearItem(k, Append(step.path, k[2])) \in Steps
      OBVIOUS
    <3>1. Append(step.path, k[2]) \in NamePaths
      BY <2>2, <2>4, LongerPath
    <3>2. QED BY <1>2, <2>4, <3>1, StepMakers DEF ClearItem
  <2>8. steps \in Seq(Steps)
    <3>1. DOMAIN list = 1 .. Len(list) /\ Len(list) \in Nat /\ \A i \in DOMAIN list : list[i] \in items
      BY <2>6
    <3>2. \A i \in DOMAIN list : ClearItem(list[i], Append(step.path, list[i][2])) \in Steps
      BY <2>7, <3>1
    <3>3. steps \in [1 .. Len(list) -> Steps]
      BY <3>1, <3>2
    <3> HIDE DEF steps
    <3>4. QED BY <3>1, <3>3
  <2>9. after \in Seq(Steps)
    <3>1. step.path # <<>> => Discard(step.path) \in Steps
      BY <2>2, StepMakers DEF NamePaths
    <3>2. QED BY <1>2, <1>3, <3>1
  <2>10. Take(steps \o after)
    BY <1>4 DEF TakeClear
  <2> HIDE DEF steps, after
  <2>11. steps \o after \in Seq(Steps)
    BY <2>8, <2>9
  <2>12. QED BY <1>1, <2>1, <2>10, <2>11, StepsTaken, StutterInv DEF Sound
<1>5. CASE TakeRemove
  <2>1. step.op = "remove" /\ step.path \in NamePaths
    BY <1>1, <1>5, StepForms DEF TakeRemove, Taking
  <2>2. \/ Take(<<>>) /\ UNCHANGED vars
        \/ plan' = <<>> /\ UNCHANGED vars
        \/ RemoveFile(step.path) /\ Take(<<>>)
    BY <1>5 DEF TakeRemove
  <2>3. (plan \in Seq(Steps))'
    BY <1>1, <1>2, <2>2, StepsTaken
  <2>4. Sound' /\ Seen
    BY <2>1, <2>2, StutterInv, RemoveFileInv DEF Sound
  <2>5. QED BY <2>3, <2>4
<1>6. CASE TakeMerge
  <2>1. step.op = "merge" /\ UNCHANGED vars
    BY <1>6 DEF TakeMerge, Taking
  <2>2. step.path \in Seq(Names) /\ step.host \in HostFolders /\ step.at \in Seq(Names)
    BY <1>1, <2>1, StepForms
  <2> DEFINE items == {p \in DOMAIN step.host : Front(p) = step.at}
             path(p) == Append(step.path, Last(p))
             each(p) == IF step.host[p] = "dir"
                        THEN <<Mkdir(path(p)), Merge(path(p), step.host, p)>>
                        ELSE <<WriteFile(path(p))>> \o
                             (IF path(p) \in Programs THEN <<Chmod(path(p))>> ELSE <<>>)
  <2>3. PICK order \in SetToAllKPermutations(items) : Take(FlattenSeq([i \in DOMAIN order |-> each(order[i])]))
    BY <1>6 DEF TakeMerge
  <2>4. PICK n \in Nat : DOMAIN order = 1 .. n /\ \A i \in DOMAIN order : order[i] \in items
    <3>1. PICK s \in SUBSET items : order \in SetToSeqs(s)
      BY <2>3 DEF SetToAllKPermutations
    <3>2. order \in [1 .. Cardinality(s) -> s]
      BY <3>1 DEF SetToSeqs
    <3>3. IsFiniteSet(DOMAIN step.host) /\ s \subseteq DOMAIN step.host
      BY <2>2, CommandAssumption
    <3>4. Cardinality(s) \in Nat
      BY <3>3, FS_Subset, FS_CardinalityType
    <3>5. QED BY <3>2, <3>4
  <2> DEFINE seqs == [i \in DOMAIN order |-> each(order[i])]
  <2>5. \A p \in items : each(p) \in Seq(Steps)
    <3> SUFFICES ASSUME NEW p \in items PROVE each(p) \in Seq(Steps)
      OBVIOUS
    <3>1. p \in NamePaths
      BY <2>2, CommandAssumption DEF NamePaths
    <3>2. p \in Seq(Names) /\ path(p) \in NamePaths /\ path(p) \in Seq(Names)
      BY <1>2, <2>2, <3>1, PathFacts, LongerPath
    <3> HIDE DEF path
    <3>3. /\ Mkdir(path(p)) \in Steps /\ WriteFile(path(p)) \in Steps /\ Chmod(path(p)) \in Steps
          /\ Merge(path(p), step.host, p) \in Steps
      BY <2>2, <3>2, StepMakers
    <3>4. <<Mkdir(path(p)), Merge(path(p), step.host, p)>> \in Seq(Steps)
      BY <3>3
    <3>5. PICK more \in Seq(Steps) : more = IF path(p) \in Programs THEN <<Chmod(path(p))>> ELSE <<>>
      BY <1>2, <1>3, <3>3
    <3>6. <<WriteFile(path(p))>> \o more \in Seq(Steps)
      BY <1>3, <3>3
    <3>7. QED BY <3>4, <3>5, <3>6
  <2> HIDE DEF each
  <2>6. seqs \in Seq(Seq(Steps))
    <3>1. \A i \in DOMAIN order : each(order[i]) \in Seq(Steps)
      BY <2>4, <2>5
    <3>2. seqs \in [1 .. n -> Seq(Steps)]
      BY <2>4, <3>1
    <3> HIDE DEF seqs
    <3>3. QED BY <2>4, <3>2
  <2> HIDE DEF seqs
  <2>7. FlattenSeq(seqs) \in Seq(Steps)
    BY <2>6, Flattened
  <2>8. Take(FlattenSeq(seqs))
    BY <2>3 DEF each, seqs
  <2>9. QED BY <1>1, <2>1, <2>7, <2>8, StepsTaken, StutterInv DEF Sound
<1>7. CASE TakeMkdir
  <2>1. step.op = "mkdir" /\ step.path \in NamePaths
    BY <1>1, <1>7, StepForms DEF TakeMkdir, Taking
  <2>2. Take(<<>>) /\ (NewFolder(step.path) \/ UNCHANGED vars)
    BY <1>7 DEF TakeMkdir
  <2>3. Sound' /\ Seen
    BY <2>1, <2>2, StutterInv, CreateKeeps DEF Sound
  <2>4. QED BY <1>1, <1>2, <2>2, <2>3, StepsTaken
<1>8. CASE TakeWrite
  <2>1. step.op = "write" /\ step.path \in NamePaths
    BY <1>1, <1>8, StepForms DEF TakeWrite, Taking
  <2>2. Take(<<>>) /\ (NewFile(step.path) \/ OverwriteFile(step.path))
    BY <1>8 DEF TakeWrite
  <2>3. Sound' /\ Seen
    BY <2>1, <2>2, CreateKeeps, OverwriteFileInv DEF Sound
  <2>4. QED BY <1>1, <1>2, <2>2, <2>3, StepsTaken
<1>9. CASE TakeChmod
  <2>1. step.op = "chmod" /\ step.path \in Seq(Names)
    BY <1>1, <1>2, <1>9, StepForms DEF TakeChmod, Taking
  <2>2. \/ SetPermissions(step.path) /\ Take(<<>>)
        \/ Take(<<>>) /\ UNCHANGED vars
        \/ plan' = <<>> /\ UNCHANGED vars
    BY <1>9 DEF TakeChmod
  <2>3. (plan \in Seq(Steps))'
    BY <1>1, <1>2, <2>2, StepsTaken
  <2>4. Sound' /\ Seen
    BY <2>1, <2>2, StutterInv, SetPermissionsInv DEF Sound
  <2>5. QED BY <2>3, <2>4
<1>10. CASE TakeEntry
  <2>1. step.op = "entry" /\ UNCHANGED vars
    BY <1>10 DEF TakeEntry, Taking
  <2>2. /\ step \in [op : {"entry", "make"}, path : NamePaths, type : Sorts, text : Seq(Names)]
        /\ step.path \in NamePaths
    BY <1>1, <2>1, StepForms
  <2>3. PICK there \in Seq(Steps) :
              Take(<<>>) \/ Take(there \o <<Make(step), Chmod(step.path), Chmod(step.path)>>)
    <3>1. Discard(step.path) \in Steps
      BY <2>2, StepMakers
    <3>2. QED BY <1>2, <1>3, <1>10, <3>1 DEF TakeEntry
  <2>4. Make(step) \in Steps /\ Chmod(step.path) \in Steps
    BY <2>2, StepMakers
  <2>5. <<Make(step), Chmod(step.path), Chmod(step.path)>> \in Seq(Steps)
    BY <2>4
  <2>6. there \o <<Make(step), Chmod(step.path), Chmod(step.path)>> \in Seq(Steps)
    BY <2>5
  <2>7. QED BY <1>1, <1>2, <2>1, <2>3, <2>6, StepsTaken, StutterInv DEF Sound
<1>11. CASE TakeMake
  <2>1. step.op = "make"
    BY <1>11 DEF TakeMake, Taking
  <2>2. step.path \in NamePaths /\ step.text \in Seq(Names)
    BY <1>1, <2>1, StepForms
  <2>3. Take(<<>>) /\ \/ NewFolder(step.path)
                      \/ NewFile(step.path)
                      \/ MakeSymlink(step.path, step.text)
                      \/ UNCHANGED vars
    BY <1>11 DEF TakeMake
  <2>4. Sound' /\ Seen
    BY <2>2, <2>3, StutterInv, CreateKeeps, MakeSymlinkInv DEF Sound
  <2>5. QED BY <1>1, <1>2, <2>3, <2>4, StepsTaken
<1>12. QED BY <1>4, <1>5, <1>6, <1>7, <1>8, <1>9, <1>10, <1>11 DEF Step

\* What holds of a command as it runs.
CommandInv == Sound /\ plan \in Seq(Steps)

\* A command begins with steps, and with an image that it has not changed.
LEMMA CommandStarts ==
  ASSUME Inv, Command
  PROVE  CommandInv' /\ Seen
<1>1. <<>> \in Seq(Names) /\ Paths \cup {<<>>} \subseteq Seq(Names)
  BY BoundedPaths
<1>2. UNCHANGED vars /\ todo = <<>>
  BY DEF Command, Rmall, Addall, Untar, Idle, Ready, Start
<1>3. CASE \E path \in Paths \cup {<<>>} : Rmall(path)
  <2>1. PICK path \in Paths \cup {<<>>} : Rmall(path)
    BY <1>3
  <2>2. PICK key : key = Lookup(path, TRUE) /\ Found(key) /\ plan' = <<Clear(catalog[key].id, path)>>
    BY <2>1 DEF Rmall, IsFolder, Start
  <2>3. path \in Seq(Names)
    BY <1>1
  <2>4. Good(catalog, header, renamed) /\ Texts
    BY <1>2, WholeBetween DEF Inv
  <2>5. key \in ItemKeys(catalog)
    BY <2>2, <2>3, <2>4, LookupFacts
  <2>6. catalog[key].id \in Nat
    BY <2>4, <2>5, KeyFacts DEF Good
  <2>7. Clear(catalog[key].id, path) \in Steps
    BY <2>3, <2>6, StepMakers
  <2>8. (plan \in Seq(Steps))'
    <3>1. <<Clear(catalog[key].id, path)>> \in Seq(Steps)
      BY <2>7
    <3>2. QED BY <2>2, <3>1
  <2>9. QED BY <1>2, <2>8, StutterInv DEF CommandInv, Sound
<1>4. CASE \E path \in Paths \cup {<<>>}, host \in HostFolders : Addall(host, path)
  <2>1. PICK path \in Paths \cup {<<>>}, host \in HostFolders : Addall(host, path)
    BY <1>4
  <2>2. plan' = <<Merge(path, host, <<>>)>>
    BY <2>1 DEF Addall, Start
  <2>3. Merge(path, host, <<>>) \in Steps
    BY <1>1, StepMakers
  <2>4. QED BY <1>2, <2>2, <2>3, StutterInv DEF CommandInv, Sound
<1>5. CASE \E archive \in Archives : Untar(archive)
  <2>1. PICK archive \in Archives : plan' = archive
    BY <1>5 DEF Untar, Start
  <2>2. ArchiveEntries \subseteq Steps
    BY DEF ArchiveEntries, Steps, NamePaths
  <2>3. archive \in Seq(Steps)
    BY <2>2, CommandAssumption
  <2>4. QED BY <1>2, <2>1, <2>3, StutterInv DEF CommandInv, Sound
<1>6. QED BY <1>3, <1>4, <1>5 DEF Command

\* Every step of a command keeps the invariant and leaves only steps to take.
LEMMA CommandStepKeeps ==
  ASSUME CommandInv, [CommandNext]_cvars
  PROVE  CommandInv' /\ Seen
<1>1. CASE [Next]_vars /\ UNCHANGED plan
  BY <1>1, StepKeeps DEF CommandInv
<1>2. CASE Command
  <2>1. ~broken
    BY <1>2 DEF Command, Rmall, Addall, Untar, Idle, Ready
  <2>2. QED BY <1>2, <2>1, CommandStarts DEF CommandInv, Sound
<1>3. CASE Step
  <2>1. ~broken
    BY <1>3 DEF Step, TakeClear, TakeRemove, TakeMerge, TakeMkdir, TakeWrite, TakeChmod, TakeEntry,
                TakeMake, Taking, Ready
  <2>2. QED BY <1>3, <2>1, CommandStepInv DEF CommandInv, Sound
<1>4. QED BY <1>1, <1>2, <1>3 DEF CommandNext, EndCommand, Next, cvars

-----------------------------------------------------------------------------
(* The invariant, and what it says *)

\* Up to a call that nothing checks: from every image that the calls and a death in
\* the middle of one leave, the writes left to make lead over records that are there
\* to a whole image.
THEOREM CatalogInvariant == Spec \/ CommandSpec => [](broken \/ Inv)
<1>1. Init => Sound
  BY InitInv DEF Sound
<1>2. Sound /\ [Next]_vars => Sound'
  BY StepKeeps
<1>3. CommandInit => CommandInv
  BY <1>1 DEF CommandInit, CommandInv
<1>4. CommandInv /\ [CommandNext]_cvars => CommandInv'
  BY CommandStepKeeps
<1>5. CommandInv => Sound
  BY DEF CommandInv
<1>6. Sound => broken \/ Inv
  BY DEF Sound
<1>7. QED BY <1>1, <1>2, <1>3, <1>4, <1>5, <1>6, PTL DEF Spec, CommandSpec

\* What the invariant says of the threads.
LEMMA InvThreads == broken \/ Inv => ThreadsMatch
<1> SUFFICES ASSUME Inv, todo = <<>> PROVE ThreadsMatch
  BY DEF ThreadsMatch, Ready
<1> DEFINE c == catalog
<1>1. Good(c, header, renamed) /\ Linked(c) /\ Typed(c, header)
  BY WholeBetween DEF Good
<1>2. \A id : KeyOf(id) = Place(c, id)
  BY DEF KeyOf, Place
<1>3. \A k \in ItemKeys(c) : ThreadKey(c[k].id) \in DOMAIN c /\ KeyOf(c[k].id) = k
  BY <1>1, <1>2 DEF Linked
<1>4. \A k \in DOMAIN c \ ItemKeys(c) : KeyOf(k[1]) \in DOMAIN c /\ c[KeyOf(k[1])].id = k[1]
  BY <1>1, <1>2 DEF Linked, ItemKeys
<1>5. QED BY <1>3, <1>4 DEF ThreadsMatch, RecordByCNID

\* What it says of the valences.
LEMMA InvValences == broken \/ Inv => ValenceExact
<1> SUFFICES ASSUME Inv, todo = <<>> PROVE ValenceExact
  BY DEF ValenceExact, Ready
<1>1. QED BY WholeBetween DEF ValenceExact, Good, Valences, Children

\* What it says of the header on the image.
LEMMA InvCounts == broken \/ Inv => CountsExact
<1> SUFFICES ASSUME Inv, todo = <<>> PROVE CountsExact
  BY DEF CountsExact, Ready
<1>1. Good(catalog, header, renamed) /\ savedHeader = header
  BY WholeBetween
<1>2. header.next \in Nat /\ \A k \in Items(catalog) : k \in ItemKeys(catalog) /\ catalog[k].id \in Root .. header.next - 1
  BY <1>1, GoodFacts
<1>3. \A k \in Items(catalog) : catalog[k].id < header.next
  BY <1>2 DEF Root
<1>4. QED BY <1>1, <1>3 DEF CountsExact, Good, Counts

\* What it says of the records that a call needs, and of those that a death costs.
LEMMA InvKeys == Inv => KeysPresent
<1> SUFFICES ASSUME Inv, todo # <<>> PROVE KeysPresent
  BY DEF KeysPresent, Doing
<1>1. PICK item, mid : Effect(item, Head(todo), Now, mid)
  BY HeadPromise
<1>2. ASSUME Head(todo).op = "remove" PROVE Head(todo).key \in DOMAIN catalog
  <2>1. RemoveFrom(item, Head(todo), Now, mid)
    BY <1>1, <1>2 DEF Effect, AddTo, RemoveFrom, UpdateIn, CountIn, SaveIn
  <2>2. QED BY <2>1 DEF RemoveFrom, Now, Image
<1>3. ASSUME Head(todo).op = "update"
      PROVE  ThreadKey(Head(todo).rec.id) \in DOMAIN catalog /\ KeyOf(Head(todo).rec.id) \in DOMAIN catalog
  <2>1. UpdateIn(Head(todo), Now, mid)
    BY <1>1, <1>3 DEF Effect, AddTo, RemoveFrom, UpdateIn, CountIn, SaveIn
  <2>2. QED BY <2>1 DEF UpdateIn, Now, Image, KeyOf, Place
<1>4. QED BY <1>2, <1>3 DEF KeysPresent, Doing

\* What it says of the records that a death in this moment costs.
LEMMA InvDeath == broken \/ Inv => DeathCostsOneRecord
BY DEF Inv, Kept, DeathCostsOneRecord, Owner, SameItem

\* Between calls the thread of every item leads back to the item, and every thread
\* to an item.
THEOREM ThreadsAlwaysMatch == Spec \/ CommandSpec => []ThreadsMatch
BY CatalogInvariant, InvThreads, PTL

\* Between calls a folder's valence is the number of items in it.
THEOREM ValencesAlwaysExact == Spec \/ CommandSpec => []ValenceExact
BY CatalogInvariant, InvValences, PTL

\* Between calls the header on the image counts its files and folders and has no id
\* to give that an item has.
THEOREM CountsAlwaysExact == Spec \/ CommandSpec => []CountsExact
BY CatalogInvariant, InvCounts, PTL

\* No call removes or rewrites a record that is not there.
THEOREM KeysAlwaysPresent == Spec \/ CommandSpec => [](broken \/ KeysPresent)
BY CatalogInvariant, InvKeys, PTL

\* A death inside a call costs at most one record of another item.
THEOREM DeathAlwaysCostsOneRecord == Spec \/ CommandSpec => []DeathCostsOneRecord
BY CatalogInvariant, InvDeath, PTL

-----------------------------------------------------------------------------
(* What callers see is a tree *)

\* What callers see of a step is a step of FolderTree.
LEMMA SeenFits ==
  ASSUME Seen
  PROVE  [Tree!Next]_<<TreeOf(before.catalog), FirstID .. before.next - 1>>
<1> DEFINE t == TreeOf(before.catalog)
           u == TreeOf(before'.catalog)
           n == before.next
           m == before'.next
<1>1. TreeStep(t, n, u, m)
  BY DEF Seen
<1>3. CASE u = t /\ m = n
  BY <1>3
<1>4. CASE /\ m = n + 1 /\ n \in Ids
           /\ \E item \in Tree!Item :
                 item.parent \in Tree!Folders(t) /\ Tree!NameFree(t, n, item) /\ u = Tree!Put(t, n, item)
  <2>1. FirstID .. m - 1 = (FirstID .. n - 1) \cup {n}
    BY <1>4 DEF Ids, FirstID
  <2>2. n \in Ids \ (FirstID .. n - 1)
    BY <1>4 DEF Ids, FirstID
  <2>3. Tree!Make
    BY <1>4, <2>1, <2>2 DEF Tree!Make
  <2>4. QED BY <2>3 DEF Tree!Next
<1>5. CASE /\ m = n
           /\ \E i \in DOMAIN t, parent \in Tree!Folders(t), name \in Names :
                 LET item == [t[i] EXCEPT !.parent = parent, !.name = name]
                 IN  Tree!NameFree(t, i, item) /\ u = Tree!Put(t, i, item) /\ Tree!Hangs(u)
  <2>1. Tree!Move
    BY <1>5 DEF Tree!Move
  <2>2. QED BY <2>1 DEF Tree!Next
<1>6. CASE /\ m = n
           /\ \E i \in DOMAIN t :
                 (\A j \in DOMAIN t : t[j].parent # i) /\ u = Restrict(t, DOMAIN t \ {i})
  <2>1. Tree!Remove
    BY <1>6 DEF Tree!Remove, Tree!Restrict, Restrict
  <2>2. QED BY <2>1 DEF Tree!Next
<1>7. QED BY <1>1, <1>3, <1>4, <1>5, <1>6 DEF TreeStep

\* The calls, each of them a sequence of writes to the image, implement FolderTree:
\* from one return to the next the tree has changed in one place or not at all, and
\* every item still hangs from the root.
THEOREM CatalogImplementsTree == Spec \/ CommandSpec => CatalogIsTree
<1>1. Init => Tree!Init
  <2> SUFFICES ASSUME Init PROVE Tree!Init
    OBVIOUS
  <2>1. before = [catalog |-> catalog, next |-> FirstID, item |-> 0]
    BY DEF Init
  <2>2. before.catalog = catalog /\ before.next = FirstID
    BY <2>1
  <2>3. DOMAIN catalog = {RootKey, ThreadKey(Root)}
    BY DEF Init
  <2>4. Items(catalog) = {}
    BY <2>3 DEF Items, ItemKeys, ThreadKey
  <2>5. TreeOf(catalog) = [i \in {} |-> TreeOf(catalog)[i]]
    BY <2>4 DEF TreeOf
  <2>6. TreeOf(catalog) = <<>>
    BY <2>5
  <2>7. FirstID .. FirstID - 1 = {}
    BY DEF FirstID
  <2>8. QED BY <2>2, <2>6, <2>7 DEF Tree!Init
<1>2. Sound /\ [Next]_vars => [Tree!Next]_<<TreeOf(before.catalog), FirstID .. before.next - 1>>
  BY StepKeeps, SeenFits
<1>3. CommandInv /\ [CommandNext]_cvars => [Tree!Next]_<<TreeOf(before.catalog), FirstID .. before.next - 1>>
  BY CommandStepKeeps, SeenFits
<1>4. Init => Sound
  BY InitInv DEF Sound
<1>5. Sound /\ [Next]_vars => Sound'
  BY StepKeeps
<1>6. CommandInit => Init /\ CommandInv
  BY <1>4 DEF CommandInit, CommandInv
<1>7. CommandInv /\ [CommandNext]_cvars => CommandInv'
  BY CommandStepKeeps
<1>8. QED BY <1>1, <1>2, <1>3, <1>4, <1>5, <1>6, <1>7, PTL DEF Spec, CommandSpec, CatalogIsTree, Tree!Spec
=============================================================================
