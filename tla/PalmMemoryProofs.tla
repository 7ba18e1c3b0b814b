-------------------------- MODULE PalmMemoryProofs --------------------------
(***************************************************************************)
(* Proofs about PalmMemory. The segments tile what has been allocated of   *)
(* the RAM from the first one on. The caches are empty until the RAM is    *)
(* ready, and nothing moves a segment afterwards; so an entry stays right  *)
(* once it is right, whichever accesses of whichever width go through it.  *)
(* A page is whole in or out of each window, so the bytes reached through  *)
(* a page, a segment or the image are those their own addresses reach.     *)
(* Blocks are inductions over their length, by its least counterexample.   *)
(***************************************************************************)
EXTENDS PalmMemory, SequenceTheorems, WellFoundedInduction, TLAPS

Pieces == [base : Nat, size : Nat]
Segments == Seq(Pieces)
Entries == [tag : Tags \union {None}, base : Places \union {None}]

\* What CachesCurrent asks of each cache.
ReadEntryOK(e) == /\ e.tag # None => e.base = ReadPage(e.tag)
                  /\ e.base # None => Inside(e.base)
WriteEntryOK(e) == /\ e.tag # None => e.base = WritePage(e.tag)
                   /\ e.base # None => Inside(e.base)
ReadCacheOK(cache) == /\ cache \in [CacheIndices -> Entries]
                      /\ \A i \in CacheIndices : ReadEntryOK(cache[i])
WriteCacheOK(cache) == /\ cache \in [CacheIndices -> Entries]
                       /\ \A i \in CacheIndices : WriteEntryOK(cache[i])

----------------------------------------------------------------------------
(* Addresses *)

\* The constants are numbers, and there is memory to address.
LEMMA ConstantTypes ==
    /\ AddressEnd \in Nat \ {0} /\ RamSize \in Nat \ {0} /\ RomSize \in Nat \ {0}
    /\ AliasEnd \in Nat /\ RomBase \in Nat /\ RomLow \in Nat /\ RomBase24 \in Nat
    /\ RomLow24 \in Nat /\ RomSelect \in Nat /\ PageSize \in Nat \ {0}
    /\ CacheEntries \in Nat \ {0} /\ MaxSegments \in Nat /\ None \notin Int
<1>1. /\ AddressEnd \in Nat /\ RamSize \in Nat /\ AliasEnd \in Nat /\ RomSize \in Nat
      /\ RomBase \in Nat /\ RomLow \in Nat /\ RomBase24 \in Nat /\ RomLow24 \in Nat
      /\ RomSelect \in Nat
  BY MapAssumption
<1>2. RamSize > 0 /\ RomSize > 0 /\ RamSize <= AliasEnd - RamSize /\ AliasEnd <= AddressEnd
  BY MapAssumption
<1>3. /\ PageSize \in Nat \ {0} /\ CacheEntries \in Nat \ {0} /\ MaxSegments \in Nat
  BY MemoryAssumption
<1>4. None \notin Int
  BY MapAssumption
<1> QED BY <1>1, <1>2, <1>3, <1>4

\* The address after the last is the first.
LEMMA NextAddress ==
    ASSUME NEW a \in Addresses, NEW k \in Nat
    PROVE  At(a, k) \in Addresses
<1>1. a + k \in Nat
  BY ConstantTypes DEF Addresses
<1>2. \A m \in Nat, n \in Nat \ {0} : (m % n) \in 0 .. n - 1
  OBVIOUS
<1> QED BY <1>1, <1>2, ConstantTypes DEF At, Addresses

\* An address belongs to a page, and the page to an entry.
LEMMA PageTypes ==
    ASSUME NEW a \in Addresses
    PROVE  /\ Tag(a) \in Tags /\ PageBase(Tag(a)) \in Nat
           /\ pageCacheIndex(Tag(a)) \in CacheIndices
<1> DEFINE t == a \div PageSize
           u == (AddressEnd - 1) \div PageSize
<1>1. a \in Nat /\ a <= AddressEnd - 1 /\ AddressEnd - 1 \in Nat
  BY ConstantTypes DEF Addresses
<1>2. \A m \in Nat, n \in Nat \ {0} : (m \div n) \in Nat
  OBVIOUS
<1>3. \A m \in Nat, k \in Nat, n \in Nat \ {0} : m <= k => (m \div n) <= (k \div n)
  BY SMT
<1>4. t \in Nat /\ u \in Nat /\ t <= u
  BY <1>1, <1>2, <1>3, ConstantTypes
<1> HIDE DEF t, u
<1>5. t \in 0 .. u
  BY <1>4
<1>6. t * PageSize \in Nat
  <2>1. \A m \in Nat, n \in Nat : m * n \in Nat
    OBVIOUS
  <2> QED BY <1>4, <2>1, ConstantTypes
<1>7. \A m \in Nat, n \in Nat \ {0} : (m % n) \in 0 .. n - 1
  OBVIOUS
<1>8. (t % CacheEntries) \in CacheIndices
  BY <1>4, <1>7, ConstantTypes DEF CacheIndices
<1> QED BY <1>5, <1>6, <1>8 DEF Tag, Tags, PageBase, pageCacheIndex, t, u

\* A pointer into the ROM leaves room in the image for all of its bytes.
LEMMA RomHolds ==
    ASSUME NEW a \in Nat, NEW n \in Nat, romPointerForAddress(a, n) # None
    PROVE  /\ romPointerForAddress(a, n) \in Nat
           /\ romPointerForAddress(a, n) + n <= RomSize
<1>1. \A m \in Nat, k \in Nat \ {0} : (m % k) \in Nat
  OBVIOUS
<1>2. CASE AtBase(RomBase, a, n)
  BY <1>2, ConstantTypes DEF romPointerForAddress, AtBase
<1>3. CASE AtBase(RomBase24, a, n) /\ ~AtBase(RomBase, a, n)
  BY <1>3, ConstantTypes DEF romPointerForAddress, AtBase
<1>4. CASE /\ Repeated(RomLow, a, n)
           /\ ~AtBase(RomBase, a, n) /\ ~AtBase(RomBase24, a, n)
  <2>1. romPointerForAddress(a, n) = (a - RomLow) % RomSize
    BY <1>4 DEF romPointerForAddress
  <2>2. a - RomLow \in Nat
    BY <1>4, ConstantTypes DEF Repeated
  <2>3. ((a - RomLow) % RomSize) \in Nat
    BY <1>1, <2>2, ConstantTypes
  <2> QED BY <1>4, <2>1, <2>3 DEF Repeated
<1>5. CASE /\ Repeated(RomLow24, a, n) /\ ~Repeated(RomLow, a, n)
           /\ ~AtBase(RomBase, a, n) /\ ~AtBase(RomBase24, a, n)
  <2>1. romPointerForAddress(a, n) = (a - RomLow24) % RomSize
    BY <1>5 DEF romPointerForAddress
  <2>2. a - RomLow24 \in Nat
    BY <1>5, ConstantTypes DEF Repeated
  <2>3. ((a - RomLow24) % RomSize) \in Nat
    BY <1>1, <2>2, ConstantTypes
  <2> QED BY <1>5, <2>1, <2>3 DEF Repeated
<1> QED BY <1>2, <1>3, <1>4, <1>5 DEF romPointerForAddress

\* A segment has a base and a size.
LEMMA SegmentType ==
    ASSUME segments \in Segments
    PROVE  /\ Len(segments) \in Nat /\ DOMAIN segments = 1 .. Len(segments)
           /\ \A i \in DOMAIN segments :
                  i \in Nat /\ segments[i].base \in Nat /\ segments[i].size \in Nat
<1>1. Len(segments) \in Nat /\ DOMAIN segments = 1 .. Len(segments)
  BY DEF Segments
<1>2. \A i \in 1 .. Len(segments) : segments[i] \in Pieces
  BY DEF Segments
<1>3. \A i \in 1 .. Len(segments) : segments[i].base \in Nat /\ segments[i].size \in Nat
  BY <1>2 DEF Pieces
<1> QED BY <1>1, <1>3

\* A pointer into the RAM leaves room in its segment for all of its bytes.
LEMMA RamHolds ==
    ASSUME NEW a \in Nat, NEW n \in Nat, segments \in Segments, RamPointer(a, n) # None
    PROVE  \E i \in DOMAIN segments, k \in Nat :
               RamPointer(a, n) = InRam(i, k) /\ k + n <= segments[i].size
<1> DEFINE o == ramOffset(a, n)
<1>1. o \in Nat \/ o = None
  BY ConstantTypes, MapAssumption DEF ramOffset
<1>2. o # None /\ ramPointerSpan(o, n) # None /\ RamPointer(a, n) = ramPointerSpan(o, n)
  BY DEF RamPointer
<1> HIDE DEF o
<1> DEFINE i == CHOOSE i \in DOMAIN segments : Holds(i, o, n)
<1>3. /\ \E j \in DOMAIN segments : Holds(j, o, n)
      /\ ramPointerSpan(o, n) = InRam(i, o - segments[i].base)
  BY <1>2 DEF ramPointerSpan
<1>4. i \in DOMAIN segments /\ Holds(i, o, n)
  BY <1>3
<1> HIDE DEF i
<1>5. segments[i].base \in Nat /\ segments[i].size \in Nat
  BY <1>4, SegmentType
<1>6. o - segments[i].base \in Nat /\ o - segments[i].base + n <= segments[i].size
  BY <1>1, <1>2, <1>4, <1>5 DEF Holds
<1> QED BY <1>2, <1>3, <1>4, <1>6

\* What a page is cached as is a place with room for a whole page, or nothing.
LEMMA PagesAreInside ==
    ASSUME NEW tag, PageBase(tag) \in Nat, segments \in Segments
    PROVE  /\ ReadPage(tag) \in Places \union {None} /\ WritePage(tag) \in Places \union {None}
           /\ ReadPage(tag) # None => Inside(ReadPage(tag))
           /\ WritePage(tag) # None => Inside(WritePage(tag))
<1> DEFINE rom == RomPointer(PageBase(tag), PageSize)
           ram == RamPointer(PageBase(tag), PageSize)
           k == romPointerForAddress(PageBase(tag), PageSize)
<1>1. rom = None \/ (rom = InImage(k) /\ k \in Nat /\ k + PageSize <= RomSize)
  BY RomHolds, ConstantTypes DEF RomPointer
<1>2. rom # None => rom \in Places /\ Inside(rom)
  <2> HIDE DEF k
  <2> QED BY <1>1 DEF InImage, Places, Inside
<1>3. ram # None => ram \in Places /\ Inside(ram)
  <2> HAVE ram # None
  <2>1. PICK i \in DOMAIN segments, j \in Nat :
            ram = InRam(i, j) /\ j + PageSize <= segments[i].size
    BY RamHolds, ConstantTypes
  <2>2. i \in Nat
    BY DEF Segments
  <2> HIDE DEF ram
  <2> QED BY <2>1, <2>2 DEF InRam, Places, Inside
<1>4. ReadPage(tag) \in {rom, ram} /\ WritePage(tag) \in {ram, None}
  BY DEF ReadPage, WritePage, First
<1> HIDE DEF rom, ram
<1> QED BY <1>2, <1>3, <1>4

----------------------------------------------------------------------------
(* The caches *)

\* Looking a page up for a read leaves a right cache right.
LEMMA ReadFillKeeps ==
    ASSUME segments \in Segments, NEW cache, ReadCacheOK(cache), NEW a \in Addresses, NEW n
    PROVE  ReadCacheOK(fillReadPage(cache, a, n))
<1> DEFINE e == [tag |-> Tag(a), base |-> ReadPage(Tag(a))]
           j == pageCacheIndex(Tag(a))
<1>1. fillReadPage(cache, a, n) \in {cache, [cache EXCEPT ![j] = e]}
  BY DEF fillReadPage, Looked
<1>2. e \in Entries /\ ReadEntryOK(e)
  BY PageTypes, PagesAreInside DEF Entries, ReadEntryOK
<1> HIDE DEF e, j
<1> QED BY <1>1, <1>2 DEF ReadCacheOK

\* Looking a page up for a write leaves a right cache right.
LEMMA WriteFillKeeps ==
    ASSUME segments \in Segments, NEW cache, WriteCacheOK(cache), NEW a \in Addresses, NEW n
    PROVE  WriteCacheOK(fillWritePage(cache, a, n))
<1> DEFINE e == [tag |-> Tag(a), base |-> WritePage(Tag(a))]
           j == pageCacheIndex(Tag(a))
<1>1. fillWritePage(cache, a, n) \in {cache, [cache EXCEPT ![j] = e]}
  BY DEF fillWritePage, Looked
<1>2. e \in Entries /\ WriteEntryOK(e)
  BY PageTypes, PagesAreInside DEF Entries, WriteEntryOK
<1> HIDE DEF e, j
<1> QED BY <1>1, <1>2 DEF WriteCacheOK

\* Reading a byte leaves the cache right,
LEMMA Read8Keeps ==
    ASSUME segments \in Segments, NEW cache, ReadCacheOK(cache), NEW a \in Addresses
    PROVE  ReadCacheOK(palmRead8(cache, a).cache)
<1>1. palmRead8(cache, a).cache = fillReadPage(cache, a, 1)
  BY DEF palmRead8, Access
<1> QED BY <1>1, ReadFillKeeps

\* a word, which may be read as two bytes,
LEMMA Read16Keeps ==
    ASSUME segments \in Segments, NEW cache, ReadCacheOK(cache), NEW a \in Addresses
    PROVE  ReadCacheOK(palmRead16(cache, a).cache)
<1> DEFINE k == fillReadPage(cache, a, 2)
           first == palmRead8(k, a)
           second == palmRead8(first.cache, At(a, 1))
<1>1. palmRead16(cache, a).cache \in {k, second.cache}
  BY DEF palmRead16, Access, Both
<1>2. ReadCacheOK(k)
  BY ReadFillKeeps
<1> HIDE DEF k
<1>3. ReadCacheOK(first.cache)
  BY <1>2, Read8Keeps
<1> HIDE DEF first
<1>4. ReadCacheOK(second.cache)
  BY <1>3, Read8Keeps, NextAddress
<1> HIDE DEF second
<1> QED BY <1>1, <1>2, <1>4

\* a long word, which may be read as two words,
LEMMA Read32Keeps ==
    ASSUME segments \in Segments, NEW cache, ReadCacheOK(cache), NEW a \in Addresses
    PROVE  ReadCacheOK(palmRead32(cache, a).cache)
<1> DEFINE k == fillReadPage(cache, a, 4)
           first == palmRead16(k, a)
           second == palmRead16(first.cache, At(a, 2))
<1>1. palmRead32(cache, a).cache \in {k, second.cache}
  BY DEF palmRead32, Access, Both
<1>2. ReadCacheOK(k)
  BY ReadFillKeeps
<1> HIDE DEF k
<1>3. ReadCacheOK(first.cache)
  BY <1>2, Read16Keeps
<1> HIDE DEF first
<1>4. ReadCacheOK(second.cache)
  BY <1>3, Read16Keeps, NextAddress
<1> HIDE DEF second
<1> QED BY <1>1, <1>2, <1>4

\* and so does fetching an instruction.
LEMMA FetchKeeps ==
    ASSUME segments \in Segments, NEW cache, ReadCacheOK(cache), NEW a \in Addresses
    PROVE  ReadCacheOK(palm_read_instr_16(cache, a).cache)
<1>1. palm_read_instr_16(cache, a).cache = fillReadPage(cache, a, 2)
  BY DEF palm_read_instr_16, Access
<1> QED BY <1>1, ReadFillKeeps

\* Writing a byte leaves the cache right,
LEMMA Write8Keeps ==
    ASSUME segments \in Segments, NEW cache, WriteCacheOK(cache), NEW a \in Addresses
    PROVE  WriteCacheOK(palmWrite8(cache, a).cache)
<1>1. palmWrite8(cache, a).cache = fillWritePage(cache, a, 1)
  BY DEF palmWrite8, Access
<1> QED BY <1>1, WriteFillKeeps

\* a word, which may be written as two bytes,
LEMMA Write16Keeps ==
    ASSUME segments \in Segments, NEW cache, WriteCacheOK(cache), NEW a \in Addresses
    PROVE  WriteCacheOK(palmWrite16(cache, a).cache)
<1> DEFINE k == fillWritePage(cache, a, 2)
           first == palmWrite8(k, a)
           second == palmWrite8(first.cache, At(a, 1))
<1>1. palmWrite16(cache, a).cache \in {k, second.cache}
  BY DEF palmWrite16, Access, Both
<1>2. WriteCacheOK(k)
  BY WriteFillKeeps
<1> HIDE DEF k
<1>3. WriteCacheOK(first.cache)
  BY <1>2, Write8Keeps
<1> HIDE DEF first
<1>4. WriteCacheOK(second.cache)
  BY <1>3, Write8Keeps, NextAddress
<1> HIDE DEF second
<1> QED BY <1>1, <1>2, <1>4

\* and a long word, which may be written as two words.
LEMMA Write32Keeps ==
    ASSUME segments \in Segments, NEW cache, WriteCacheOK(cache), NEW a \in Addresses
    PROVE  WriteCacheOK(palmWrite32(cache, a).cache)
<1> DEFINE k == fillWritePage(cache, a, 4)
           first == palmWrite16(k, a)
           second == palmWrite16(first.cache, At(a, 2))
<1>1. palmWrite32(cache, a).cache \in {k, second.cache}
  BY DEF palmWrite32, Access, Both
<1>2. WriteCacheOK(k)
  BY WriteFillKeeps
<1> HIDE DEF k
<1>3. WriteCacheOK(first.cache)
  BY <1>2, Write16Keeps
<1> HIDE DEF first
<1>4. WriteCacheOK(second.cache)
  BY <1>3, Write16Keeps, NextAddress
<1> HIDE DEF second
<1> QED BY <1>1, <1>2, <1>4

\* Empty caches are right.
LEMMA EmptyIsRight == ReadCacheOK(resetPageCache) /\ WriteCacheOK(resetPageCache)
<1> DEFINE e == [tag |-> None, base |-> None]
<1>1. e \in Entries /\ ReadEntryOK(e) /\ WriteEntryOK(e)
  BY DEF Entries, ReadEntryOK, WriteEntryOK
<1>2. resetPageCache = [i \in CacheIndices |-> e]
  BY DEF resetPageCache
<1> HIDE DEF e
<1> QED BY <1>1, <1>2 DEF ReadCacheOK, WriteCacheOK

----------------------------------------------------------------------------
(* The segments *)

\* The segments lie one behind the other from 0 on, in no more than the RAM.
Tiled == /\ palmRamSizeBytes <= RamSize
         /\ \A i \in DOMAIN segments :
                segments[i].base + segments[i].size <= palmRamSizeBytes
         /\ \A o \in 0 .. palmRamSizeBytes - 1 :
                \E i \in DOMAIN segments : /\ Holds(i, o, 1)
                                           /\ \A j \in DOMAIN segments : Holds(j, o, 1) => j = i

\* What has been allocated is a number of bytes.
LEMMA AllocatedSize ==
    ASSUME segments \in Segments
    PROVE  palmRamSizeBytes \in Nat
<1>1. CASE segments = <<>>
  BY <1>1 DEF palmRamSizeBytes
<1>2. CASE segments # <<>>
  <2>1. Len(segments) \in DOMAIN segments
    BY <1>2 DEF Segments
  <2>2. segments[Len(segments)].base \in Nat /\ segments[Len(segments)].size \in Nat
    BY <2>1, SegmentType
  <2> QED BY <1>2, <2>2 DEF palmRamSizeBytes
<1> QED BY <1>1, <1>2

\* A segment that the heap gives lies behind the others.
LEMMA AllocationTiles ==
    ASSUME segments \in Segments, Tiled, NEW size \in Nat, size <= Remaining, Allocated(size)
    PROVE  segments' \in Segments /\ Tiled'
<1>0. PICK n \in Nat : n = Len(segments)
  BY SegmentType
<1>1. PICK total \in Nat : total = palmRamSizeBytes
  BY AllocatedSize
<1> DEFINE piece == [base |-> total, size |-> size]
<1>2. segments' = Append(segments, piece)
  BY <1>1 DEF Allocated
<1>3. piece \in Pieces /\ piece.base = total /\ piece.size = size
  BY <1>1 DEF Pieces
<1>4. n \in Nat /\ DOMAIN segments = 1 .. n
  BY <1>0, SegmentType
<1> HIDE DEF piece
<1>5. segments' \in Segments
  BY <1>2, <1>3 DEF Segments
<1>6. /\ Len(segments') = n + 1 /\ DOMAIN segments' = 1 .. n + 1
      /\ segments'[n + 1] = piece /\ \A i \in 1 .. n : segments'[i] = segments[i]
  BY <1>0, <1>2, <1>3, <1>4 DEF Segments
<1>7. palmRamSizeBytes' = total + size
  <2>1. segments' # <<>>
    BY <1>4, <1>6
  <2> QED BY <1>3, <1>6, <2>1 DEF palmRamSizeBytes
<1>8. total + size <= RamSize
  BY <1>1, ConstantTypes DEF Remaining
<1>9. \A i \in 1 .. n : /\ segments[i].base \in Nat /\ segments[i].size \in Nat
                        /\ segments[i].base + segments[i].size <= total
  BY <1>1, <1>4, SegmentType DEF Tiled
<1>10. \A i \in DOMAIN segments' : segments'[i].base + segments'[i].size <= total + size
  BY <1>1, <1>3, <1>4, <1>6, <1>9
<1>11. \A o \in Int : /\ Holds(n + 1, o, 1)' <=> o >= total /\ o + 1 <= total + size
                      /\ \A i \in 1 .. n : Holds(i, o, 1)' <=> Holds(i, o, 1)
  BY <1>3, <1>6 DEF Holds
<1>12. ASSUME NEW o \in 0 .. total + size - 1
       PROVE  \E i \in DOMAIN segments' :
                  /\ Holds(i, o, 1)'
                  /\ \A j \in DOMAIN segments' : Holds(j, o, 1)' => j = i
  <2>1. CASE o < total
    <3>1. PICK i \in 1 .. n : /\ Holds(i, o, 1)
                              /\ \A j \in 1 .. n : Holds(j, o, 1) => j = i
      <4>1. o \in 0 .. total - 1
        BY <1>1, <2>1
      <4> QED BY <1>1, <1>4, <4>1 DEF Tiled
    <3>2. ~Holds(n + 1, o, 1)'
      BY <1>1, <1>11, <2>1
    <3>3. i \in DOMAIN segments' /\ Holds(i, o, 1)'
      BY <1>4, <1>6, <1>11, <3>1
    <3>4. ASSUME NEW j \in DOMAIN segments', Holds(j, o, 1)' PROVE j = i
      <4>1. j \in 1 .. n
        BY <1>4, <1>6, <3>2, <3>4
      <4> QED BY <1>11, <3>1, <3>4, <4>1
    <3> QED BY <3>3, <3>4
  <2>2. CASE o >= total
    <3>1. n + 1 \in DOMAIN segments' /\ Holds(n + 1, o, 1)'
      BY <1>1, <1>4, <1>6, <1>11, <2>2
    <3>2. ASSUME NEW j \in DOMAIN segments', Holds(j, o, 1)' PROVE j = n + 1
      <4>1. ASSUME j \in 1 .. n PROVE FALSE
        <5>1. Holds(j, o, 1)
          BY <1>11, <3>2, <4>1
        <5>2. o + 1 <= segments[j].base + segments[j].size
          BY <5>1 DEF Holds
        <5> QED BY <1>1, <1>9, <2>2, <4>1, <5>2
      <4> QED BY <1>4, <1>6, <4>1
    <3> QED BY <3>1, <3>2
  <2> QED BY <1>1, <2>1, <2>2
<1>13. Tiled'
  BY <1>7, <1>8, <1>10, <1>12 DEF Tiled
<1> QED BY <1>5, <1>13

\* No segments tile nothing.
LEMMA NothingTiles ==
    ASSUME segments = <<>>
    PROVE  segments \in Segments /\ Tiled /\ palmRamSizeBytes = 0
  BY ConstantTypes DEF Segments, Tiled, palmRamSizeBytes

\* A cache that is right stays so while the segments stay: each address keeps its meaning.
LEMMA CachesStay ==
    ASSUME segments' = segments,
           NEW CONSTANT r, ReadCacheOK(r), readCache' = r,
           NEW CONSTANT w, WriteCacheOK(w), writeCache' = w
    PROVE  ReadCacheOK(readCache)' /\ WriteCacheOK(writeCache)'
<1>1. ReadCacheOK(readCache)'
  BY DEF ReadCacheOK, ReadEntryOK, ReadPage, RamPointer, RomPointer, ramPointerSpan, Holds,
         Inside
<1>2. WriteCacheOK(writeCache)'
  BY DEF WriteCacheOK, WriteEntryOK, WritePage, RamPointer, RomPointer, ramPointerSpan,
         Holds, Inside
<1> QED BY <1>1, <1>2

----------------------------------------------------------------------------
(* The invariant *)

BootOK == boot \in {"low", "blocks", "ready", "failed"} /\ tried \in Nat
RamOK == segments \in Segments /\ Tiled /\ (Ready => palmRamSizeBytes = RamSize)
CachesOK == /\ ~Ready => readCache = resetPageCache /\ writeCache = resetPageCache
            /\ Ready => ReadCacheOK(readCache) /\ WriteCacheOK(writeCache)
IInv == BootOK /\ RamOK /\ CachesOK

\* A machine that is off satisfies the invariant.
LEMMA StartIsRight ==
    ASSUME Init
    PROVE  IInv
<1>1. BootOK
  BY DEF Init, BootOK
<1>2. RamOK
  BY NothingTiles DEF Init, RamOK, Ready
<1>3. CachesOK
  BY DEF Init, CachesOK, Ready
<1> QED BY <1>1, <1>2, <1>3 DEF IInv

\* The size that is asked for, no more than is missing.
LEMMA SizeTried ==
    ASSUME segments \in Segments, Tiled, NEW sizes \in Seq(Nat \ {0}), NEW k \in Nat,
           k < Len(sizes)
    PROVE  /\ Least(sizes[k + 1], Remaining) \in Nat
           /\ Least(sizes[k + 1], Remaining) <= Remaining
<1>1. Len(sizes) \in Nat /\ \A l \in 1 .. Len(sizes) : sizes[l] \in Nat
  OBVIOUS
<1>2. k + 1 \in 1 .. Len(sizes)
  BY <1>1
<1>3. sizes[k + 1] \in Nat
  BY <1>1, <1>2
<1>4. Remaining \in Nat
  BY AllocatedSize, ConstantTypes DEF Remaining, Tiled
<1> QED BY <1>3, <1>4 DEF Least

\* Allocating the first segment keeps the invariant,
LEMMA LowKeeps ==
    ASSUME IInv, AllocateLow
    PROVE  IInv'
<1>1. ~Ready /\ ~Ready' /\ BootOK'
  BY DEF AllocateLow, Ready, IInv, BootOK
<1>2. CachesOK'
  BY <1>1 DEF IInv, CachesOK, AllocateLow, Caches
<1>3. RamOK'
  <2>1. CASE segments' = segments
    BY <1>1, <2>1 DEF IInv, RamOK, Tiled, palmRamSizeBytes, Holds, Segments
  <2>2. CASE /\ tried < Len(LowSizes)
             /\ Allocated(Least(LowSizes[tried + 1], Remaining))
    <3>1. segments' \in Segments /\ Tiled'
      BY <2>2, SizeTried, AllocationTiles, MemoryAssumption DEF IInv, RamOK, BootOK
    <3> QED BY <1>1, <3>1 DEF RamOK, Segments
  <2> QED BY <2>1, <2>2 DEF AllocateLow
<1> QED BY <1>1, <1>2, <1>3 DEF IInv

\* and so does allocating another,
LEMMA BlockKeeps ==
    ASSUME IInv, AllocateBlock
    PROVE  IInv'
<1>1. ~Ready /\ ~Ready' /\ BootOK'
  BY DEF AllocateBlock, Ready, IInv, BootOK
<1>2. CachesOK'
  BY <1>1 DEF IInv, CachesOK, AllocateBlock, Caches
<1>3. RamOK'
  <2>1. CASE segments' = segments
    BY <1>1, <2>1 DEF IInv, RamOK, Tiled, palmRamSizeBytes, Holds, Segments
  <2>2. CASE Allocated(Least(BlockSizes[tried + 1], Remaining))
    <3>0. tried < Len(BlockSizes)
      BY DEF AllocateBlock, MoreWanted
    <3>1. segments' \in Segments /\ Tiled'
      BY <2>2, <3>0, SizeTried, AllocationTiles, MemoryAssumption DEF IInv, RamOK, BootOK
    <3> QED BY <1>1, <3>1 DEF RamOK, Segments
  <2> QED BY <2>1, <2>2 DEF AllocateBlock
<1> QED BY <1>1, <1>2, <1>3 DEF IInv

\* ending with all of the RAM or with none,
LEMMA EndKeeps ==
    ASSUME IInv, palmMemoryInitEnds
    PROVE  IInv'
<1>1. BootOK'
  BY DEF palmMemoryInitEnds, IInv, BootOK
<1>2. CASE Remaining = 0
  <2>1. segments' = segments /\ Ready'
    BY <1>2 DEF palmMemoryInitEnds, Ready
  <2>2. ReadCacheOK(readCache)' /\ WriteCacheOK(writeCache)'
    BY <2>1, EmptyIsRight, CachesStay DEF palmMemoryInitEnds
  <2>3. palmRamSizeBytes = RamSize
    BY <1>2, AllocatedSize, ConstantTypes DEF Remaining, IInv, RamOK
  <2>4. RamOK'
    BY <2>1, <2>3 DEF IInv, RamOK, Tiled, palmRamSizeBytes, Holds, Segments
  <2>5. CachesOK'
    BY <2>1, <2>2 DEF CachesOK
  <2> QED BY <1>1, <2>4, <2>5 DEF IInv
<1>3. CASE Remaining # 0
  <2>1. segments' = <<>> /\ ~Ready'
    BY <1>3 DEF palmMemoryInitEnds, Ready
  <2>2. Tiled' /\ segments' \in Segments
    BY <2>1, ConstantTypes DEF Segments, Tiled, palmRamSizeBytes
  <2>3. RamOK'
    BY <2>1, <2>2 DEF RamOK, Segments
  <2>4. CachesOK'
    BY <2>1 DEF CachesOK, palmMemoryInitEnds
  <2> QED BY <1>1, <2>3, <2>4 DEF IInv
<1> QED BY <1>2, <1>3

\* and any access: it moves no segment, and the caches it leaves are right.
LEMMA AccessKeeps ==
    ASSUME IInv, Ready, UNCHANGED <<boot, tried, segments>>,
           NEW CONSTANT r, ReadCacheOK(r), readCache' = r,
           NEW CONSTANT w, WriteCacheOK(w), writeCache' = w
    PROVE  IInv'
<1>1. BootOK' /\ Ready'
  BY DEF IInv, BootOK, Ready
<1>2. RamOK'
  BY DEF IInv, RamOK, Tiled, palmRamSizeBytes, Holds, Segments, Ready
<1>3. CachesOK'
  BY <1>1, CachesStay DEF CachesOK
<1> QED BY <1>1, <1>2, <1>3 DEF IInv

\* Reads, fetches and writes of every width keep the invariant.
LEMMA AccessesKeep ==
    ASSUME IInv, NEW a \in Accessed, Fetch(a) \/ \E n \in Widths : Read(a, n) \/ Write(a, n)
    PROVE  IInv'
<1>1. /\ Ready /\ segments \in Segments
      /\ ReadCacheOK(readCache) /\ WriteCacheOK(writeCache) /\ UNCHANGED <<boot, tried, segments>>
  BY DEF Fetch, Read, Write, IInv, RamOK, CachesOK
<1>2. a \in Addresses
  BY MemoryAssumption
<1>3. ReadCacheOK(readCache')
  <2>1. CASE Fetch(a)
    BY <1>1, <1>2, <2>1, FetchKeeps DEF Fetch
  <2>2. CASE \E n \in Widths : Read(a, n)
    <3>1. PICK n \in Widths : Read(a, n)
      BY <2>2
    <3>2. readCache' \in {palmRead8(readCache, a).cache, palmRead16(readCache, a).cache,
                          palmRead32(readCache, a).cache}
      BY <3>1 DEF Read, ReadOf, Widths
    <3> QED BY <1>1, <1>2, <3>2, Read8Keeps, Read16Keeps, Read32Keeps
  <2>3. CASE \E n \in Widths : Write(a, n)
    BY <1>1, <2>3 DEF Write
  <2> QED BY <2>1, <2>2, <2>3
<1>4. WriteCacheOK(writeCache')
  <2>1. CASE Fetch(a) \/ \E n \in Widths : Read(a, n)
    BY <1>1, <2>1 DEF Fetch, Read
  <2>2. CASE \E n \in Widths : Write(a, n)
    <3>1. PICK n \in Widths : Write(a, n)
      BY <2>2
    <3>2. writeCache' \in {palmWrite8(writeCache, a).cache, palmWrite16(writeCache, a).cache,
                           palmWrite32(writeCache, a).cache}
      BY <3>1 DEF Write, WriteOf, Widths
    <3> QED BY <1>1, <1>2, <3>2, Write8Keeps, Write16Keeps, Write32Keeps
  <2> QED BY <2>1, <2>2
<1>5. PICK r, w : r = readCache' /\ w = writeCache'
  OBVIOUS
<1>6. ReadCacheOK(r) /\ WriteCacheOK(w)
  BY <1>3, <1>4, <1>5
<1> QED BY <1>1, <1>5, <1>6, AccessKeeps

\* Nothing changes the invariant when nothing changes.
LEMMA StutterKeeps ==
    ASSUME IInv, UNCHANGED vars
    PROVE  IInv'
<1>1. CASE Ready
  <2>1. PICK r, w : r = readCache /\ w = writeCache
    OBVIOUS
  <2>2. ReadCacheOK(r) /\ WriteCacheOK(w)
    BY <1>1, <2>1 DEF IInv, CachesOK
  <2> QED BY <1>1, <2>1, <2>2, AccessKeeps DEF vars
<1>2. CASE ~Ready
  <2>1. BootOK' /\ ~Ready'
    BY <1>2 DEF IInv, BootOK, Ready, vars
  <2>2. RamOK'
    BY <2>1 DEF IInv, RamOK, Tiled, palmRamSizeBytes, Holds, Segments, vars
  <2>3. CachesOK'
    BY <1>2, <2>1 DEF IInv, CachesOK, vars
  <2> QED BY <2>1, <2>2, <2>3 DEF IInv
<1> QED BY <1>1, <1>2

\* Every step keeps the invariant.
LEMMA StepKeeps ==
    ASSUME IInv, [Next]_vars
    PROVE  IInv'
<1>1. CASE Next
  BY <1>1, LowKeeps, BlockKeeps, EndKeeps, AccessesKeep DEF Next
<1>2. CASE UNCHANGED vars
  BY <1>2, StutterKeeps
<1> QED BY <1>1, <1>2

\* The invariant holds always.
LEMMA InvariantHolds == Spec => []IInv
<1>1. Init => IInv
  BY StartIsRight
<1>2. IInv /\ [Next]_vars => IInv'
  BY StepKeeps
<1> QED BY <1>1, <1>2, PTL DEF Spec

\* Segments and cache entries keep their types, whatever the heap gives and is accessed.
THEOREM TypeCorrect == Spec => []TypeOK
<1>1. IInv => TypeOK
  <2> SUFFICES ASSUME IInv PROVE TypeOK
    OBVIOUS
  <2>1. ReadCacheOK(readCache) /\ WriteCacheOK(writeCache)
    BY EmptyIsRight DEF IInv, CachesOK
  <2> QED BY <2>1
          DEF IInv, BootOK, RamOK, TypeOK, ReadCacheOK, WriteCacheOK, Entries, Segments, Pieces
<1> QED BY <1>1, InvariantHolds, PTL

\* A cached page is always what its address means, and lies in one segment or in the image, for
\* every map, page size, number of entries and way the heap cut the RAM: the pointer arithmetic
\* of cachedReadPointer and cachedWritePointer never leaves the memory it was given.
THEOREM CachesAlwaysCurrent == Spec => []CachesCurrent
<1>1. IInv => CachesCurrent
  <2> SUFFICES ASSUME IInv PROVE CachesCurrent
    OBVIOUS
  <2>1. ReadCacheOK(readCache) /\ WriteCacheOK(writeCache)
    BY EmptyIsRight DEF IInv, CachesOK
  <2> QED BY <2>1 DEF ReadCacheOK, WriteCacheOK, ReadEntryOK, WriteEntryOK, CachesCurrent
<1> QED BY <1>1, InvariantHolds, PTL

\* Once the RAM is ready every offset of it is in exactly one segment, whichever blocks the
\* heap could give in whichever order palmMemoryInit asked for them.
THEOREM SegmentsAlwaysTile == Spec => []SegmentsTile
<1>1. IInv => SegmentsTile
  BY DEF IInv, RamOK, Tiled, SegmentsTile
<1> QED BY <1>1, InvariantHolds, PTL

----------------------------------------------------------------------------
(* Pages: the windows of the ROM are made of whole ones *)

\* A multiple of the page size.
Aligned(x) == x % PageSize = 0

\* The bounds of the windows are.
LEMMA WindowsAligned ==
    /\ Aligned(RomSize) /\ Aligned(RomBase) /\ Aligned(RomLow) /\ Aligned(RomBase24)
    /\ Aligned(RomLow24) /\ Aligned(RomSelect)
  BY PageAssumption DEF Aligned

\* A number is so many times another and a rest.
LEMMA Division ==
    ASSUME NEW a \in Nat, NEW n \in Nat \ {0}
    PROVE  /\ (a \div n) \in Nat /\ (a % n) \in 0 .. n - 1
           /\ a = (a \div n) * n + (a % n)
  OBVIOUS

\* The rest is what one adds to a multiple.
LEMMA Remainder ==
    ASSUME NEW c \in Nat, NEW n \in Nat \ {0}, NEW k \in 0 .. n - 1
    PROVE  c * n \in Nat /\ (c * n + k) % n = k
  OBVIOUS

\* Fewer pages end before more of them begin.
LEMMA FewerPages ==
    ASSUME NEW t \in Nat, NEW q \in Nat, NEW n \in Nat \ {0}, t * n < q * n
    PROVE  t * n + n <= q * n
<1>1. t < q
  OBVIOUS
<1> QED BY <1>1

\* A multiple of the page size is a number of pages.
LEMMA PagesOf ==
    ASSUME NEW x \in Nat, Aligned(x)
    PROVE  \E t \in Nat : x = t * PageSize
<1>1. (x \div PageSize) \in Nat /\ x = (x \div PageSize) * PageSize + (x % PageSize)
  BY Division, ConstantTypes
<1> QED BY <1>1, ConstantTypes DEF Aligned

\* An address lies in its page.
LEMMA PageOf ==
    ASSUME NEW a \in Nat
    PROVE  /\ PageBase(Tag(a)) \in Nat /\ Aligned(PageBase(Tag(a)))
           /\ (a % PageSize) \in 0 .. PageSize - 1
           /\ a = PageBase(Tag(a)) + (a % PageSize)
<1>1. /\ (a \div PageSize) \in Nat /\ (a % PageSize) \in 0 .. PageSize - 1
      /\ a = (a \div PageSize) * PageSize + (a % PageSize)
  BY Division, ConstantTypes
<1>2. PageBase(Tag(a)) = (a \div PageSize) * PageSize
  BY DEF PageBase, Tag
<1>3. 0 \in 0 .. PageSize - 1
  BY ConstantTypes
<1>4. /\ (a \div PageSize) * PageSize \in Nat
      /\ ((a \div PageSize) * PageSize + 0) % PageSize = 0
  BY <1>1, <1>3, Remainder, ConstantTypes
<1> HIDE DEF PageBase, Tag
<1>5. PageBase(Tag(a)) \in Nat /\ (PageBase(Tag(a)) + 0) % PageSize = 0
  BY <1>2, <1>4
<1>6. PageBase(Tag(a)) + 0 = PageBase(Tag(a))
  BY <1>5
<1> QED BY <1>1, <1>2, <1>5, <1>6 DEF Aligned

\* An aligned bound does not cut a page.
LEMMA BoundsCutNoPage ==
    ASSUME NEW x \in Nat, Aligned(x), NEW b \in Nat, Aligned(b), NEW k \in 0 .. PageSize - 1
    PROVE  /\ b + k >= x <=> b >= x
           /\ b < x => b + PageSize <= x
<1>1. PICK t \in Nat : b = t * PageSize
  BY PagesOf
<1>2. PICK q \in Nat : x = q * PageSize
  BY PagesOf
<1>3. b < x => b + PageSize <= x
  BY <1>1, <1>2, FewerPages, ConstantTypes
<1> QED BY <1>3, ConstantTypes

\* Distances and sums of aligned addresses are aligned.
LEMMA AlignedSums ==
    ASSUME NEW x \in Nat, Aligned(x), NEW b \in Nat, Aligned(b)
    PROVE  /\ Aligned(x + b)
           /\ b >= x => Aligned(b - x)
<1>1. PICK t \in Nat : b = t * PageSize
  BY PagesOf
<1>2. PICK q \in Nat : x = q * PageSize
  BY PagesOf
<1>3. ASSUME NEW u \in Nat PROVE Aligned(u * PageSize)
  <2>1. 0 \in 0 .. PageSize - 1
    BY ConstantTypes
  <2>2. u * PageSize \in Nat /\ (u * PageSize + 0) % PageSize = 0
    BY <2>1, Remainder, ConstantTypes
  <2>3. u * PageSize + 0 = u * PageSize
    BY <2>2
  <2> QED BY <2>2, <2>3 DEF Aligned
<1>4. x + b = (t + q) * PageSize
  BY <1>1, <1>2, ConstantTypes
<1>5. Aligned(x + b)
  BY <1>3, <1>4
<1>6. ASSUME b >= x PROVE Aligned(b - x)
  <2>1. t >= q
    <3>1. ASSUME t < q PROVE FALSE
      <4>1. t * PageSize < q * PageSize
        BY <3>1, ConstantTypes
      <4> QED BY <1>1, <1>2, <1>6, <4>1
    <3> QED BY <3>1
  <2>2. b - x = (t - q) * PageSize /\ t - q \in Nat
    BY <1>1, <1>2, <2>1, ConstantTypes
  <2> QED BY <1>3, <2>2
<1> QED BY <1>5, <1>6

\* A window that repeats the image repeats it page by page.
LEMMA ImageRepeatsByPages ==
    ASSUME NEW d \in Nat, Aligned(d), NEW k \in 0 .. PageSize - 1
    PROVE  /\ (d % RomSize) \in Nat /\ (d % RomSize) + PageSize <= RomSize
           /\ (d + k) % RomSize = (d % RomSize) + k
<1> DEFINE c == d \div RomSize
           m == d % RomSize
<1>1. c \in Nat /\ m \in 0 .. RomSize - 1 /\ d = c * RomSize + m
  BY Division, ConstantTypes
<1> HIDE DEF c, m
<1>2. PICK u \in Nat : d = u * PageSize
  BY PagesOf
<1>3. PICK v \in Nat : RomSize = v * PageSize
  BY PagesOf, WindowsAligned, ConstantTypes
<1>4. c * RomSize = (c * v) * PageSize /\ c * v \in Nat
  BY <1>1, <1>3, ConstantTypes
<1>5. m = d - c * RomSize
  BY <1>1, ConstantTypes
<1>6. Aligned(c * RomSize) /\ c * RomSize \in Nat
  <2>1. 0 \in 0 .. PageSize - 1
    BY ConstantTypes
  <2>2. (c * v) * PageSize \in Nat /\ ((c * v) * PageSize + 0) % PageSize = 0
    BY <1>4, <2>1, Remainder, ConstantTypes
  <2>3. (c * v) * PageSize + 0 = (c * v) * PageSize
    BY <2>2
  <2> QED BY <1>4, <2>2, <2>3 DEF Aligned
<1>7. Aligned(m)
  BY <1>1, <1>5, <1>6, AlignedSums
<1>8. m < RomSize
  BY <1>1, ConstantTypes
<1>9. m + PageSize <= RomSize
  BY <1>1, <1>7, <1>8, BoundsCutNoPage, WindowsAligned, ConstantTypes
<1>10. m + k \in 0 .. RomSize - 1
  BY <1>1, <1>9, ConstantTypes
<1>11. (c * RomSize + (m + k)) % RomSize = m + k
  BY <1>1, <1>10, Remainder, ConstantTypes
<1>12. d + k = c * RomSize + (m + k)
  BY <1>1, <1>6
<1> QED BY <1>1, <1>9, <1>11, <1>12 DEF m

\* A window holds a page when it holds one of its bytes, and then the byte in its place.
LEMMA RomPages ==
    ASSUME NEW a \in Nat
    PROVE  LET b == PageBase(Tag(a))
           IN  /\ romPointerForAddress(b, PageSize) = None <=> romPointerForAddress(a, 1) = None
               /\ romPointerForAddress(b, PageSize) # None
                      => romPointerForAddress(a, 1)
                             = romPointerForAddress(b, PageSize) + (a % PageSize)
<1> DEFINE b == PageBase(Tag(a))
           k == a % PageSize
<1>1. b \in Nat /\ Aligned(b) /\ k \in 0 .. PageSize - 1 /\ a = b + k
  BY PageOf
<1> HIDE DEF b, k
<1>2. PageSize <= RomSize
  BY BoundsCutNoPage, WindowsAligned, ConstantTypes DEF Aligned
<1>3. ASSUME NEW base \in {RomBase, RomBase24}
      PROVE  AtBase(base, b, PageSize) <=> AtBase(base, a, 1)
  <2>1. base \in Nat /\ Aligned(base)
    BY WindowsAligned, ConstantTypes
  <2>2. base + RomSize \in Nat /\ Aligned(base + RomSize)
    BY <2>1, AlignedSums, WindowsAligned, ConstantTypes
  <2>3. a >= base <=> b >= base
    BY <1>1, <2>1, BoundsCutNoPage
  <2>4. a >= base + RomSize <=> b >= base + RomSize
    BY <1>1, <2>2, BoundsCutNoPage
  <2>5. b < base + RomSize => b + PageSize <= base + RomSize
    BY <1>1, <2>2, BoundsCutNoPage
  <2> QED BY <1>1, <2>1, <2>3, <2>4, <2>5, ConstantTypes DEF AtBase
<1>4. ASSUME NEW low \in {RomLow, RomLow24}
      PROVE  /\ Repeated(low, b, PageSize) <=> Repeated(low, a, 1)
             /\ Repeated(low, b, PageSize)
                    => (a - low) % RomSize = ((b - low) % RomSize) + k
  <2>1. low \in Nat /\ Aligned(low)
    BY WindowsAligned, ConstantTypes
  <2>2. low + RomSelect \in Nat /\ Aligned(low + RomSelect)
    BY <2>1, AlignedSums, WindowsAligned, ConstantTypes
  <2>3. a >= low <=> b >= low
    BY <1>1, <2>1, BoundsCutNoPage
  <2>4. a >= low + RomSelect <=> b >= low + RomSelect
    BY <1>1, <2>2, BoundsCutNoPage
  <2>5. CASE b < low
    BY <1>1, <2>1, <2>3, <2>5 DEF Repeated
  <2>6. CASE b >= low
    <3> DEFINE d == b - low
    <3>1. d \in Nat /\ Aligned(d)
      BY <1>1, <2>1, <2>6, AlignedSums
    <3>2. a - low = d + k
      BY <1>1, <2>1
    <3> HIDE DEF d
    <3>3. /\ (d % RomSize) \in Nat /\ (d % RomSize) + PageSize <= RomSize
          /\ (d + k) % RomSize = (d % RomSize) + k
      BY <1>1, <3>1, ImageRepeatsByPages
    <3>4. ((d + k) % RomSize) + 1 <= RomSize
      BY <1>1, <3>3, ConstantTypes
    <3>5. Repeated(low, b, PageSize) <=> b < low + RomSelect
      BY <2>6, <1>1, <2>1, <3>3 DEF Repeated, d
    <3>6. Repeated(low, a, 1) <=> a < low + RomSelect
      BY <2>6, <2>3, <1>1, <2>1, <3>2, <3>4 DEF Repeated
    <3>7. (a - low) % RomSize = ((b - low) % RomSize) + k
      BY <3>2, <3>3 DEF d
    <3> QED BY <1>1, <2>2, <2>4, <3>5, <3>6, <3>7
  <2> QED BY <1>1, <2>1, <2>5, <2>6
<1>5. b - RomBase + k = a - RomBase /\ b - RomBase24 + k = a - RomBase24
  BY <1>1, ConstantTypes
<1>6. ~(PageSize > RomSize) /\ ~(1 > RomSize)
  BY <1>2, ConstantTypes
<1>7. \A low \in {RomLow, RomLow24} : ((b - low) % RomSize) \in Int
  BY <1>1, ConstantTypes
<1>8. /\ b - RomBase \in Int /\ b - RomBase24 \in Int
      /\ a - RomBase \in Int /\ a - RomBase24 \in Int
      /\ \A low \in {RomLow, RomLow24} : ((a - low) % RomSize) \in Int
  BY <1>1, ConstantTypes
<1> DEFINE p == romPointerForAddress(b, PageSize)
           q == romPointerForAddress(a, 1)
<1>9. (p = None <=> q = None) /\ (p # None => q = p + k)
  <2>1. CASE AtBase(RomBase, a, 1)
    <3>1. p = b - RomBase /\ q = a - RomBase
      BY <1>3, <1>6, <2>1 DEF romPointerForAddress
    <3> QED BY <1>5, <1>8, <3>1, ConstantTypes
  <2>2. CASE ~AtBase(RomBase, a, 1) /\ AtBase(RomBase24, a, 1)
    <3>1. p = b - RomBase24 /\ q = a - RomBase24
      BY <1>3, <1>6, <2>2 DEF romPointerForAddress
    <3> QED BY <1>5, <1>8, <3>1, ConstantTypes
  <2>3. CASE /\ ~AtBase(RomBase, a, 1) /\ ~AtBase(RomBase24, a, 1)
             /\ Repeated(RomLow, a, 1)
    <3>1. p = (b - RomLow) % RomSize /\ q = (a - RomLow) % RomSize
      BY <1>3, <1>4, <1>6, <2>3 DEF romPointerForAddress
    <3> QED BY <1>4, <1>7, <1>8, <2>3, <3>1, ConstantTypes
  <2>4. CASE /\ ~AtBase(RomBase, a, 1) /\ ~AtBase(RomBase24, a, 1)
             /\ ~Repeated(RomLow, a, 1) /\ Repeated(RomLow24, a, 1)
    <3>1. p = (b - RomLow24) % RomSize /\ q = (a - RomLow24) % RomSize
      BY <1>3, <1>4, <1>6, <2>4 DEF romPointerForAddress
    <3> QED BY <1>4, <1>7, <1>8, <2>4, <3>1, ConstantTypes
  <2>5. CASE /\ ~AtBase(RomBase, a, 1) /\ ~AtBase(RomBase24, a, 1)
             /\ ~Repeated(RomLow, a, 1) /\ ~Repeated(RomLow24, a, 1)
    <3>1. p = None /\ q = None
      BY <1>3, <1>4, <1>6, <2>5 DEF romPointerForAddress
    <3> QED BY <3>1
  <2> QED BY <2>1, <2>2, <2>3, <2>4, <2>5
<1> QED BY <1>9 DEF b, k

----------------------------------------------------------------------------
(* Bytes of a span *)

\* All of the RAM is there.
RamWhole == segments \in Segments /\ Tiled /\ palmRamSizeBytes = RamSize

\* A place in the RAM or in the image is no null pointer.
LEMMA PlacesAreThere ==
    ASSUME NEW k \in Nat
    PROVE  /\ InImage(k) # None
           /\ \A i \in Nat : InRam(i, k) # None
  BY NullAssumption DEF Places, InImage, InRam

\* A place and a distance, and another.
LEMMA PlusAdds ==
    ASSUME NEW p \in Places, NEW j \in Nat, NEW k \in Nat
    PROVE  /\ Plus(p, j) \in Places /\ Plus(p, j) # None
           /\ Plus(Plus(p, j), k) = Plus(p, j + k)
<1>1. Plus(p, j) = [p EXCEPT !.at = @ + j]
  BY DEF Plus
<1>2. Plus(p, j) \in Places
  BY <1>1 DEF Places
<1>3. Plus(Plus(p, j), k) = [[p EXCEPT !.at = @ + j] EXCEPT !.at = @ + k]
  BY <1>1 DEF Plus
<1>4. p.at \in Nat
  BY DEF Places
<1>5. (p.at + j) + k = p.at + (j + k)
  BY <1>4
<1>6. Plus(p, j + k) = [p EXCEPT !.at = @ + (j + k)]
  BY DEF Plus
<1> QED BY <1>2, <1>3, <1>5, <1>6, NullAssumption DEF Places

\* Every offset of the RAM is somewhere.
LEMMA EveryOffsetHeld ==
    ASSUME RamWhole, NEW o \in 0 .. RamSize - 1
    PROVE  ramPointerSpan(o, 1) # None
<1>1. PICK i \in DOMAIN segments : Holds(i, o, 1)
  BY DEF RamWhole, Tiled
<1> DEFINE j == CHOOSE j \in DOMAIN segments : Holds(j, o, 1)
<1>2. j \in DOMAIN segments /\ Holds(j, o, 1)
  BY <1>1
<1>3. ramPointerSpan(o, 1) = InRam(j, o - segments[j].base)
  BY <1>1 DEF ramPointerSpan
<1> HIDE DEF j
<1>4. j \in Nat /\ segments[j].base \in Nat
  BY <1>2, SegmentType DEF RamWhole
<1>5. o - segments[j].base \in Nat
  BY <1>2, <1>4, ConstantTypes DEF Holds
<1> QED BY <1>3, <1>4, <1>5, PlacesAreThere

\* A span is where the segment is that holds it, when one only does.
LEMMA SegmentOf ==
    ASSUME NEW o \in Nat, NEW n \in Nat, NEW i \in DOMAIN segments, Holds(i, o, n),
           \A j \in DOMAIN segments : Holds(j, o, n) => j = i
    PROVE  ramPointerSpan(o, n) = InRam(i, o - segments[i].base)
<1> DEFINE l == CHOOSE j \in DOMAIN segments : Holds(j, o, n)
<1>1. l \in DOMAIN segments /\ Holds(l, o, n)
  OBVIOUS
<1>2. ramPointerSpan(o, n) = InRam(l, o - segments[l].base)
  BY DEF ramPointerSpan
<1> HIDE DEF l
<1> QED BY <1>1, <1>2

\* The bytes of a span that a segment holds are where their own offsets are.
LEMMA SpanHeld ==
    ASSUME RamWhole, NEW o \in Nat, NEW n \in Nat \ {0}, ramPointerSpan(o, n) # None,
           NEW k \in 0 .. n - 1
    PROVE  /\ ramPointerSpan(o, n) \in Places /\ o + n <= RamSize
           /\ ramPointerSpan(o + k, 1) = Plus(ramPointerSpan(o, n), k)
<1> DEFINE i == CHOOSE i \in DOMAIN segments : Holds(i, o, n)
<1>1. /\ \E j \in DOMAIN segments : Holds(j, o, n)
      /\ ramPointerSpan(o, n) = InRam(i, o - segments[i].base)
  BY DEF ramPointerSpan
<1>2. i \in DOMAIN segments /\ Holds(i, o, n)
  BY <1>1
<1> HIDE DEF i
<1>3. i \in Nat /\ segments[i].base \in Nat /\ segments[i].size \in Nat
  BY <1>2, SegmentType DEF RamWhole
<1>4. /\ segments[i].base <= o /\ o + n <= segments[i].base + segments[i].size
      /\ segments[i].base + segments[i].size <= RamSize
  BY <1>2 DEF Holds, RamWhole, Tiled
<1>5. o + k \in 0 .. RamSize - 1 /\ o + n <= RamSize
  BY <1>3, <1>4, ConstantTypes
<1>6. Holds(i, o + k, 1)
  BY <1>3, <1>4 DEF Holds
<1>7. \A j \in DOMAIN segments : Holds(j, o + k, 1) => j = i
  <2>1. PICK l \in DOMAIN segments : \A j \in DOMAIN segments : Holds(j, o + k, 1) => j = l
    BY <1>5 DEF RamWhole, Tiled
  <2> QED BY <1>2, <1>6, <2>1
<1>8. ramPointerSpan(o + k, 1) = InRam(i, o + k - segments[i].base)
  <2> DEFINE c == o + k
  <2>1. c \in Nat /\ 1 \in Nat
    OBVIOUS
  <2>2. Holds(i, c, 1) /\ \A j \in DOMAIN segments : Holds(j, c, 1) => j = i
    BY <1>6, <1>7
  <2> HIDE DEF c
  <2>3. ramPointerSpan(c, 1) = InRam(i, c - segments[i].base)
    BY <1>2, <2>1, <2>2, SegmentOf
  <2> QED BY <1>3, <2>3 DEF c
<1>9. o - segments[i].base \in Nat /\ o + k - segments[i].base = (o - segments[i].base) + k
  BY <1>3, <1>4
<1>10. InRam(i, o - segments[i].base) \in Places
  BY <1>3, <1>9 DEF InRam, Places
<1>11. InRam(i, (o - segments[i].base) + k) = Plus(InRam(i, o - segments[i].base), k)
  BY DEF InRam, Plus
<1> QED BY <1>1, <1>5, <1>8, <1>9, <1>10, <1>11

\* The same of a span at an address, alias or not; it does not reach the last address.
LEMMA RamSpan ==
    ASSUME RamWhole, NEW a \in Nat, NEW n \in Nat \ {0}, RamPointer(a, n) # None,
           NEW k \in 0 .. n - 1
    PROVE  /\ RamPointer(a, n) \in Places /\ a + k < AddressEnd
           /\ ramOffset(a + k, 1) # None
           /\ RamPointer(a + k, 1) = Plus(RamPointer(a, n), k)
<1> DEFINE o == ramOffset(a, n)
<1>1. o # None /\ ramPointerSpan(o, n) # None /\ RamPointer(a, n) = ramPointerSpan(o, n)
  BY DEF RamPointer
<1>2. /\ RamSize \in Nat /\ AliasEnd \in Nat /\ AddressEnd \in Nat /\ RamSize > 0
      /\ RamSize <= AliasEnd - RamSize /\ AliasEnd <= AddressEnd
  BY MapAssumption, ConstantTypes
<1>3. /\ o \in Nat /\ a + n <= AddressEnd
      /\ ramOffset(a + k, 1) = o + k
  <2>1. CASE a + n <= RamSize
    <3>1. o = a
      BY <2>1 DEF ramOffset
    <3>2. (a + k) + 1 <= RamSize /\ a + n <= AddressEnd
      BY <1>2, <2>1
    <3>3. ramOffset(a + k, 1) = a + k
      BY <3>2 DEF ramOffset
    <3> QED BY <3>1, <3>2, <3>3
  <2>2. CASE ~(a + n <= RamSize) /\ a >= AliasEnd - RamSize /\ a + n <= AliasEnd
    <3>1. o = a - (AliasEnd - RamSize)
      BY <2>2 DEF ramOffset
    <3>2. /\ ~((a + k) + 1 <= RamSize) /\ a + k >= AliasEnd - RamSize
          /\ (a + k) + 1 <= AliasEnd /\ a + n <= AddressEnd
          /\ a - (AliasEnd - RamSize) \in Nat
          /\ (a + k) - (AliasEnd - RamSize) = (a - (AliasEnd - RamSize)) + k
      BY <1>2, <2>2
    <3>3. ramOffset(a + k, 1) = (a + k) - (AliasEnd - RamSize)
      BY <3>2 DEF ramOffset
    <3> QED BY <3>1, <3>2, <3>3
  <2> QED BY <1>1, <2>1, <2>2 DEF ramOffset
<1> HIDE DEF o
<1>4. /\ ramPointerSpan(o, n) \in Places
      /\ ramPointerSpan(o + k, 1) = Plus(ramPointerSpan(o, n), k)
  BY <1>1, <1>3, SpanHeld
<1>5. o + k # None
  BY <1>3, ConstantTypes
<1> QED BY <1>1, <1>2, <1>3, <1>4, <1>5 DEF RamPointer

\* An address of the RAM has a pointer.
LEMMA RamIsThere ==
    ASSUME RamWhole, NEW a \in Nat
    PROVE  RamPointer(a, 1) # None <=> ramOffset(a, 1) # None
<1> DEFINE o == ramOffset(a, 1)
<1>1. /\ RamSize \in Nat /\ AliasEnd \in Nat /\ RamSize > 0 /\ RamSize <= AliasEnd - RamSize
  BY MapAssumption, ConstantTypes
<1>2. o # None => o \in 0 .. RamSize - 1
  <2>1. CASE a + 1 <= RamSize
    <3>1. o = a
      BY <2>1 DEF ramOffset
    <3> QED BY <1>1, <2>1, <3>1
  <2>2. CASE ~(a + 1 <= RamSize) /\ a >= AliasEnd - RamSize /\ a + 1 <= AliasEnd
    <3>1. o = a - (AliasEnd - RamSize)
      BY <2>2 DEF ramOffset
    <3>2. a - (AliasEnd - RamSize) \in 0 .. RamSize - 1
      BY <1>1, <2>2
    <3> QED BY <3>1, <3>2
  <2> QED BY <2>1, <2>2 DEF ramOffset
<1> HIDE DEF o
<1>3. o # None => ramPointerSpan(o, 1) # None
  BY <1>2, EveryOffsetHeld
<1> QED BY <1>3 DEF RamPointer, o

\* The place of a byte in the image, or none.
LEMMA RomByteType ==
    ASSUME NEW a \in Nat
    PROVE  /\ RomByte(a) # None => RomByte(a) \in Nat /\ RomByte(a) + 1 <= RomSize
           /\ RomPointer(a, 1) = IF RomByte(a) = None THEN None ELSE InImage(RomByte(a))
  BY RomHolds DEF RomByte, RomPointer

\* Steps from an address add up.
LEMMA AtAdds ==
    ASSUME NEW a \in Addresses, NEW j \in Nat, NEW k \in Nat
    PROVE  At(At(a, j), k) = At(a, j + k) /\ At(a, 0) = a
<1>1. a \in Nat /\ a \in 0 .. AddressEnd - 1
  BY ConstantTypes DEF Addresses
<1> DEFINE c == (a + j) \div AddressEnd
           m == (a + j) % AddressEnd
           d == (m + k) \div AddressEnd
           l == (m + k) % AddressEnd
<1>2. c \in Nat /\ m \in 0 .. AddressEnd - 1 /\ a + j = c * AddressEnd + m
  <2>1. a + j \in Nat
    BY <1>1
  <2> QED BY <2>1, Division, ConstantTypes
<1>3. m \in Nat
  BY <1>2, ConstantTypes
<1>4. d \in Nat /\ l \in 0 .. AddressEnd - 1 /\ m + k = d * AddressEnd + l
  <2> HIDE DEF m
  <2>1. m + k \in Nat
    BY <1>3
  <2> QED BY <2>1, Division, ConstantTypes
<1>5. At(At(a, j), k) = l
  BY DEF At
<1> HIDE DEF c, m, d, l
<1>6. c * AddressEnd \in Nat /\ d * AddressEnd \in Nat
  BY <1>2, <1>4, <1>3, Remainder, ConstantTypes
<1>7. c + d \in Nat /\ (c + d) * AddressEnd = c * AddressEnd + d * AddressEnd
  BY <1>2, <1>4, ConstantTypes
<1>8. a + (j + k) = (c + d) * AddressEnd + l
  BY <1>1, <1>2, <1>3, <1>4, <1>6, <1>7, ConstantTypes
<1>9. ((c + d) * AddressEnd + l) % AddressEnd = l
  BY <1>4, <1>7, Remainder, ConstantTypes
<1>10. At(a, j + k) = l
  BY <1>8, <1>9 DEF At
<1>11. At(a, 0) = a
  <2>1. (0 * AddressEnd + a) % AddressEnd = a
    BY <1>1, Remainder, ConstantTypes
  <2>2. 0 * AddressEnd + a = a /\ a + 0 = a
    BY <1>1, ConstantTypes
  <2> QED BY <2>1, <2>2 DEF At
<1> QED BY <1>5, <1>10, <1>11

\* An address that is not beyond the last one is itself.
LEMMA AtStays ==
    ASSUME NEW a \in Addresses, NEW k \in Nat, a + k < AddressEnd
    PROVE  At(a, k) = a + k
<1>1. a + k \in 0 .. AddressEnd - 1 /\ 0 * AddressEnd + (a + k) = a + k
  BY ConstantTypes DEF Addresses
<1>2. (0 * AddressEnd + (a + k)) % AddressEnd = a + k
  BY <1>1, Remainder, ConstantTypes
<1> QED BY <1>1, <1>2 DEF At

\* What it is for a span to cross no seam.
LEMMA NoSeam ==
    ASSUME NEW a \in Addresses, NEW n \in Nat, ~Seam(a, n), NEW k \in 0 .. n - 1
    PROVE  /\ At(a, k) \in Addresses
           /\ RomByte(At(a, k)) = (IF RomByte(a) = None THEN None ELSE RomByte(a) + k)
           /\ palmHwInRegisterSpace(At(a, k)) <=> palmHwInRegisterSpace(a)
<1>1. At(a, k) \in Addresses
  BY NextAddress
<1>2. CASE k = 0
  <2>1. At(a, k) = a
    BY <1>2, AtAdds
  <2>2. a \in Nat
    BY ConstantTypes DEF Addresses
  <2>3. RomByte(a) # None => RomByte(a) + k = RomByte(a)
    BY <1>2, <2>2, RomByteType
  <2> QED BY <1>1, <2>1, <2>3
<1>3. CASE k # 0
  BY <1>1, <1>3 DEF Seam
<1> QED BY <1>2, <1>3

\* Parts of a long word without a seam have none.
LEMMA SeamParts ==
    ASSUME NEW a \in Addresses
    PROVE  /\ ~Seam(a, 1)
           /\ ~Seam(a, 4) => ~Seam(a, 2) /\ ~Seam(At(a, 2), 2)
<1>1. ~Seam(a, 1)
  BY DEF Seam
<1>2. ASSUME ~Seam(a, 4) PROVE ~Seam(a, 2) /\ ~Seam(At(a, 2), 2)
  <2>1. \A k \in 0 .. 1 : k \in 0 .. 3
    OBVIOUS
  <2>2. ~Seam(a, 2)
    BY <1>2 DEF Seam
  <2>3. At(At(a, 2), 1) = At(a, 3)
    <3>1. At(At(a, 2), 1) = At(a, 2 + 1)
      BY AtAdds
    <3> QED BY <3>1
  <2>4. 2 \in 0 .. 4 - 1 /\ 3 \in 0 .. 4 - 1
    OBVIOUS
  <2>5. /\ RomByte(At(a, 2)) = (IF RomByte(a) = None THEN None ELSE RomByte(a) + 2)
        /\ palmHwInRegisterSpace(At(a, 2)) <=> palmHwInRegisterSpace(a)
    BY <1>2, <2>4, NoSeam
  <2>6. /\ RomByte(At(a, 3)) = (IF RomByte(a) = None THEN None ELSE RomByte(a) + 3)
        /\ palmHwInRegisterSpace(At(a, 3)) <=> palmHwInRegisterSpace(a)
    BY <1>2, <2>4, NoSeam
  <2>7. RomByte(a) # None => RomByte(a) \in Nat
    BY RomByteType, ConstantTypes DEF Addresses
  <2>8. /\ RomByte(At(At(a, 2), 1))
              = (IF RomByte(At(a, 2)) = None THEN None ELSE RomByte(At(a, 2)) + 1)
        /\ palmHwInRegisterSpace(At(At(a, 2), 1)) = palmHwInRegisterSpace(At(a, 2))
    <3>1. CASE RomByte(a) = None
      BY <2>3, <2>5, <2>6, <3>1 DEF palmHwInRegisterSpace
    <3>2. CASE RomByte(a) # None
      <4>1. RomByte(a) + 2 # None /\ RomByte(a) + 3 = (RomByte(a) + 2) + 1
        BY <2>7, <3>2, ConstantTypes
      <4> QED BY <2>3, <2>5, <2>6, <3>2, <4>1 DEF palmHwInRegisterSpace
    <3> QED BY <3>1, <3>2
  <2>9. \A k \in 1 .. 2 - 1 : k = 1
    OBVIOUS
  <2> QED BY <2>2, <2>8, <2>9 DEF Seam
<1> QED BY <1>1, <1>2

\* A span without a seam is in the image if its first byte is, and where that is.
LEMMA RomSpan ==
    ASSUME NEW a \in Addresses, NEW n \in Nat \ {0}, ~Seam(a, n)
    PROVE  romPointerForAddress(a, n) = RomByte(a)
<1> DEFINE r == RomByte(a)
<1>0. a \in Nat
  BY ConstantTypes DEF Addresses
<1>1. CASE r = None
  <2>1. ~(1 > RomSize)
    BY ConstantTypes
  <2>2. /\ ~AtBase(RomBase, a, 1) /\ ~AtBase(RomBase24, a, 1)
        /\ ~Repeated(RomLow, a, 1) /\ ~Repeated(RomLow24, a, 1)
    <3>1. a - RomBase # None /\ a - RomBase24 # None
      BY <1>0, ConstantTypes
    <3>2. Repeated(RomLow, a, 1) => (a - RomLow) % RomSize # None
      BY <1>0, ConstantTypes DEF Repeated
    <3>3. Repeated(RomLow24, a, 1) => (a - RomLow24) % RomSize # None
      BY <1>0, ConstantTypes DEF Repeated
    <3> QED BY <1>1, <2>1, <3>1, <3>2, <3>3 DEF romPointerForAddress, RomByte
  <2>3. /\ AtBase(RomBase, a, n) => AtBase(RomBase, a, 1)
        /\ AtBase(RomBase24, a, n) => AtBase(RomBase24, a, 1)
    BY <1>0, ConstantTypes DEF AtBase
  <2>4. ASSUME NEW low \in {RomLow, RomLow24}, Repeated(low, a, n) PROVE Repeated(low, a, 1)
    <3>1. a - low \in Nat
      BY <1>0, <2>4, ConstantTypes DEF Repeated
    <3>2. ((a - low) % RomSize) \in Nat
      BY <3>1, Division, ConstantTypes
    <3> QED BY <2>4, <3>2, ConstantTypes DEF Repeated
  <2> QED BY <1>1, <2>2, <2>3, <2>4 DEF romPointerForAddress
<1>2. CASE r # None
  <2>1. r \in Nat
    BY <1>0, <1>2, RomByteType
  <2>2. n - 1 \in 0 .. n - 1
    OBVIOUS
  <2>3. RomByte(At(a, n - 1)) = r + (n - 1) /\ At(a, n - 1) \in Nat
    BY <1>2, <2>2, NoSeam, ConstantTypes DEF Addresses
  <2>4. r + (n - 1) # None
    BY <2>1, ConstantTypes
  <2>5. r + (n - 1) + 1 <= RomSize
    BY <2>3, <2>4, RomByteType
  <2>6. r + n <= RomSize /\ ~(n > RomSize) /\ ~(1 > RomSize)
    BY <2>1, <2>5, ConstantTypes
  <2>7. CASE AtBase(RomBase, a, 1)
    <3>1. r = a - RomBase
      BY <2>6, <2>7 DEF romPointerForAddress, RomByte
    <3>2. AtBase(RomBase, a, n)
      BY <1>0, <2>6, <2>7, <3>1, ConstantTypes DEF AtBase
    <3> QED BY <2>6, <3>1, <3>2 DEF romPointerForAddress
  <2>8. CASE ~AtBase(RomBase, a, 1) /\ AtBase(RomBase24, a, 1)
    <3>1. r = a - RomBase24
      BY <2>6, <2>8 DEF romPointerForAddress, RomByte
    <3>2. AtBase(RomBase24, a, n) /\ ~AtBase(RomBase, a, n)
      BY <1>0, <2>6, <2>8, <3>1, ConstantTypes DEF AtBase
    <3> QED BY <2>6, <3>1, <3>2 DEF romPointerForAddress
  <2>9. CASE /\ ~AtBase(RomBase, a, 1) /\ ~AtBase(RomBase24, a, 1)
             /\ Repeated(RomLow, a, 1)
    <3>1. r = (a - RomLow) % RomSize
      BY <2>6, <2>9 DEF romPointerForAddress, RomByte
    <3>2. ~AtBase(RomBase, a, n) /\ ~AtBase(RomBase24, a, n) /\ Repeated(RomLow, a, n)
      BY <1>0, <2>6, <2>9, <3>1, ConstantTypes DEF AtBase, Repeated
    <3> QED BY <2>6, <3>1, <3>2 DEF romPointerForAddress
  <2>10. CASE /\ ~AtBase(RomBase, a, 1) /\ ~AtBase(RomBase24, a, 1)
              /\ ~Repeated(RomLow, a, 1) /\ Repeated(RomLow24, a, 1)
    <3>1. r = (a - RomLow24) % RomSize
      BY <2>6, <2>10 DEF romPointerForAddress, RomByte
    <3>2. /\ ~AtBase(RomBase, a, n) /\ ~AtBase(RomBase24, a, n)
          /\ Repeated(RomLow24, a, n)
      BY <1>0, <2>6, <2>10, <3>1, ConstantTypes DEF AtBase, Repeated
    <3>3. ~Repeated(RomLow, a, n)
      <4>1. RomLow24 + RomSelect <= RomLow
        BY MapAssumption
      <4> QED BY <1>0, <2>10, <4>1, ConstantTypes DEF Repeated
    <3> QED BY <2>6, <3>1, <3>2, <3>3 DEF romPointerForAddress
  <2> QED BY <1>2, <2>6, <2>7, <2>8, <2>9, <2>10 DEF romPointerForAddress, RomByte
<1> QED BY <1>1, <1>2

----------------------------------------------------------------------------
(* Accesses are bytes *)

\* Reads of a page that is found in the cache go where the page is now,
LEMMA ReadFound ==
    ASSUME NEW cache, ReadCacheOK(cache), NEW a \in Addresses, NEW n,
           Found(fillReadPage(cache, a, n), a, n) # None
    PROVE  /\ pageContainsSpan(a, n) /\ ReadPage(Tag(a)) # None
           /\ Found(fillReadPage(cache, a, n), a, n) = Plus(ReadPage(Tag(a)), a % PageSize)
<1> DEFINE j == pageCacheIndex(Tag(a))
           c == fillReadPage(cache, a, n)
<1>1. pageContainsSpan(a, n) /\ c[j].base # None /\ Found(c, a, n) = Plus(c[j].base, a % PageSize)
  BY DEF Found
<1>2. j \in CacheIndices
  BY PageTypes
<1>3. CASE cache[j].tag = Tag(a)
  <2>1. c = cache
    BY <1>3 DEF fillReadPage, Looked
  <2>2. Tag(a) # None
    BY PageTypes, ConstantTypes DEF Tags
  <2>3. cache[j].base = ReadPage(Tag(a))
    BY <1>2, <1>3, <2>2 DEF ReadCacheOK, ReadEntryOK
  <2> QED BY <1>1, <2>1, <2>3
<1>4. CASE cache[j].tag # Tag(a)
  <2>1. c = [cache EXCEPT ![j] = [tag |-> Tag(a), base |-> ReadPage(Tag(a))]]
    BY <1>1, <1>4 DEF fillReadPage, Looked
  <2> HIDE DEF j, c
  <2>2. c[j].base = ReadPage(Tag(a))
    BY <1>2, <2>1 DEF ReadCacheOK
  <2> QED BY <1>1, <2>2 DEF c
<1> QED BY <1>3, <1>4

\* and so do writes.
LEMMA WriteFound ==
    ASSUME NEW cache, WriteCacheOK(cache), NEW a \in Addresses, NEW n,
           Found(fillWritePage(cache, a, n), a, n) # None
    PROVE  /\ pageContainsSpan(a, n) /\ WritePage(Tag(a)) # None
           /\ Found(fillWritePage(cache, a, n), a, n) = Plus(WritePage(Tag(a)), a % PageSize)
<1> DEFINE j == pageCacheIndex(Tag(a))
           c == fillWritePage(cache, a, n)
<1>1. pageContainsSpan(a, n) /\ c[j].base # None /\ Found(c, a, n) = Plus(c[j].base, a % PageSize)
  BY DEF Found
<1>2. j \in CacheIndices
  BY PageTypes
<1>3. CASE cache[j].tag = Tag(a)
  <2>1. c = cache
    BY <1>3 DEF fillWritePage, Looked
  <2>2. Tag(a) # None
    BY PageTypes, ConstantTypes DEF Tags
  <2>3. cache[j].base = WritePage(Tag(a))
    BY <1>2, <1>3, <2>2 DEF WriteCacheOK, WriteEntryOK
  <2> QED BY <1>1, <2>1, <2>3
<1>4. CASE cache[j].tag # Tag(a)
  <2>1. c = [cache EXCEPT ![j] = [tag |-> Tag(a), base |-> WritePage(Tag(a))]]
    BY <1>1, <1>4 DEF fillWritePage, Looked
  <2> HIDE DEF j, c
  <2>2. c[j].base = WritePage(Tag(a))
    BY <1>2, <2>1 DEF WriteCacheOK
  <2> QED BY <1>1, <2>2 DEF c
<1> QED BY <1>3, <1>4

\* A byte of a page that lies in one segment is where its own address says.
LEMMA RamPageBytes ==
    ASSUME RamWhole, NEW a \in Addresses, NEW n \in Nat \ {0}, pageContainsSpan(a, n),
           RamPointer(PageBase(Tag(a)), PageSize) # None, NEW k \in 0 .. n - 1
    PROVE  LET p == Plus(RamPointer(PageBase(Tag(a)), PageSize), a % PageSize)
           IN  /\ p \in Places /\ At(a, k) = a + k
               /\ ramOffset(At(a, k), 1) # None
               /\ RamPointer(At(a, k), 1) = Plus(p, k) /\ Plus(p, k) # None
<1> DEFINE b == PageBase(Tag(a))
           d == a % PageSize
           q == RamPointer(b, PageSize)
<1>0. a \in Nat /\ k \in Nat
  BY ConstantTypes DEF Addresses
<1>1. b \in Nat /\ d \in 0 .. PageSize - 1 /\ a = b + d
  BY <1>0, PageOf
<1>2. d + n <= PageSize
  BY DEF pageContainsSpan
<1> HIDE DEF b, d
<1>3. d + k \in 0 .. PageSize - 1 /\ a + k = b + (d + k) /\ d \in Nat
  BY <1>0, <1>1, <1>2, ConstantTypes
<1> DEFINE e == d + k
<1>4. q # None
  BY DEF b
<1> HIDE DEF e
<1>5. e \in 0 .. PageSize - 1
  BY <1>3 DEF e
<1>6. /\ q \in Places /\ b + e < AddressEnd
      /\ ramOffset(b + e, 1) # None
      /\ RamPointer(b + e, 1) = Plus(q, e)
  BY <1>1, <1>4, <1>5, RamSpan, ConstantTypes
<1> HIDE DEF q
<1>7. a + k = b + e
  BY <1>3 DEF e
<1>8. At(a, k) = a + k
  BY <1>0, <1>6, <1>7, AtStays
<1>9. /\ Plus(q, d) \in Places /\ Plus(Plus(q, d), k) = Plus(q, e) /\ Plus(Plus(q, d), k) # None
  BY <1>0, <1>3, <1>6, PlusAdds DEF e
<1> QED BY <1>6, <1>7, <1>8, <1>9 DEF q, b, d

\* Where a span without a seam is in the image, its bytes are.
LEMMA RomBytes ==
    ASSUME NEW a \in Addresses, NEW n \in Nat \ {0}, ~Seam(a, n), NEW k \in 0 .. n - 1
    PROVE  /\ RomByte(a) = None => RomPointer(At(a, k), 1) = None
           /\ RomByte(a) # None
                  => /\ RomByte(a) \in Nat /\ InImage(RomByte(a)) \in Places
                     /\ RomPointer(At(a, k), 1) = Plus(InImage(RomByte(a)), k)
                     /\ ReadPlace(At(a, k)) = Plus(InImage(RomByte(a)), k)
<1>1. /\ At(a, k) \in Nat /\ a \in Nat
      /\ RomByte(At(a, k)) = (IF RomByte(a) = None THEN None ELSE RomByte(a) + k)
  BY NoSeam, ConstantTypes DEF Addresses
<1>2. RomPointer(At(a, k), 1)
          = IF RomByte(At(a, k)) = None THEN None ELSE InImage(RomByte(At(a, k)))
  BY <1>1, RomByteType
<1>3. ASSUME RomByte(a) # None
      PROVE  /\ RomByte(a) \in Nat /\ InImage(RomByte(a)) \in Places
             /\ RomPointer(At(a, k), 1) = Plus(InImage(RomByte(a)), k)
             /\ ReadPlace(At(a, k)) = Plus(InImage(RomByte(a)), k)
  <2>1. RomByte(a) \in Nat
    BY <1>1, <1>3, RomByteType
  <2>2. RomByte(a) + k \in Nat /\ RomByte(a) + k # None
    BY <2>1, ConstantTypes
  <2>3. RomPointer(At(a, k), 1) = InImage(RomByte(a) + k)
    BY <1>1, <1>2, <1>3, <2>2
  <2>4. InImage(RomByte(a)) \in Places
    BY <2>1 DEF InImage, Places
  <2>5. InImage(RomByte(a) + k) = Plus(InImage(RomByte(a)), k)
    BY DEF InImage, Plus
  <2>6. InImage(RomByte(a) + k) # None
    BY <2>2, PlacesAreThere
  <2> QED BY <2>1, <2>3, <2>4, <2>5, <2>6 DEF ReadPlace, First
<1> QED BY <1>1, <1>2, <1>3

\* Where there is neither ROM nor RAM to a read, and where it is a register, or RAM.
LEMMA ReadPlaces ==
    ASSUME RamWhole, NEW a \in Addresses, RomPointer(a, 1) = None
    PROVE  /\ RamPointer(a, 1) = None => ReadPlace(a) = Elsewhere(a)
           /\ RamPointer(a, 1) # None => ReadPlace(a) = RamPointer(a, 1)
           /\ palmHwInRegisterSpace(a)
                  => RamPointer(a, 1) = None /\ ReadPlace(a) = Outside("register")
<1>1. RomByte(a) = None
  BY PlacesAreThere, RomByteType, ConstantTypes DEF Addresses
<1>2. palmHwInRegisterSpace(a) => RamPointer(a, 1) = None
  BY <1>1, PageAssumption DEF InRom, RomByte, RamPointer
<1> QED BY <1>2 DEF ReadPlace, First, Elsewhere

\* A pointer to a whole span, from the cache or not, is a pointer to each of its bytes.
LEMMA DirectBytes ==
    ASSUME RamWhole, NEW cache, ReadCacheOK(cache), NEW a \in Addresses, NEW n \in Nat \ {0},
           ~Seam(a, n), Direct(fillReadPage(cache, a, n), a, n) # None, NEW k \in 0 .. n - 1
    PROVE  /\ Direct(fillReadPage(cache, a, n), a, n) \in Places
           /\ ReadPlace(At(a, k)) = Plus(Direct(fillReadPage(cache, a, n), a, n), k)
<1> DEFINE c == fillReadPage(cache, a, n)
           f == Found(c, a, n)
           b == PageBase(Tag(a))
<1>0. a \in Nat /\ k \in Nat /\ At(a, k) \in Addresses
  <2>1. k \in Nat
    OBVIOUS
  <2>2. a \in Nat
    BY ConstantTypes DEF Addresses
  <2> QED BY <2>1, <2>2, NextAddress
<1>1. CASE f # None
  <2>1. Direct(c, a, n) = f
    BY <1>1 DEF Direct, First
  <2>2. pageContainsSpan(a, n) /\ ReadPage(Tag(a)) # None
        /\ f = Plus(ReadPage(Tag(a)), a % PageSize)
    BY <1>1, ReadFound
  <2>3. CASE RomPointer(b, PageSize) # None
    <3> DEFINE r == romPointerForAddress(b, PageSize)
               d == a % PageSize
    <3>1. r # None /\ RomPointer(b, PageSize) = InImage(r)
      BY <2>3 DEF RomPointer
    <3>2. RomByte(a) = r + d
      BY <1>0, <3>1, RomPages DEF RomByte
    <3>3. b \in Nat /\ d \in Nat
      BY <1>0, PageOf
    <3>4. r \in Nat
      BY <3>1, <3>3, RomHolds, ConstantTypes
    <3>5. f = Plus(InImage(r), d)
      BY <2>2, <2>3, <3>1 DEF ReadPage, First
    <3> HIDE DEF r, d, f
    <3>6. f = InImage(r + d)
      BY <3>5 DEF InImage, Plus
    <3>7. RomByte(a) # None
      BY <3>2, <3>3, <3>4, ConstantTypes
    <3>8. InImage(RomByte(a)) \in Places /\ ReadPlace(At(a, k)) = Plus(InImage(RomByte(a)), k)
      BY <3>7, RomBytes
    <3>9. f \in Places /\ ReadPlace(At(a, k)) = Plus(f, k)
      BY <3>2, <3>6, <3>8
    <3> QED BY <2>1, <3>9
  <2>4. CASE RomPointer(b, PageSize) = None
    <3>1. RamPointer(b, PageSize) # None /\ f = Plus(RamPointer(b, PageSize), a % PageSize)
      BY <2>2, <2>4 DEF ReadPage, First
    <3>2. /\ f \in Places /\ RamPointer(At(a, k), 1) = Plus(f, k) /\ Plus(f, k) # None
      BY <2>2, <3>1, RamPageBytes
    <3>3. romPointerForAddress(b, PageSize) = None
      <4>1. b \in Nat
        BY <1>0, PageOf
      <4> QED BY <2>4, <4>1, RomHolds, PlacesAreThere, ConstantTypes DEF RomPointer
    <3>4. RomByte(a) = None
      BY <1>0, <3>3, RomPages DEF RomByte
    <3>5. RomPointer(At(a, k), 1) = None
      BY <3>4, RomBytes
    <3>6. ReadPlace(At(a, k)) = RamPointer(At(a, k), 1)
      BY <1>0, <3>2, <3>5, ReadPlaces
    <3> QED BY <2>1, <3>2, <3>6
  <2> QED BY <2>3, <2>4
<1>2. CASE f = None /\ RomPointer(a, n) # None
  <2>1. Direct(c, a, n) = RomPointer(a, n)
    BY <1>2 DEF Direct, First
  <2>2. romPointerForAddress(a, n) = RomByte(a)
    BY RomSpan
  <2>3. RomByte(a) # None /\ RomPointer(a, n) = InImage(RomByte(a))
    BY <1>2, <2>2 DEF RomPointer
  <2>4. InImage(RomByte(a)) \in Places /\ ReadPlace(At(a, k)) = Plus(InImage(RomByte(a)), k)
    BY <2>3, RomBytes
  <2> QED BY <2>1, <2>3, <2>4
<1>3. CASE f = None /\ RomPointer(a, n) = None
  <2>1. Direct(c, a, n) = RamPointer(a, n) /\ RamPointer(a, n) # None
    BY <1>3 DEF Direct, First
  <2>2. /\ RamPointer(a, n) \in Places /\ a + k < AddressEnd
        /\ RamPointer(a + k, 1) = Plus(RamPointer(a, n), k)
    BY <1>0, <2>1, RamSpan
  <2>3. At(a, k) = a + k
    BY <1>0, <2>2, AtStays
  <2>4. RomByte(a) = None
    BY <1>0, <1>3, RomSpan, RomByteType, PlacesAreThere DEF RomPointer
  <2>5. RomPointer(At(a, k), 1) = None
    BY <2>4, RomBytes
  <2>6. Plus(RamPointer(a, n), k) # None
    BY <1>0, <2>2, PlusAdds
  <2>7. ReadPlace(At(a, k)) = RamPointer(At(a, k), 1)
    BY <1>0, <2>2, <2>3, <2>5, <2>6, ReadPlaces
  <2> QED BY <2>1, <2>2, <2>3, <2>7
<1> QED BY <1>1, <1>2, <1>3

\* Without one the bytes are not in the ROM, nor together in the RAM.
LEMMA NotDirect ==
    ASSUME NEW cache, NEW a \in Addresses, NEW n \in Nat \ {0}, ~Seam(a, n),
           Direct(cache, a, n) = None
    PROVE  /\ Found(cache, a, n) = None /\ RomPointer(a, n) = None /\ RamPointer(a, n) = None
           /\ \A k \in 0 .. n - 1 : RomPointer(At(a, k), 1) = None
<1>1. Found(cache, a, n) = None /\ RomPointer(a, n) = None /\ RamPointer(a, n) = None
  BY DEF Direct, First
<1>2. RomByte(a) = None
  BY <1>1, RomSpan, RomByteType, PlacesAreThere, ConstantTypes DEF RomPointer, Addresses
<1> QED BY <1>1, <1>2, RomBytes

\* Two bytes, one behind the other, and two words.
LEMMA Joined ==
    ASSUME NEW u, NEW v, NEW x, NEW y
    PROVE  /\ <<u>> \o <<v>> = <<u, v>>
           /\ <<u, v>> \o <<x, y>> = <<u, v, x, y>>
<1> DEFINE X == {u, v, x, y}
           s == <<u, v>> \o <<x, y>>
           t == <<u, v, x, y>>
           p == <<u>> \o <<v>>
           q == <<u, v>>
<1>1. /\ s \in Seq(X) /\ Len(s) = 4
      /\ s[1] = u /\ s[2] = v /\ s[3] = x /\ s[4] = y
  OBVIOUS
<1>2. p \in Seq(X) /\ Len(p) = 2 /\ p[1] = u /\ p[2] = v
  OBVIOUS
<1>3. /\ t \in Seq(X) /\ Len(t) = 4 /\ t[1] = u /\ t[2] = v /\ t[3] = x /\ t[4] = y
      /\ q \in Seq(X) /\ Len(q) = 2 /\ q[1] = u /\ q[2] = v
  OBVIOUS
<1> HIDE DEF s, t, p, q, X
<1>4. \A i \in 1 .. Len(s) : s[i] = t[i]
  BY <1>1, <1>3
<1>5. \A i \in 1 .. Len(p) : p[i] = q[i]
  BY <1>2, <1>3
<1>6. s = t
  BY <1>1, <1>3, <1>4, SeqEqual
<1>7. p = q
  BY <1>2, <1>3, <1>5, SeqEqual
<1> QED BY <1>6, <1>7 DEF s, t, p, q

\* A byte read is the byte at its address,
LEMMA Read8Bytes ==
    ASSUME RamWhole, NEW cache, ReadCacheOK(cache), NEW a \in Addresses
    PROVE  palmRead8(cache, a).places = <<ReadPlace(a)>>
<1> DEFINE c == fillReadPage(cache, a, 1)
           p == Direct(c, a, 1)
<1>1. ~Seam(a, 1) /\ At(a, 0) = a /\ 0 \in 0 .. 1 - 1
  BY SeamParts, AtAdds
<1>2. palmRead8(cache, a).places = <<First(p, Elsewhere(a))>>
  BY DEF palmRead8, Access
<1>3. CASE p # None
  <2>1. p \in Places /\ ReadPlace(At(a, 0)) = Plus(p, 0)
    BY <1>1, <1>3, DirectBytes
  <2> HIDE DEF p
  <2>2. Plus(p, 0) = p
    BY <2>1 DEF Plus, Places
  <2> QED BY <1>1, <1>2, <1>3, <2>1, <2>2 DEF First
<1>4. CASE p = None
  <2>1. RomPointer(a, 1) = None /\ RamPointer(a, 1) = None
    BY <1>1, <1>4, NotDirect
  <2> QED BY <1>2, <1>4, <2>1, ReadPlaces DEF First
<1> QED BY <1>3, <1>4

\* Two bytes of the RAM read or written one by one.
LEMMA RamBytes ==
    ASSUME RamWhole, NEW a \in Addresses, BothInRam(a)
    PROVE  /\ At(a, 1) \in Addresses /\ ramOffset(a, 1) # None /\ ramOffset(At(a, 1), 1) # None
           /\ RamPointer(a, 1) # None /\ RamPointer(At(a, 1), 1) # None
<1>1. At(a, 1) \in Addresses
  BY NextAddress
<1> QED BY <1>1, RamIsThere, ConstantTypes DEF BothInRam, Addresses

\* a word read is the bytes at its addresses,
LEMMA Read16Bytes ==
    ASSUME RamWhole, NEW cache, ReadCacheOK(cache), NEW a \in Addresses, ~Seam(a, 2)
    PROVE  palmRead16(cache, a).places = <<ReadPlace(a), ReadPlace(At(a, 1))>>
<1> DEFINE c == fillReadPage(cache, a, 2)
           p == Direct(c, a, 2)
           b == At(a, 1)
<1>1. At(a, 0) = a /\ 0 \in 0 .. 2 - 1 /\ 1 \in 0 .. 2 - 1
  BY AtAdds
<1>2. b \in Addresses
  BY NextAddress
<1>3. CASE p # None
  <2>1. palmRead16(cache, a).places = Run(p, 2)
    BY <1>3 DEF palmRead16, Access
  <2>2. Run(p, 2) = <<Plus(p, 0), Plus(p, 1)>>
    BY DEF Run
  <2>3. ReadPlace(a) = Plus(p, 0) /\ ReadPlace(b) = Plus(p, 1)
    BY <1>1, <1>3, DirectBytes
  <2> QED BY <2>1, <2>2, <2>3
<1>4. CASE p = None
  <2>1. RomPointer(a, 1) = None /\ RomPointer(b, 1) = None
    BY <1>1, <1>4, NotDirect
  <2>2. CASE palmHwInRegisterSpace(a)
    <3>1. palmHwInRegisterSpace(b)
      BY <1>1, <2>2, NoSeam
    <3>2. ReadPlace(a) = Outside("register") /\ ReadPlace(b) = Outside("register")
      BY <1>2, <2>1, <2>2, <3>1, ReadPlaces
    <3> QED BY <1>4, <2>2, <3>2 DEF palmRead16, Access
  <2>3. CASE ~palmHwInRegisterSpace(a) /\ BothInRam(a)
    <3>1. ReadPlace(a) = RamPointer(a, 1) /\ ReadPlace(b) = RamPointer(b, 1)
      BY <1>2, <2>1, <2>3, ReadPlaces, RamBytes
    <3> QED BY <1>4, <2>3, <3>1 DEF palmRead16, Access, ByteByByte
  <2>4. CASE ~palmHwInRegisterSpace(a) /\ ~BothInRam(a)
    <3> DEFINE first == palmRead8(c, a)
               second == palmRead8(first.cache, b)
    <3>1. palmRead16(cache, a).places = first.places \o second.places
      BY <1>4, <2>4 DEF palmRead16, Access, Both
    <3>2. segments \in Segments
      BY DEF RamWhole
    <3>3. ReadCacheOK(c)
      BY <3>2, ReadFillKeeps
    <3> HIDE DEF c
    <3>4. first.places = <<ReadPlace(a)>> /\ ReadCacheOK(first.cache)
      BY <3>2, <3>3, Read8Bytes, Read8Keeps
    <3> HIDE DEF first
    <3>5. second.places = <<ReadPlace(b)>>
      BY <1>2, <3>4, Read8Bytes
    <3> HIDE DEF second, b
    <3> QED BY <3>1, <3>4, <3>5, Joined DEF b
  <2> QED BY <2>2, <2>3, <2>4
<1> QED BY <1>3, <1>4

\* and so is a long word.
LEMMA Read32Bytes ==
    ASSUME RamWhole, NEW cache, ReadCacheOK(cache), NEW a \in Addresses, ~Seam(a, 4)
    PROVE  palmRead32(cache, a).places
               = <<ReadPlace(a), ReadPlace(At(a, 1)), ReadPlace(At(a, 2)), ReadPlace(At(a, 3))>>
<1> DEFINE c == fillReadPage(cache, a, 4)
           p == Direct(c, a, 4)
           b == At(a, 2)
<1>1. /\ At(a, 0) = a /\ 0 \in 0 .. 4 - 1 /\ 1 \in 0 .. 4 - 1 /\ 2 \in 0 .. 4 - 1
      /\ 3 \in 0 .. 4 - 1
  BY AtAdds
<1>2. b \in Addresses
  BY NextAddress
<1>3. CASE p # None
  <2>1. palmRead32(cache, a).places = Run(p, 4)
    BY <1>3 DEF palmRead32, Access
  <2>2. Run(p, 4) = <<Plus(p, 0), Plus(p, 1), Plus(p, 2), Plus(p, 3)>>
    BY DEF Run
  <2>3. /\ ReadPlace(a) = Plus(p, 0) /\ ReadPlace(At(a, 1)) = Plus(p, 1)
        /\ ReadPlace(At(a, 2)) = Plus(p, 2) /\ ReadPlace(At(a, 3)) = Plus(p, 3)
    BY <1>1, <1>3, DirectBytes
  <2> QED BY <2>1, <2>2, <2>3
<1>4. CASE p = None
  <2> DEFINE first == palmRead16(c, a)
             second == palmRead16(first.cache, b)
  <2>1. palmRead32(cache, a).places = first.places \o second.places
    BY <1>4 DEF palmRead32, Access, Both
  <2>2. segments \in Segments /\ ~Seam(a, 2) /\ ~Seam(b, 2)
    BY SeamParts DEF RamWhole
  <2>3. ReadCacheOK(c)
    BY <2>2, ReadFillKeeps
  <2> HIDE DEF c
  <2>4. /\ first.places = <<ReadPlace(a), ReadPlace(At(a, 1))>>
        /\ ReadCacheOK(first.cache)
    BY <2>2, <2>3, Read16Bytes, Read16Keeps
  <2> HIDE DEF first
  <2>5. second.places = <<ReadPlace(b), ReadPlace(At(b, 1))>>
    BY <1>2, <2>2, <2>4, Read16Bytes
  <2>6. At(b, 1) = At(a, 3)
    <3>1. At(b, 1) = At(a, 2 + 1)
      BY AtAdds
    <3> QED BY <3>1
  <2> HIDE DEF second
  <2>7. second.places = <<ReadPlace(b), ReadPlace(At(a, 3))>>
    BY <2>5, <2>6
  <2> HIDE DEF b
  <2>8. <<ReadPlace(a), ReadPlace(At(a, 1))>> \o <<ReadPlace(b), ReadPlace(At(a, 3))>>
            = <<ReadPlace(a), ReadPlace(At(a, 1)), ReadPlace(b), ReadPlace(At(a, 3))>>
    BY Joined
  <2> QED BY <2>1, <2>4, <2>7, <2>8 DEF b
<1> QED BY <1>3, <1>4

\* A word with memory behind it is fetched from where it is read.
LEMMA FetchBytes ==
    ASSUME RamWhole, NEW cache, NEW a \in Addresses, ~Seam(a, 2), InRom(a) \/ BothInRam(a)
    PROVE  palm_read_instr_16(cache, a).places = palmRead16(cache, a).places
<1> DEFINE c == fillReadPage(cache, a, 2)
           f == Found(c, a, 2)
           rom == RomPointer(a, 2)
           ram == RamPointer(a, 2)
<1>1. CASE First(f, rom) # None
  <2>1. First(f, rom) = First(f, First(rom, ram))
    BY <1>1 DEF First
  <2> QED BY <1>1, <2>1 DEF palm_read_instr_16, palmRead16, Direct, Access
<1>2. CASE First(f, rom) = None
  <2>1. f = None /\ rom = None
    BY <1>2 DEF First
  <2>2. RomByte(a) = None
    BY <2>1, RomSpan, RomByteType, PlacesAreThere, ConstantTypes DEF RomPointer, Addresses
  <2>3. BothInRam(a) /\ ramOffset(a, 1) # None
    BY <2>2 DEF RomByte, InRom, BothInRam
  <2>4. ~palmHwInRegisterSpace(a)
    BY <2>2, <2>3, PageAssumption DEF InRom, RomByte
  <2>5. Direct(c, a, 2) = ram
    BY <2>1 DEF Direct, First
  <2> QED BY <1>2, <2>3, <2>4, <2>5 DEF palm_read_instr_16, palmRead16, Access
<1> QED BY <1>1, <1>2

\* What a write to the RAM needs: no ROM and no register there.
LEMMA WritePlaces ==
    ASSUME NEW a \in Addresses, NEW n \in Nat \ {0}, ~Seam(a, n), NEW k \in 0 .. n - 1
    PROVE  /\ At(a, k) \in Addresses
           /\ palmHwInRegisterSpace(a) \/ InRom(a) => WritePlace(At(a, k)) = Outside("open")
           /\ ~palmHwInRegisterSpace(a) /\ ~InRom(a)
                  => WritePlace(At(a, k)) = First(RamPointer(At(a, k), 1), Outside("open"))
<1>1. /\ At(a, k) \in Addresses
      /\ RomByte(At(a, k)) = (IF RomByte(a) = None THEN None ELSE RomByte(a) + k)
      /\ palmHwInRegisterSpace(At(a, k)) <=> palmHwInRegisterSpace(a)
  BY NoSeam
<1>2. RomByte(a) # None => RomByte(a) + k # None
  BY RomByteType, ConstantTypes DEF Addresses
<1>3. InRom(At(a, k)) <=> InRom(a)
  BY <1>1, <1>2 DEF InRom, RomByte
<1> QED BY <1>1, <1>3 DEF WritePlace

\* A pointer into the RAM that a write uses, from the cache or not, is one to each byte,
LEMMA RamWritten ==
    ASSUME RamWhole, NEW a \in Addresses, NEW n \in Nat \ {0}, ~Seam(a, n),
           ~palmHwInRegisterSpace(a), ~InRom(a), RamPointer(a, n) # None, NEW k \in 0 .. n - 1
    PROVE  /\ RamPointer(a, n) \in Places
           /\ WritePlace(At(a, k)) = Plus(RamPointer(a, n), k)
<1>0. a \in Nat /\ k \in Nat
  BY ConstantTypes DEF Addresses
<1>1. /\ RamPointer(a, n) \in Places /\ a + k < AddressEnd
      /\ RamPointer(a + k, 1) = Plus(RamPointer(a, n), k)
  BY <1>0, RamSpan
<1>2. At(a, k) = a + k
  BY <1>0, <1>1, AtStays
<1>3. Plus(RamPointer(a, n), k) # None
  BY <1>0, <1>1, PlusAdds
<1> QED BY <1>1, <1>2, <1>3, WritePlaces DEF First

\* and a page that is cached for writes is RAM.
LEMMA PageWritten ==
    ASSUME RamWhole, NEW cache, WriteCacheOK(cache), NEW a \in Addresses, NEW n \in Nat \ {0},
           ~Seam(a, n), Found(fillWritePage(cache, a, n), a, n) # None, NEW k \in 0 .. n - 1
    PROVE  /\ Found(fillWritePage(cache, a, n), a, n) \in Places
           /\ WritePlace(At(a, k)) = Plus(Found(fillWritePage(cache, a, n), a, n), k)
<1> DEFINE f == Found(fillWritePage(cache, a, n), a, n)
           b == PageBase(Tag(a))
<1>0. a \in Nat /\ b \in Nat
  BY PageOf, ConstantTypes DEF Addresses
<1>1. /\ pageContainsSpan(a, n) /\ WritePage(Tag(a)) # None
      /\ f = Plus(WritePage(Tag(a)), a % PageSize)
  BY WriteFound
<1>2. RomPointer(b, PageSize) = None /\ WritePage(Tag(a)) = RamPointer(b, PageSize)
  BY <1>1 DEF WritePage
<1>3. romPointerForAddress(b, PageSize) = None
  BY <1>0, <1>2, RomHolds, PlacesAreThere, ConstantTypes DEF RomPointer
<1>4. ~InRom(a)
  BY <1>0, <1>3, RomPages DEF InRom
<1>5. /\ f \in Places /\ RamPointer(At(a, k), 1) = Plus(f, k) /\ Plus(f, k) # None
  BY <1>1, <1>2, RamPageBytes
<1>6. 0 \in 0 .. n - 1 /\ At(a, 0) = a
  BY AtAdds
<1>7. ramOffset(a, 1) # None
  BY <1>1, <1>2, <1>6, RamPageBytes
<1>8. ~palmHwInRegisterSpace(a)
  BY <1>4, <1>7, PageAssumption
<1> QED BY <1>4, <1>5, <1>8, WritePlaces DEF First

\* A byte written is the byte at its address,
LEMMA Write8Bytes ==
    ASSUME RamWhole, NEW cache, WriteCacheOK(cache), NEW a \in Addresses
    PROVE  palmWrite8(cache, a).places = <<WritePlace(a)>>
<1> DEFINE p == Found(fillWritePage(cache, a, 1), a, 1)
<1>1. ~Seam(a, 1) /\ At(a, 0) = a /\ 0 \in 0 .. 1 - 1
  BY SeamParts, AtAdds
<1>2. CASE p # None
  <2>1. p \in Places /\ WritePlace(At(a, 0)) = Plus(p, 0)
    BY <1>1, <1>2, PageWritten
  <2>2. palmWrite8(cache, a).places = <<p>>
    BY <1>2 DEF palmWrite8, Access
  <2> HIDE DEF p
  <2>3. Plus(p, 0) = p
    BY <2>1 DEF Plus, Places
  <2> QED BY <1>1, <2>1, <2>2, <2>3
<1>3. CASE p = None /\ (palmHwInRegisterSpace(a) \/ InRom(a))
  <2>1. palmWrite8(cache, a).places = Nowhere(1)
    BY <1>3 DEF palmWrite8, Access
  <2>2. Nowhere(1) = <<Outside("open")>>
    BY DEF Nowhere
  <2> QED BY <1>3, <2>1, <2>2 DEF WritePlace
<1>4. CASE p = None /\ ~palmHwInRegisterSpace(a) /\ ~InRom(a)
  BY <1>4 DEF palmWrite8, Access, WritePlace
<1> QED BY <1>2, <1>3, <1>4

\* a word written is the bytes at its addresses,
LEMMA Write16Bytes ==
    ASSUME RamWhole, NEW cache, WriteCacheOK(cache), NEW a \in Addresses, ~Seam(a, 2)
    PROVE  palmWrite16(cache, a).places = <<WritePlace(a), WritePlace(At(a, 1))>>
<1> DEFINE c == fillWritePage(cache, a, 2)
           p == Found(c, a, 2)
           b == At(a, 1)
           ram == RamPointer(a, 2)
<1>1. At(a, 0) = a /\ 0 \in 0 .. 2 - 1 /\ 1 \in 0 .. 2 - 1
  BY AtAdds
<1>2. b \in Addresses
  BY NextAddress
<1>3. ASSUME NEW q PROVE Run(q, 2) = <<Plus(q, 0), Plus(q, 1)>>
  BY DEF Run
<1>4. CASE p # None
  <2>1. palmWrite16(cache, a).places = Run(p, 2)
    BY <1>4 DEF palmWrite16, Access
  <2>2. WritePlace(a) = Plus(p, 0) /\ WritePlace(b) = Plus(p, 1)
    BY <1>1, <1>4, PageWritten
  <2> QED BY <1>3, <2>1, <2>2
<1>5. CASE p = None /\ (palmHwInRegisterSpace(a) \/ InRom(a))
  <2>1. palmWrite16(cache, a).places = Nowhere(2)
    BY <1>5 DEF palmWrite16, Access
  <2>2. Nowhere(2) = <<Outside("open"), Outside("open")>>
    BY DEF Nowhere
  <2>3. WritePlace(a) = Outside("open") /\ WritePlace(b) = Outside("open")
    BY <1>1, <1>5, WritePlaces
  <2> QED BY <2>1, <2>2, <2>3
<1>6. CASE p = None /\ ~palmHwInRegisterSpace(a) /\ ~InRom(a)
  <2>1. /\ WritePlace(a) = First(RamPointer(a, 1), Outside("open"))
        /\ WritePlace(b) = First(RamPointer(b, 1), Outside("open"))
    BY <1>1, <1>6, WritePlaces
  <2>2. CASE ram # None
    <3>1. palmWrite16(cache, a).places = Run(ram, 2)
      BY <1>6, <2>2 DEF palmWrite16, Access
    <3>2. WritePlace(a) = Plus(ram, 0) /\ WritePlace(b) = Plus(ram, 1)
      BY <1>1, <1>6, <2>2, RamWritten
    <3> QED BY <1>3, <3>1, <3>2
  <2>3. CASE ram = None /\ BothInRam(a)
    <3>1. palmWrite16(cache, a).places = ByteByByte(a)
      BY <1>6, <2>3 DEF palmWrite16, Access
    <3>2. RamPointer(a, 1) # None /\ RamPointer(b, 1) # None
      BY <2>3, RamBytes
    <3> QED BY <2>1, <3>1, <3>2 DEF ByteByByte, First
  <2>4. CASE ram = None /\ ~BothInRam(a)
    <3> DEFINE first == palmWrite8(c, a)
               second == palmWrite8(first.cache, b)
    <3>1. palmWrite16(cache, a).places = first.places \o second.places
      BY <1>6, <2>4 DEF palmWrite16, Access, Both
    <3>2. segments \in Segments
      BY DEF RamWhole
    <3>3. WriteCacheOK(c)
      BY <3>2, WriteFillKeeps
    <3> HIDE DEF c
    <3>4. first.places = <<WritePlace(a)>> /\ WriteCacheOK(first.cache)
      BY <3>2, <3>3, Write8Bytes, Write8Keeps
    <3> HIDE DEF first
    <3>5. second.places = <<WritePlace(b)>>
      BY <1>2, <3>4, Write8Bytes
    <3> HIDE DEF second, b
    <3> QED BY <3>1, <3>4, <3>5, Joined DEF b
  <2> QED BY <2>2, <2>3, <2>4
<1> QED BY <1>4, <1>5, <1>6

\* and so is a long word.
LEMMA Write32Bytes ==
    ASSUME RamWhole, NEW cache, WriteCacheOK(cache), NEW a \in Addresses, ~Seam(a, 4)
    PROVE  palmWrite32(cache, a).places
               = <<WritePlace(a), WritePlace(At(a, 1)), WritePlace(At(a, 2)),
                   WritePlace(At(a, 3))>>
<1> DEFINE c == fillWritePage(cache, a, 4)
           p == Found(c, a, 4)
           b == At(a, 2)
           ram == RamPointer(a, 4)
<1>1. /\ At(a, 0) = a /\ 0 \in 0 .. 4 - 1 /\ 1 \in 0 .. 4 - 1 /\ 2 \in 0 .. 4 - 1
      /\ 3 \in 0 .. 4 - 1
  BY AtAdds
<1>2. b \in Addresses
  BY NextAddress
<1>3. ASSUME NEW q PROVE Run(q, 4) = <<Plus(q, 0), Plus(q, 1), Plus(q, 2), Plus(q, 3)>>
  BY DEF Run
<1>4. CASE p # None
  <2>1. palmWrite32(cache, a).places = Run(p, 4)
    BY <1>4 DEF palmWrite32, Access
  <2>2. /\ WritePlace(a) = Plus(p, 0) /\ WritePlace(At(a, 1)) = Plus(p, 1)
        /\ WritePlace(b) = Plus(p, 2) /\ WritePlace(At(a, 3)) = Plus(p, 3)
    BY <1>1, <1>4, PageWritten
  <2> QED BY <1>3, <2>1, <2>2
<1>5. CASE p = None /\ (palmHwInRegisterSpace(a) \/ InRom(a))
  <2>1. palmWrite32(cache, a).places = Nowhere(4)
    BY <1>5 DEF palmWrite32, Access
  <2>2. Nowhere(4) = <<Outside("open"), Outside("open"), Outside("open"), Outside("open")>>
    BY DEF Nowhere
  <2>3. /\ WritePlace(a) = Outside("open") /\ WritePlace(At(a, 1)) = Outside("open")
        /\ WritePlace(b) = Outside("open") /\ WritePlace(At(a, 3)) = Outside("open")
    BY <1>1, <1>5, WritePlaces
  <2> QED BY <2>1, <2>2, <2>3
<1>6. CASE p = None /\ ~palmHwInRegisterSpace(a) /\ ~InRom(a)
  <2>1. CASE ram # None
    <3>1. palmWrite32(cache, a).places = Run(ram, 4)
      BY <1>6, <2>1 DEF palmWrite32, Access
    <3>2. /\ WritePlace(a) = Plus(ram, 0) /\ WritePlace(At(a, 1)) = Plus(ram, 1)
          /\ WritePlace(b) = Plus(ram, 2) /\ WritePlace(At(a, 3)) = Plus(ram, 3)
      BY <1>1, <1>6, <2>1, RamWritten
    <3> QED BY <1>3, <3>1, <3>2
  <2>2. CASE ram = None
    <3> DEFINE first == palmWrite16(c, a)
               second == palmWrite16(first.cache, b)
    <3>1. palmWrite32(cache, a).places = first.places \o second.places
      BY <1>6, <2>2 DEF palmWrite32, Access, Both
    <3>2. segments \in Segments /\ ~Seam(a, 2) /\ ~Seam(b, 2)
      BY SeamParts DEF RamWhole
    <3>3. WriteCacheOK(c)
      BY <3>2, WriteFillKeeps
    <3> HIDE DEF c
    <3>4. /\ first.places = <<WritePlace(a), WritePlace(At(a, 1))>>
          /\ WriteCacheOK(first.cache)
      BY <3>2, <3>3, Write16Bytes, Write16Keeps
    <3> HIDE DEF first
    <3>5. second.places = <<WritePlace(b), WritePlace(At(b, 1))>>
      BY <1>2, <3>2, <3>4, Write16Bytes
    <3>6. At(b, 1) = At(a, 3)
      <4>1. At(b, 1) = At(a, 2 + 1)
        BY AtAdds
      <4> QED BY <4>1
    <3> HIDE DEF second
    <3>7. second.places = <<WritePlace(b), WritePlace(At(a, 3))>>
      BY <3>5, <3>6
    <3> HIDE DEF b
    <3>8. <<WritePlace(a), WritePlace(At(a, 1))>> \o <<WritePlace(b), WritePlace(At(a, 3))>>
              = <<WritePlace(a), WritePlace(At(a, 1)), WritePlace(b), WritePlace(At(a, 3))>>
      BY Joined
    <3> QED BY <3>1, <3>4, <3>7, <3>8 DEF b
  <2> QED BY <2>1, <2>2
<1> QED BY <1>4, <1>5, <1>6

\* The bytes at one, two or four addresses from one on.
LEMMA BytesOf ==
    ASSUME NEW a \in Addresses
    PROVE  /\ [k \in 1 .. 1 |-> ReadPlace(At(a, k - 1))] = <<ReadPlace(a)>>
           /\ [k \in 1 .. 2 |-> ReadPlace(At(a, k - 1))] = <<ReadPlace(a), ReadPlace(At(a, 1))>>
           /\ [k \in 1 .. 4 |-> ReadPlace(At(a, k - 1))]
                  = <<ReadPlace(a), ReadPlace(At(a, 1)), ReadPlace(At(a, 2)),
                      ReadPlace(At(a, 3))>>
           /\ [k \in 1 .. 1 |-> WritePlace(At(a, k - 1))] = <<WritePlace(a)>>
           /\ [k \in 1 .. 2 |-> WritePlace(At(a, k - 1))]
                  = <<WritePlace(a), WritePlace(At(a, 1))>>
           /\ [k \in 1 .. 4 |-> WritePlace(At(a, k - 1))]
                  = <<WritePlace(a), WritePlace(At(a, 1)), WritePlace(At(a, 2)),
                      WritePlace(At(a, 3))>>
<1>1. At(a, 0) = a
  BY AtAdds
<1> QED BY <1>1

\* The RAM is whole and the caches are right once the machine is ready.
LEMMA ReadyIsRight ==
    ASSUME IInv, Ready
    PROVE  RamWhole /\ ReadCacheOK(readCache) /\ WriteCacheOK(writeCache)
  BY DEF IInv, RamOK, CachesOK, RamWhole

\* Pages, segments and the spans tried in turn make no difference: an access of any width,
\* read, write or fetch, finds each of its bytes where the byte's own address says.
THEOREM AccessesAlwaysBytes == Spec => []AccessesAreBytes
<1>1. ASSUME IInv PROVE AccessesAreBytes
  <2>1. ReadsAreBytes
    <3> SUFFICES ASSUME Ready, NEW a \in Addresses, NEW n \in Widths, ~Seam(a, n)
                 PROVE  ReadOf(readCache, a, n).places
                            = [k \in 1 .. n |-> ReadPlace(At(a, k - 1))]
      BY DEF ReadsAreBytes
    <3>1. RamWhole /\ ReadCacheOK(readCache)
      BY <1>1, ReadyIsRight
    <3>2. CASE n = 1
      <4>1. ReadOf(readCache, a, n).places = palmRead8(readCache, a).places
        BY <3>2 DEF ReadOf
      <4> QED BY <3>1, <3>2, <4>1, Read8Bytes, BytesOf
    <3>3. CASE n = 2
      <4>1. ReadOf(readCache, a, n).places = palmRead16(readCache, a).places
        BY <3>3 DEF ReadOf
      <4> QED BY <3>1, <3>3, <4>1, Read16Bytes, BytesOf
    <3>4. CASE n = 4
      <4>1. ReadOf(readCache, a, n).places = palmRead32(readCache, a).places
        BY <3>4 DEF ReadOf
      <4> QED BY <3>1, <3>4, <4>1, Read32Bytes, BytesOf
    <3> QED BY <3>2, <3>3, <3>4 DEF Widths
  <2>2. WritesAreBytes
    <3> SUFFICES ASSUME Ready, NEW a \in Addresses, NEW n \in Widths, ~Seam(a, n)
                 PROVE  WriteOf(writeCache, a, n).places
                            = [k \in 1 .. n |-> WritePlace(At(a, k - 1))]
      BY DEF WritesAreBytes
    <3>1. RamWhole /\ WriteCacheOK(writeCache)
      BY <1>1, ReadyIsRight
    <3>2. CASE n = 1
      <4>1. WriteOf(writeCache, a, n).places = palmWrite8(writeCache, a).places
        BY <3>2 DEF WriteOf
      <4> QED BY <3>1, <3>2, <4>1, Write8Bytes, BytesOf
    <3>3. CASE n = 2
      <4>1. WriteOf(writeCache, a, n).places = palmWrite16(writeCache, a).places
        BY <3>3 DEF WriteOf
      <4> QED BY <3>1, <3>3, <4>1, Write16Bytes, BytesOf
    <3>4. CASE n = 4
      <4>1. WriteOf(writeCache, a, n).places = palmWrite32(writeCache, a).places
        BY <3>4 DEF WriteOf
      <4> QED BY <3>1, <3>4, <4>1, Write32Bytes, BytesOf
    <3> QED BY <3>2, <3>3, <3>4 DEF Widths
  <2>3. FetchesAreReads
    BY <1>1, ReadyIsRight, FetchBytes DEF FetchesAreReads
  <2> QED BY <2>1, <2>2, <2>3 DEF AccessesAreBytes
<1> QED BY <1>1, InvariantHolds, PTL

----------------------------------------------------------------------------
(* Blocks are bytes *)

\* A set of numbers that is not empty has a least one.
LEMMA LeastNumber ==
    ASSUME NEW S \in SUBSET Nat, S # {}
    PROVE  \E m \in S : \A k \in S : m <= k
<1> DEFINE R == OpToRel(<, Nat)
<1>1. IsWellFoundedOn(OpToRel(<, Nat), Nat)
  BY NatLessThanWellFounded
<1>2. \A x \in Nat, y \in Nat : <<x, y>> \in R <=> x < y
  BY DEF OpToRel
<1> HIDE DEF R
<1>3. IsWellFoundedOn(R, Nat)
  BY <1>1 DEF R
<1>4. PICK x \in S : \A y \in S : ~(<<y, x>> \in R)
  BY <1>3, WFMin
<1>5. ASSUME NEW k \in S PROVE x <= k
  <2>1. x \in Nat /\ k \in Nat
    OBVIOUS
  <2>2. ~(k < x)
    BY <1>2, <1>4, <2>1
  <2> QED BY <2>1, <2>2
<1> QED BY <1>5

\* Half of a number from two on is smaller, and not nothing.
LEMMA Halved ==
    ASSUME NEW m \in Nat, m >= 2
    PROVE  (m \div 2) \in 1 .. m - 1
  OBVIOUS

\* The halving ends at a piece that one segment holds, for a byte is held by one.
LEMMA PieceFits ==
    ASSUME RamWhole, NEW o \in 0 .. RamSize - 1, NEW n \in Nat \ {0}
    PROVE  PieceAt(o, n) \in 1 .. n /\ ramPointerSpan(o, PieceAt(o, n)) # None
<1> DEFINE Held(m) == m = 1 \/ ramPointerSpan(o, m) # None
           Halving(f, N) == f = [m \in 1 .. N |-> IF Held(m) THEN m ELSE f[m \div 2]]
           piece == CHOOSE f : Halving(f, n)
<1>1. PieceAt(o, n) = piece[n]
  BY DEF PieceAt
<1>2. \E f : Halving(f, n)
  <2> DEFINE S == {N \in Nat \ {0} : ~\E f : Halving(f, N)}
  <2> SUFFICES ASSUME S # {} PROVE FALSE
    OBVIOUS
  <2>1. PICK N \in S : \A k \in S : N <= k
    BY LeastNumber
  <2>2. N \in Nat \ {0} /\ ~\E f : Halving(f, N)
    OBVIOUS
  <2>3. CASE N = 1
    <3> DEFINE g == [m \in 1 .. N |-> m]
    <3>1. Halving(g, N)
      BY <2>3
    <3> QED BY <2>2, <3>1
  <2>4. CASE N # 1
    <3>1. N - 1 \in Nat \ {0} /\ N - 1 \notin S
      <4> HIDE DEF S
      <4> QED BY <2>1, <2>2, <2>4
    <3>2. PICK g : Halving(g, N - 1)
      BY <3>1
    <3> HIDE DEF S
    <3> DEFINE h == [m \in 1 .. N |-> IF m = N THEN IF Held(N) THEN N ELSE g[N \div 2]
                                      ELSE g[m]]
    <3>3. ASSUME NEW m \in 1 .. N PROVE h[m] = IF Held(m) THEN m ELSE h[m \div 2]
      <4>1. ~Held(m) => (m \div 2) \in 1 .. m - 1
        BY Halved
      <4>2. CASE m = N
        <5>1. ~Held(m) => h[m \div 2] = g[m \div 2]
          BY <2>2, <4>1, <4>2
        <5> QED BY <4>2, <5>1
      <4>3. CASE m # N
        <5>1. m \in 1 .. N - 1
          BY <2>2, <4>3
        <5> HIDE DEF Held
        <5>2. g[m] = IF Held(m) THEN m ELSE g[m \div 2]
          BY <3>2, <5>1
        <5>3. ~Held(m) => h[m \div 2] = g[m \div 2]
          BY <2>2, <4>1, <5>1
        <5> QED BY <4>3, <5>2, <5>3
      <4> QED BY <4>2, <4>3
    <3> HIDE DEF Held
    <3>4. Halving(h, N)
      BY <3>3
    <3> QED BY <2>2, <3>4
  <2> QED BY <2>3, <2>4
<1>3. Halving(piece, n)
  BY <1>2
<1> HIDE DEF piece
<1> DEFINE Fits(m) == piece[m] \in 1 .. m /\ ramPointerSpan(o, piece[m]) # None
           S == {m \in 1 .. n : ~Fits(m)}
<1>4. S = {}
  <2> SUFFICES ASSUME S # {} PROVE FALSE
    OBVIOUS
  <2>1. S \in SUBSET Nat
    OBVIOUS
  <2>2. PICK m \in S : \A k \in S : m <= k
    BY <2>1, LeastNumber
  <2>3. m \in 1 .. n /\ ~Fits(m)
    OBVIOUS
  <2>4. piece[m] = IF Held(m) THEN m ELSE piece[m \div 2]
    BY <1>3, <2>3
  <2>5. CASE Held(m)
    BY <2>3, <2>4, <2>5, EveryOffsetHeld
  <2>6. CASE ~Held(m)
    <3>1. (m \div 2) \in 1 .. m - 1
      BY <2>3, <2>6, Halved
    <3>2. Fits(m \div 2)
      BY <2>2, <2>3, <3>1
    <3> QED BY <2>3, <2>4, <2>6, <3>1, <3>2
  <2> QED BY <2>5, <2>6
<1>5. n \in 1 .. n
  OBVIOUS
<1> QED BY <1>1, <1>4, <1>5

\* The bytes of the RAM from an offset on.
BytesFrom(o, n) == [k \in 1 .. n |-> ramPointerSpan(o + k - 1, 1)]

\* A piece and what follows it are the bytes of both.
LEMMA PieceAndRest ==
    ASSUME RamWhole, NEW o \in Nat, NEW m \in Nat \ {0}, NEW r \in Nat, m <= r,
           o + r <= RamSize, ramPointerSpan(o, m) # None
    PROVE  Run(ramPointerSpan(o, m), m) \o BytesFrom(o + m, r - m) = BytesFrom(o, r)
<1> DEFINE p == Run(ramPointerSpan(o, m), m)
           q == BytesFrom(o + m, r - m)
           X == Places \union {None}
<1>1. \A k \in 1 .. r : ramPointerSpan(o + k - 1, 1) \in X
  <2> TAKE k \in 1 .. r
  <2> DEFINE c == o + k - 1
  <2>1. c \in 0 .. RamSize - 1 /\ c \in Nat
    BY ConstantTypes
  <2>2. 0 \in 0 .. 1 - 1 /\ 1 \in Nat \ {0}
    OBVIOUS
  <2> HIDE DEF c
  <2>3. ramPointerSpan(c, 1) # None
    BY <2>1, EveryOffsetHeld
  <2>4. ramPointerSpan(c, 1) \in Places
    BY <2>1, <2>2, <2>3, SpanHeld
  <2> HIDE DEF X
  <2>5. ramPointerSpan(c, 1) \in X
    BY <2>4 DEF X
  <2> QED BY <2>5 DEF c
<1>2. p = [k \in 1 .. m |-> ramPointerSpan(o + k - 1, 1)]
  <2>1. ASSUME NEW k \in 1 .. m
        PROVE  Plus(ramPointerSpan(o, m), k - 1) = ramPointerSpan(o + k - 1, 1)
    <3> DEFINE j == k - 1
    <3>1. j \in 0 .. m - 1
      OBVIOUS
    <3> HIDE DEF j
    <3>2. ramPointerSpan(o + j, 1) = Plus(ramPointerSpan(o, m), j)
      BY <3>1, SpanHeld
    <3>3. o + j = o + k - 1
      BY DEF j
    <3> QED BY <3>2, <3>3 DEF j
  <2> QED BY <2>1 DEF Run
<1>3. p \in Seq(X) /\ Len(p) = m
  <2> HIDE DEF p, X
  <2>1. \A k \in 1 .. m : ramPointerSpan(o + k - 1, 1) \in X
    <3>1. \A k \in 1 .. m : k \in 1 .. r
      OBVIOUS
    <3> QED BY <1>1, <3>1
  <2> QED BY <1>2, <2>1
<1>4. q \in Seq(X) /\ Len(q) = r - m
  <2>1. \A k \in 1 .. r - m : ramPointerSpan(o + m + k - 1, 1) \in X
    <3> TAKE k \in 1 .. r - m
    <3>1. m + k \in 1 .. r /\ o + (m + k) - 1 = o + m + k - 1
      OBVIOUS
    <3>2. ramPointerSpan(o + (m + k) - 1, 1) \in X
      BY <1>1, <3>1
    <3> QED BY <3>1, <3>2
  <2> QED BY <2>1 DEF BytesFrom
<1>5. BytesFrom(o, r) \in Seq(X) /\ Len(BytesFrom(o, r)) = r
  BY <1>1 DEF BytesFrom
<1> HIDE DEF p, X
<1>6. p \o q \in Seq(X) /\ Len(p \o q) = r
  <2> HIDE DEF q
  <2>1. p \o q \in Seq(X) /\ Len(p \o q) = Len(p) + Len(q)
    BY <1>3, <1>4, ConcatProperties
  <2>2. m + (r - m) = r
    OBVIOUS
  <2> QED BY <1>3, <1>4, <2>1, <2>2
<1>7. ASSUME NEW k \in 1 .. r PROVE (p \o q)[k] = BytesFrom(o, r)[k]
  <2>1. BytesFrom(o, r)[k] = ramPointerSpan(o + k - 1, 1)
    BY DEF BytesFrom
  <2>2. (p \o q)[k] = IF k <= m THEN p[k] ELSE q[k - m]
    BY <1>3, <1>4, ConcatProperties
  <2>3. CASE k <= m
    BY <1>2, <2>1, <2>2, <2>3
  <2>4. CASE ~(k <= m)
    <3>1. k - m \in 1 .. r - m /\ o + m + (k - m) - 1 = o + k - 1
      BY <2>4
    <3>2. q[k - m] = ramPointerSpan(o + m + (k - m) - 1, 1)
      BY <3>1 DEF BytesFrom
    <3> QED BY <2>1, <2>2, <2>4, <3>1, <3>2
  <2> QED BY <2>3, <2>4
<1> HIDE DEF q
<1>8. p \o q = BytesFrom(o, r)
  BY <1>5, <1>6, <1>7, SeqEqual
<1> QED BY <1>8 DEF p, q

\* The pieces of a block are its bytes.
LEMMA PiecesAreBytes ==
    ASSUME RamWhole, NEW o \in 0 .. RamSize - 1, NEW n \in 1 .. RamSize - o
    PROVE  BlockPlaces(o, n) = BytesFrom(o, n)
<1> DEFINE Start(r) == o + n - r
           Piece(r) == PieceAt(Start(r), IF r < BlockChunk THEN r ELSE BlockChunk)
           Rest(f, r) == Run(ramPointerSpan(Start(r), Piece(r)), Piece(r)) \o f[r - Piece(r)]
           Moving(f) == f = [r \in 0 .. n |-> IF r = 0 THEN <<>> ELSE Rest(f, r)]
           rest == CHOOSE f : Moving(f)
           g == [r \in 0 .. n |-> BytesFrom(Start(r), r)]
<1>1. BlockPlaces(o, n) = rest[n]
  BY DEF BlockPlaces
<1>2. n \in Nat /\ o \in Nat /\ o + n <= RamSize
  BY ConstantTypes
<1>3. ASSUME NEW r \in 1 .. n
      PROVE  /\ Start(r) \in 0 .. RamSize - 1 /\ Start(r) + r <= RamSize
             /\ Piece(r) \in 1 .. r /\ r - Piece(r) \in 0 .. r - 1
             /\ ramPointerSpan(Start(r), Piece(r)) # None
  <2> DEFINE c == IF r < BlockChunk THEN r ELSE BlockChunk
  <2>1. BlockChunk \in Nat \ {0}
    BY MemoryAssumption
  <2>2. c \in 1 .. r /\ c \in Nat \ {0}
    BY <1>2, <2>1
  <2>3. Start(r) \in 0 .. RamSize - 1 /\ Start(r) + r <= RamSize
    BY <1>2, ConstantTypes
  <2> HIDE DEF c, Start
  <2>4. PieceAt(Start(r), c) \in 1 .. c /\ ramPointerSpan(Start(r), PieceAt(Start(r), c)) # None
    BY <2>2, <2>3, PieceFits
  <2>5. Piece(r) = PieceAt(Start(r), c)
    BY DEF c
  <2> HIDE DEF Piece
  <2> QED BY <1>2, <2>2, <2>3, <2>4, <2>5
<1>4. ASSUME NEW r \in 1 .. n PROVE g[r] = Rest(g, r)
  <2> DEFINE s == Start(r)
             m == Piece(r)
  <2>1. /\ s \in Nat /\ s + r <= RamSize /\ m \in 1 .. r /\ m \in Nat \ {0} /\ m <= r /\ r \in Nat
        /\ ramPointerSpan(s, m) # None
    BY <1>3, ConstantTypes
  <2>2. r - m \in 0 .. n /\ Start(r - m) = s + m
    BY <1>2, <1>3
  <2>3. g[r - m] = BytesFrom(s + m, r - m)
    BY <2>2
  <2>4. g[r] = BytesFrom(s, r)
    BY <1>2
  <2>5. Rest(g, r) = Run(ramPointerSpan(s, m), m) \o g[r - m]
    OBVIOUS
  <2> HIDE DEF g, s, m, Start, Piece, Rest
  <2>6. Run(ramPointerSpan(s, m), m) \o BytesFrom(s + m, r - m) = BytesFrom(s, r)
    BY <2>1, PieceAndRest
  <2> QED BY <2>3, <2>4, <2>5, <2>6
<1>5. g[0] = <<>>
  <2>1. g[0] = BytesFrom(Start(0), 0)
    BY <1>2
  <2> HIDE DEF g, Start
  <2>2. BytesFrom(Start(0), 0) = <<>>
    BY DEF BytesFrom
  <2> QED BY <2>1, <2>2
<1> HIDE DEF Rest
<1>6. Moving(g)
  BY <1>2, <1>4, <1>5
<1>7. Moving(rest)
  BY <1>6
<1> HIDE DEF rest, g
<1> DEFINE S == {r \in 0 .. n : rest[r] # g[r]}
<1>8. S = {}
  <2> SUFFICES ASSUME S # {} PROVE FALSE
    OBVIOUS
  <2>1. S \in SUBSET Nat
    BY <1>2
  <2>2. PICK r \in S : \A k \in S : r <= k
    BY <2>1, LeastNumber
  <2>3. r \in 0 .. n /\ rest[r] # g[r]
    OBVIOUS
  <2>4. rest[r] = IF r = 0 THEN <<>> ELSE Rest(rest, r)
    BY <1>7, <2>3
  <2>5. r \in 1 .. n
    BY <1>2, <1>5, <2>3, <2>4
  <2>6. r - Piece(r) \in 0 .. r - 1
    BY <1>3, <2>5
  <2> HIDE DEF Piece
  <2>7. rest[r - Piece(r)] = g[r - Piece(r)]
    BY <1>2, <2>2, <2>5, <2>6
  <2>8. Rest(rest, r) = Rest(g, r)
    BY <2>7 DEF Rest
  <2>9. r # 0 /\ g[r] = Rest(g, r)
    BY <1>4, <2>5
  <2> QED BY <2>3, <2>4, <2>8, <2>9
<1>9. rest[n] = g[n]
  BY <1>2, <1>8
<1>10. g[n] = BytesFrom(o, n)
  BY <1>2 DEF g
<1> QED BY <1>1, <1>9, <1>10

\* A block that a snapshot saves or restores is the bytes of the RAM in their order, each
\* once, whatever segments it crosses and whatever pieces it is moved by.
THEOREM BlocksAlwaysBytes == Spec => []BlocksAreBytes
<1>1. IInv => BlocksAreBytes
  BY ReadyIsRight, PiecesAreBytes DEF BlocksAreBytes, BytesFrom
<1> QED BY <1>1, InvariantHolds, PTL

=============================================================================
