----------------------------- MODULE PalmMemory -----------------------------
(***************************************************************************)
(* The memory of palm_memory.cpp: RAM in segments as the heap gave them,   *)
(* and two small caches of pointers to whole pages, one for reads and one  *)
(* for writes, which an access fills and which nothing ever empties. The   *)
(* spans tried in turn (page, ROM, RAM in one segment, byte by byte) are   *)
(* those of palmRead8 to palmWrite32 and palm_read_instr_16; a span is the *)
(* sequence of places of its bytes.                                        *)
(***************************************************************************)
EXTENDS MemoryMap

CONSTANTS
    PageSize,       \* PALM_MEM_PAGE_SIZE
    CacheEntries,   \* PALM_MEM_PAGE_CACHE_ENTRIES
    BlockChunk,     \* how much a snapshot's block is moved by at a time (4096)
    MaxSegments,    \* RAM_MAX_SEGMENTS
    LowSizes,       \* what is tried for the first, internal segment, in order
    BlockSizes,     \* blockSizes
    Accessed        \* bound: the addresses that are accessed

ASSUME MemoryAssumption ==
    /\ PageSize \in Nat \ {0} /\ CacheEntries \in Nat \ {0} /\ MaxSegments \in Nat
    /\ BlockChunk \in Nat \ {0} /\ Accessed \subseteq Addresses
    /\ LowSizes \in Seq(Nat \ {0}) /\ BlockSizes \in Seq(Nat \ {0})

\* The windows of the ROM begin and end at pages, its image is one of whole pages, and where
\* the registers lie in the alias of the RAM the ROM lies as well.
ASSUME PageAssumption ==
    /\ \A x \in {RomSize, RomBase, RomLow, RomBase24, RomLow24, RomSelect} : x % PageSize = 0
    /\ \A a \in Addresses : palmHwInRegisterSpace(a) /\ ramOffset(a, 1) # None => InRom(a)

VARIABLES
    boot,         \* "low", then the block size tried, then "ready" or "failed"
    tried,        \* how many of LowSizes or BlockSizes have been given up
    segments,     \* palmRamSegments: base and size of each
    readCache,    \* readPageCache
    writeCache    \* writePageCache

vars == <<boot, tried, segments, readCache, writeCache>>

Tags == 0 .. (AddressEnd - 1) \div PageSize
CacheIndices == 0 .. CacheEntries - 1

----------------------------------------------------------------------------
(* Places: where a byte is. A pointer is the place of its first byte. *)

InRam(i, k) == [in |-> "ram", segment |-> i, at |-> k]
InImage(k) == [in |-> "rom", segment |-> 0, at |-> k]
Outside(where) == [in |-> where, segment |-> 0, at |-> 0]
Places == [in : {"ram", "rom", "register", "probe", "open"}, segment : Nat, at : Nat]

\* A null pointer is no place.
ASSUME NullAssumption == None \notin Places

Plus(p, k) == [p EXCEPT !.at = @ + k]
Run(p, n) == [k \in 1 .. n |-> Plus(p, k - 1)]
First(p, q) == IF p # None THEN p ELSE q

Ready == boot = "ready"

\* The segment that holds all n bytes.
Holds(i, o, n) == o >= segments[i].base /\ o + n <= segments[i].base + segments[i].size
ramPointerSpan(o, n) ==
    IF \E i \in DOMAIN segments : Holds(i, o, n)
    THEN LET i == CHOOSE i \in DOMAIN segments : Holds(i, o, n)
         IN  InRam(i, o - segments[i].base)
    ELSE None

RomPointer(a, n) ==
    IF romPointerForAddress(a, n) = None THEN None ELSE InImage(romPointerForAddress(a, n))

RamPointer(a, n) ==
    IF ramOffset(a, n) = None THEN None ELSE ramPointerSpan(ramOffset(a, n), n)

Elsewhere(a) == IF palmHwInRegisterSpace(a) THEN Outside("register")
                ELSE IF ramSizeProbeAddress(a) THEN Outside("probe") ELSE Outside("open")

----------------------------------------------------------------------------
(* The page caches *)

Tag(a) == a \div PageSize
PageBase(tag) == tag * PageSize
pageContainsSpan(a, n) == (a % PageSize) + n <= PageSize

\* The hash is an XOR of the tag's bytes; which pages collide makes no difference here.
pageCacheIndex(tag) == tag % CacheEntries

\* Mutant: a page is cached by its first byte, wherever its last one is.
ReadPageOfItsFirstByte(tag) == First(RomPointer(PageBase(tag), 1), RamPointer(PageBase(tag), 1))

ReadPage(tag) == First(RomPointer(PageBase(tag), PageSize), RamPointer(PageBase(tag), PageSize))
WritePage(tag) == IF RomPointer(PageBase(tag), PageSize) # None THEN None
                  ELSE RamPointer(PageBase(tag), PageSize)

resetPageCache == [i \in CacheIndices |-> [tag |-> None, base |-> None]]

\* Mutant: an entry in use is taken for the page that is looked up.
LookedAnyTag(cache, a, n, page) ==
    IF ~pageContainsSpan(a, n) \/ cache[pageCacheIndex(Tag(a))].tag # None THEN cache
    ELSE [cache EXCEPT ![pageCacheIndex(Tag(a))] = [tag |-> Tag(a), base |-> page]]

\* The cache once a span is looked up, and the pointer it then gives.
Looked(cache, a, n, page) ==
    IF ~pageContainsSpan(a, n) \/ cache[pageCacheIndex(Tag(a))].tag = Tag(a) THEN cache
    ELSE [cache EXCEPT ![pageCacheIndex(Tag(a))] = [tag |-> Tag(a), base |-> page]]

Found(cache, a, n) ==
    LET base == cache[pageCacheIndex(Tag(a))].base
    IN  IF pageContainsSpan(a, n) /\ base # None THEN Plus(base, a % PageSize) ELSE None

fillReadPage(cache, a, n) == Looked(cache, a, n, ReadPage(Tag(a)))
fillWritePage(cache, a, n) == Looked(cache, a, n, WritePage(Tag(a)))

----------------------------------------------------------------------------
(* Reads: the cache they leave and the places of their bytes *)

At(a, k) == (a + k) % AddressEnd
Access(cache, places) == [cache |-> cache, places |-> places]

\* The second half goes through the cache that the first one left.
Both(first, second) == Access(second.cache, first.places \o second.places)

Direct(cache, a, n) == First(Found(cache, a, n), First(RomPointer(a, n), RamPointer(a, n)))
BothInRam(a) == ramOffset(a, 1) # None /\ ramOffset(At(a, 1), 1) # None
ByteByByte(a) == <<RamPointer(a, 1), RamPointer(At(a, 1), 1)>>

palmRead8(cache0, a) ==
    LET cache == fillReadPage(cache0, a, 1)
    IN  Access(cache, <<First(Direct(cache, a, 1), Elsewhere(a))>>)

palmRead16(cache0, a) ==
    LET cache == fillReadPage(cache0, a, 2)
        p == Direct(cache, a, 2)
    IN  IF p # None THEN Access(cache, Run(p, 2))
        ELSE IF palmHwInRegisterSpace(a)
             THEN Access(cache, <<Outside("register"), Outside("register")>>)
        ELSE IF BothInRam(a) THEN Access(cache, ByteByByte(a))
        ELSE LET first == palmRead8(cache, a)
             IN  Both(first, palmRead8(first.cache, At(a, 1)))

palmRead32(cache0, a) ==
    LET cache == fillReadPage(cache0, a, 4)
        p == Direct(cache, a, 4)
    IN  IF p # None THEN Access(cache, Run(p, 4))
        ELSE LET first == palmRead16(cache, a)
             IN  Both(first, palmRead16(first.cache, At(a, 2)))

\* An instruction: registers before RAM, and nothing but a bus error elsewhere.
palm_read_instr_16(cache0, a) ==
    LET cache == fillReadPage(cache0, a, 2)
        p == First(Found(cache, a, 2), RomPointer(a, 2))
    IN  IF p # None THEN Access(cache, Run(p, 2))
        ELSE IF palmHwInRegisterSpace(a)
             THEN Access(cache, <<Outside("register"), Outside("register")>>)
        ELSE IF RamPointer(a, 2) # None THEN Access(cache, Run(RamPointer(a, 2), 2))
        ELSE IF BothInRam(a) THEN Access(cache, ByteByByte(a))
        ELSE Access(cache, <<Outside("open"), Outside("open")>>)

ReadOf(cache, a, n) == CASE n = 1 -> palmRead8(cache, a)
                         [] n = 2 -> palmRead16(cache, a)
                         [] n = 4 -> palmRead32(cache, a)

----------------------------------------------------------------------------
(* Writes: what is not RAM takes nothing *)

Nowhere(n) == [k \in 1 .. n |-> Outside("open")]

palmWrite8(cache0, a) ==
    LET cache == fillWritePage(cache0, a, 1)
        p == Found(cache, a, 1)
    IN  IF p # None THEN Access(cache, <<p>>)
        ELSE IF palmHwInRegisterSpace(a) \/ InRom(a) THEN Access(cache, Nowhere(1))
        ELSE Access(cache, <<First(RamPointer(a, 1), Outside("open"))>>)

palmWrite16(cache0, a) ==
    LET cache == fillWritePage(cache0, a, 2)
        p == Found(cache, a, 2)
    IN  IF p # None THEN Access(cache, Run(p, 2))
        ELSE IF palmHwInRegisterSpace(a) \/ InRom(a) THEN Access(cache, Nowhere(2))
        ELSE IF RamPointer(a, 2) # None THEN Access(cache, Run(RamPointer(a, 2), 2))
        ELSE IF BothInRam(a) THEN Access(cache, ByteByByte(a))
        ELSE LET first == palmWrite8(cache, a)
             IN  Both(first, palmWrite8(first.cache, At(a, 1)))

palmWrite32(cache0, a) ==
    LET cache == fillWritePage(cache0, a, 4)
        p == Found(cache, a, 4)
    IN  IF p # None THEN Access(cache, Run(p, 4))
        ELSE IF palmHwInRegisterSpace(a) \/ InRom(a) THEN Access(cache, Nowhere(4))
        ELSE IF RamPointer(a, 4) # None THEN Access(cache, Run(RamPointer(a, 4), 4))
        ELSE LET first == palmWrite16(cache, a)
             IN  Both(first, palmWrite16(first.cache, At(a, 2)))

WriteOf(cache, a, n) == CASE n = 1 -> palmWrite8(cache, a)
                          [] n = 2 -> palmWrite16(cache, a)
                          [] n = 4 -> palmWrite32(cache, a)

----------------------------------------------------------------------------
(* Blocks, for the snapshot: pieces that a segment holds, halved until one does *)

PieceAt(o, n) ==
    LET piece[m \in 1 .. n] ==
            IF m = 1 \/ ramPointerSpan(o, m) # None THEN m ELSE piece[m \div 2]
    IN  piece[n]

\* Mutant: each piece is taken from the start of the block.
BlockPlacesFromStart(o, n) ==
    LET rest[r \in 0 .. n] ==
            IF r = 0 THEN <<>>
            ELSE LET m == PieceAt(o, IF r < BlockChunk THEN r ELSE BlockChunk)
                 IN  Run(ramPointerSpan(o, m), m) \o rest[r - m]
    IN  rest[n]

\* The places of the last r of n bytes from o on.
BlockPlaces(o, n) ==
    LET rest[r \in 0 .. n] ==
            IF r = 0 THEN <<>>
            ELSE LET at == o + n - r
                     m == PieceAt(at, IF r < BlockChunk THEN r ELSE BlockChunk)
                 IN  Run(ramPointerSpan(at, m), m) \o rest[r - m]
    IN  rest[n]

----------------------------------------------------------------------------
(* Actions *)

TypeOK ==
    /\ boot \in {"low", "blocks", "ready", "failed"} /\ tried \in Nat
    /\ segments \in Seq([base : Nat, size : Nat])
    /\ \A cache \in {readCache, writeCache} :
           cache \in [CacheIndices -> [tag : Tags \union {None}, base : Places \union {None}]]

Init ==
    /\ boot = "low" /\ tried = 0 /\ segments = <<>>
    /\ readCache = resetPageCache /\ writeCache = resetPageCache

palmRamSizeBytes == IF segments = <<>> THEN 0
                    ELSE segments[Len(segments)].base + segments[Len(segments)].size

Allocated(size) ==
    segments' = Append(segments, [base |-> palmRamSizeBytes, size |-> size])

Least(m, n) == IF m < n THEN m ELSE n
Remaining == RamSize - palmRamSizeBytes
Caches == <<readCache, writeCache>>

AllocateLow ==
    /\ boot = "low"
    /\ IF tried < Len(LowSizes) /\ MaxSegments > 0
       THEN \/ /\ Allocated(Least(LowSizes[tried + 1], Remaining))
               /\ boot' = "blocks" /\ tried' = 0
            \/ tried' = tried + 1 /\ UNCHANGED <<boot, segments>>
       ELSE boot' = "blocks" /\ tried' = 0 /\ UNCHANGED segments
    /\ UNCHANGED Caches

MoreWanted == Remaining > 0 /\ Len(segments) < MaxSegments /\ tried < Len(BlockSizes)

\* A size that the heap cannot give any more is not tried again.
AllocateBlock ==
    /\ boot = "blocks" /\ MoreWanted
    /\ \/ Allocated(Least(BlockSizes[tried + 1], Remaining)) /\ UNCHANGED tried
       \/ tried' = tried + 1 /\ UNCHANGED segments
    /\ UNCHANGED <<boot, Caches>>

\* PALM_RAM_ALLOC_MIN_SIZE is all of it.
palmMemoryInitEnds ==
    /\ boot = "blocks" /\ ~MoreWanted
    /\ IF Remaining = 0 THEN boot' = "ready" /\ UNCHANGED segments
       ELSE boot' = "failed" /\ segments' = <<>>
    /\ readCache' = resetPageCache /\ writeCache' = resetPageCache
    /\ UNCHANGED tried

\* What is read or written is left out, only where: an access may change the caches.
Read(a, n) ==
    /\ Ready
    /\ readCache' = ReadOf(readCache, a, n).cache
    /\ UNCHANGED <<boot, tried, segments, writeCache>>

Fetch(a) ==
    /\ Ready
    /\ readCache' = palm_read_instr_16(readCache, a).cache
    /\ UNCHANGED <<boot, tried, segments, writeCache>>

Write(a, n) ==
    /\ Ready
    /\ writeCache' = WriteOf(writeCache, a, n).cache
    /\ UNCHANGED <<boot, tried, segments, readCache>>

Widths == {1, 2, 4}

Next ==
    \/ AllocateLow \/ AllocateBlock \/ palmMemoryInitEnds
    \/ \E a \in Accessed : Fetch(a) \/ \E n \in Widths : Read(a, n) \/ Write(a, n)

Spec == Init /\ [][Next]_vars

----------------------------------------------------------------------------
(* Properties *)

\* Once the RAM is complete its segments lie one behind the other and leave no gap: every
\* offset is in exactly one of them (palmMemoryInit, freeRamPages).
SegmentsTile ==
    Ready => \A o \in 0 .. RamSize - 1 :
                 \E i \in DOMAIN segments :
                     /\ Holds(i, o, 1)
                     /\ \A j \in DOMAIN segments : Holds(j, o, 1) => j = i

\* A cached page is what its address means still, and all of it lies in one segment or in
\* the image: nothing empties the caches, and every access adds an offset to a base.
Inside(p) ==
    \/ p.in = "ram" /\ p.segment \in DOMAIN segments /\ p.at + PageSize <= segments[p.segment].size
    \/ p.in = "rom" /\ p.at + PageSize <= RomSize
CachesCurrent ==
    \A i \in CacheIndices :
        /\ readCache[i].tag # None => readCache[i].base = ReadPage(readCache[i].tag)
        /\ writeCache[i].tag # None => writeCache[i].base = WritePage(writeCache[i].tag)
        /\ \A cache \in {readCache, writeCache} : cache[i].base # None => Inside(cache[i].base)

\* What a byte's address means for a read and, the ROM keeping what it holds, for a write.
ReadPlace(a) == First(RomPointer(a, 1), First(RamPointer(a, 1), Elsewhere(a)))
WritePlace(a) == IF palmHwInRegisterSpace(a) \/ InRom(a) THEN Outside("open")
                 ELSE First(RamPointer(a, 1), Outside("open"))

\* Over a seam of the ROM the next address is not the next byte of the image.
RomByte(a) == romPointerForAddress(a, 1)
Seam(a, n) == \E k \in 1 .. n - 1 :
                  \/ RomByte(At(a, k)) # (IF RomByte(a) = None THEN None ELSE RomByte(a) + k)
                  \/ palmHwInRegisterSpace(At(a, k)) # palmHwInRegisterSpace(a)

\* Pages, segments and the spans tried in turn make no difference: an access of any width
\* finds each byte where its own address says, over page and segment bounds and the end of
\* the RAM, except over a seam of the ROM or of the registers.
ReadsAreBytes ==
    Ready => \A a \in Addresses : \A n \in Widths :
                 ~Seam(a, n) => ReadOf(readCache, a, n).places
                                    = [k \in 1 .. n |-> ReadPlace(At(a, k - 1))]
WritesAreBytes ==
    Ready => \A a \in Addresses : \A n \in Widths :
                 ~Seam(a, n) => WriteOf(writeCache, a, n).places
                                    = [k \in 1 .. n |-> WritePlace(At(a, k - 1))]

\* An instruction is fetched from where the same word is read, where there is memory.
FetchesAreReads ==
    Ready => \A a \in Addresses :
                 ~Seam(a, 2) /\ (InRom(a) \/ BothInRam(a))
                     => palm_read_instr_16(readCache, a).places = palmRead16(readCache, a).places

\* A block of the snapshot is the RAM's bytes in their order, whatever segments it crosses.
BlocksAreBytes ==
    Ready => \A o \in 0 .. RamSize - 1 : \A n \in 1 .. RamSize - o :
                 BlockPlaces(o, n) = [k \in 1 .. n |-> ramPointerSpan(o + k - 1, 1)]

\* All three kinds of access find the bytes of their addresses.
AccessesAreBytes == ReadsAreBytes /\ WritesAreBytes /\ FetchesAreReads
=============================================================================
