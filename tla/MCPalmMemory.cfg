\* Allocation of the RAM, accesses through the caches, and the snapshot's blocks.
CONSTANTS
    None = None
    AddressEnd = 64
    RamSize = 8
    AliasEnd = 32
    RomSize = 8
    RomBase = 44
    RomLow = 40
    RomBase24 = 24
    RomLow24 = 20
    RomSelect = 16
    RegBase = 60
    RegBase24 = 28
    RegSize = 4
    PageSize = 4
    CacheEntries = 2
    BlockChunk = 4
    MaxSegments = 3
    LowSizes <- MCLowSizes
    BlockSizes <- MCBlockSizes
    Accessed <- MCAccessed
SPECIFICATION Spec
INVARIANTS
    CachesCurrent
    AccessesAreBytes
    BlocksAreBytes
CHECK_DEADLOCK FALSE
