----------------------------- MODULE MemoryMap -----------------------------
(***************************************************************************)
(* Which address means what (palm_profile.h, palm_memory.cpp 168 to 291):  *)
(* RAM from 0 on and once more below AliasEnd; the ROM in two windows, the *)
(* one of its 32-bit addresses and the one of the same addresses cut to 24 *)
(* bits, repeated over a whole chip select; the registers, twice as well.  *)
(* Profiles without the SED1375. A machine that runs has all of its RAM    *)
(* (palmMemoryInit fails otherwise), so no logical RAM is missing that     *)
(* would have to be mirrored.                                              *)
(***************************************************************************)
EXTENDS Integers, Sequences

CONSTANTS
    None,
    AddressEnd,        \* addresses are below this (2^32)
    RamSize,           \* PALM_RAM_LOGICAL_SIZE
    AliasEnd,          \* PALM_RAM_TOP_ALIAS_END
    RomSize,           \* palmRomSize
    RomBase, RomLow,   \* PALM_ROM_BASE, PALM_ROM_LOW_ALIAS_BASE
    RomBase24, RomLow24,
    RomSelect,         \* PALM_ROM_CHIP_SELECT_SIZE
    RegBase, RegBase24, RegSize

ASSUME MapAssumption ==
    /\ {AddressEnd, RamSize, AliasEnd, RomSize, RomBase, RomLow, RomBase24, RomLow24,
        RomSelect, RegBase, RegBase24, RegSize} \subseteq Nat
    /\ None \notin Int
    /\ RamSize > 0 /\ RomSize > 0
    /\ RamSize <= AliasEnd - RamSize /\ AliasEnd <= AddressEnd
    /\ RomLow <= RomBase /\ RomBase - RomLow <= RomSize
    /\ RomLow24 <= RomBase24 /\ RomBase24 - RomLow24 <= RomSize
    /\ RomBase24 + RomSize <= RomLow /\ RomLow24 + RomSelect <= RomLow

Addresses == 0 .. AddressEnd - 1

----------------------------------------------------------------------------
(* The ROM: n bytes in a row from an address on are n bytes in a row of the *)
(* image, or they are none.                                                 *)

AtBase(base, a, n) == a >= base /\ a - base + n <= RomSize
Repeated(low, a, n) == /\ low <= a /\ a < low + RomSelect
                       /\ ((a - low) % RomSize) + n <= RomSize

romPointerForAddress(a, n) ==
    IF n > RomSize THEN None
    ELSE IF AtBase(RomBase, a, n) THEN a - RomBase
    ELSE IF AtBase(RomBase24, a, n) THEN a - RomBase24
    ELSE IF Repeated(RomLow, a, n) THEN (a - RomLow) % RomSize
    ELSE IF Repeated(RomLow24, a, n) THEN (a - RomLow24) % RomSize
    ELSE None

\* The test a write makes, for one byte. Its order differs, what it finds does not.
InRom(a) == romPointerForAddress(a, 1) # None

----------------------------------------------------------------------------
(* RAM and registers *)

ramOffset(a, n) ==
    IF a + n <= RamSize THEN a
    ELSE IF a >= AliasEnd - RamSize /\ a + n <= AliasEnd THEN a - (AliasEnd - RamSize)
    ELSE None

palmHwInRegisterSpace(a) == \/ a >= RegBase /\ a - RegBase < RegSize
                            \/ a >= RegBase24 /\ a - RegBase24 < RegSize

\* The word behind the RAM reads as 0, for the OS that looks how much there is.
ramSizeProbeAddress(a) == a >= RamSize /\ a < RamSize + 4
=============================================================================
