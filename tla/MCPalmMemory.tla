---------------------------- MODULE MCPalmMemory ----------------------------
(***************************************************************************)
(* A map of pages of 4 bytes with the proportions of the real one: RAM at  *)
(* 0, the ROM's 24-bit window over the alias of the RAM and over the       *)
(* 24-bit registers, the 32-bit window and the registers above.            *)
(***************************************************************************)
EXTENDS PalmMemory

MCLowSizes == <<4, 2>>
MCBlockSizes == <<8, 2>>

\* The page of the RAM that segments may cut, the last two bytes of the RAM and the probe
\* behind it, alias, both windows at their seams, and the registers.
MCAccessed == {0, 2, 4, 6, 8, 26, 28, 40, 46, 60}
=============================================================================
