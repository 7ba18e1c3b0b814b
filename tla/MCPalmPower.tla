---------------------------- MODULE MCPalmPower -----------------------------
(* The values PalmPower is checked with. *)
EXTENDS PalmPower
=============================================================================
