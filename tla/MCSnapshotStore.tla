--------------------------- MODULE MCSnapshotStore ---------------------------
(* Inputs for model checking SnapshotStore: two RAM chunks, a guest that     *)
(* touches RAM and CPU, or the registers alone.                              *)
EXTENDS SnapshotStore

RamOrRegisters == {{0, 3}, {2}}
=============================================================================
