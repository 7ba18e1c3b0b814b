\* Power fails anywhere, every call on the card may fail, and closing a file may lose its end.
SPECIFICATION StoreSpec
CONSTANTS
  Last = 5
  Touched <- RamOrRegisters
  Faults = {"open", "write", "flush", "remove", "rename", "read"}
  Found = {"none", "native", "foreign", "raw"}
  MaxGen = 3
INVARIANTS
  FinalIsCommitted
PROPERTIES
  BootColdOrSaved
  CopyOutlivesSave
