\* The IrDA probe with two-byte FIFOs, wrapped rings and snapshots.
SPECIFICATION Spec
CONSTANTS
  Byte = {zero, bof}
  ZeroByte = zero
  Framing = {bof}
  FifoSize = 2
  BridgeChunk = 2
  EchoBytes = 2
  ControlValues <- Drivers
  IrdaValues <- Both
  MaxSerial = 2
  MaxOverruns = 1
  Snapshots = TRUE
CONSTRAINT FewSnapshots
INVARIANTS
  DerivedStateCurrent
PROPERTIES
  BridgeLosesNothing
  ImplementsByteLink
