\* What the documentation says of IrDA mode; the probe echo stops too early.
SPECIFICATION Spec
CONSTANTS
  Byte = {zero, bof}
  ZeroByte = zero
  Framing = {bof}
  FifoSize = 2
  BridgeChunk = 2
  EchoBytes = 2
  ControlValues <- Drivers
  IrdaValues <- Both
  MaxSerial = 1
  MaxOverruns = 1
  Snapshots = FALSE
PROPERTIES
  TransmittedBytesEchoInIrda
