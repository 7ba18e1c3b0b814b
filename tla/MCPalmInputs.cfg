\* A corner of the key matrix of the IIIc with a scanning guest, the pen, the cradle button
\* in every mode, a sleeping guest, and snapshots of it.
SPECIFICATION Spec
CONSTANTS
  Key = {"hard2", "hard3", "contrast"}
  Row = {"row0", "row2"}
  Col = {"INT1", "INT2"}
  Wire <- Matrix
  SleepColumn <- IIIcSleepColumn
  Other = {"TIMER"}
  RowValues <- ScanRows
  PortDValues <- KeyRegisters
  IcrValues <- AnyIcr
  MaskValues <- Masked
  Inputs = {"keys", "pen", "cradle"}
  Snapshots = TRUE
CONSTRAINT FewSnapshots
INVARIANTS
  InterruptLinesCurrent
PROPERTIES
  PressIsReported
  EdgesOutliveTheKey
  CradleEdgeLatches
  RestoreKeepsRequests
