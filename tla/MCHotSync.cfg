\* A HotSync host and a Palm on a line that loses frames; sessions break off.
CONSTANTS
    Images <- MCImages
    None = None
    Info <- MCInfo
    ResourceDbs <- MCResourceDbs
    TxMax = 5
    DataMax = 5
    WakeTxs <- MCWakeTxs
    LongReplies <- MCLongReplies
    MaxSyncs = 2
    MaxClicks = 2
    MaxFaults = 2
SPECIFICATION FairSpec
INVARIANTS
    WrittenOnceInOrder
    FragmentsInStep
    QueueKept
PROPERTIES
    CompleteMeansWhole
    InstallsEverything
CHECK_DEADLOCK FALSE
