SPECIFICATION FairSpec
CONSTANTS
    Boots = 2
    Packets = 3
    MaxTime = 3
    Timeout = 1
CHECK_DEADLOCK FALSE
PROPERTIES
    SnapshotAdvances
    RebootIsConfirmed
    SilenceIsReported
