CONSTANTS
    RecordHeader = 1
    HandshakeHeader = 1
    MaxInitial = 4
    MaxReplies = 1
    Streams <- MCStreams
SPECIFICATION FairSpec
CHECK_DEADLOCK FALSE
INVARIANTS
    InOrder
    TargetRight
    HalfCloseDelivers
    NothingLeaks
PROPERTIES
    ImplementsPipe
    FlowEnds
    CloseReleases
