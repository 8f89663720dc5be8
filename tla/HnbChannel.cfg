SPECIFICATION FairSpec
CONSTANTS
    Kinds = {"control", "data"}
    MaxSequence = 2
    Capacity = 1
    MaxNonce = 1
INVARIANT InSequence
PROPERTY WriterReleased
PROPERTY SilenceNoticed
CHECK_DEADLOCK FALSE
