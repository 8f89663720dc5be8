CONSTANT MaxSeq = 3
SPECIFICATION FairSpec
INVARIANTS FailureExplained DescriptorHeld FramesWhole
PROPERTIES ImplementsFacade StopReturns BothEnd
