CONSTANTS
    Instances = {p1, p2}
    Faults = {"crashAny", "unplug", "proxyExit", "startFails", "removeFails",
              "answerLost", "killFails"}
    None = None
SPECIFICATION FairSpec
INVARIANTS
    Reachable
    LeftoversRecorded
    RecordReclaimed
    ExitsClean
PROPERTIES
    StopCompletes
