CONSTANTS
    ControlConns = {c1}
    DataConns = {d1}
    Reports = {"STOPPED", "ACTIVE"}
    Outcomes = {"present", "absent", "error"}
    None = None
SPECIFICATION FairSpec
INVARIANT OfflineRecovers
PROPERTIES
    ShutdownCompletes
    OrphanEnds
