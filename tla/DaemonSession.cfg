CONSTANTS
    ControlConns = {c1, c2}
    DataConns = {d1, d2}
    Reports = {"STOPPED", "ACTIVE"}
    Outcomes = {"present"}
    None = None
SPECIFICATION Spec
SYMMETRY Connections
INVARIANTS
    DataOfSession
    RelayOwned
    HandshakeNotLast
    LossCountedOnce
PROPERTY ImplementsRegistry
