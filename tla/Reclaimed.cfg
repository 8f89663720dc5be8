CONSTANTS
    Instances = {p1, p2, p3}
    Faults = {"crash", "startFails"}
    None = None
SPECIFICATION Spec
INVARIANT Reclaimed
