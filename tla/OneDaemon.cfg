CONSTANTS
    Instances = {p1, p2, p3}
    Faults = {}
    None = None
SPECIFICATION Spec
INVARIANT OneDaemon
