SPECIFICATION Spec
CONSTANTS
    j1 = j1
    j2 = j2
    n1 = n1
    n2 = n2
    n3 = n3
    Job = {j1, j2}
    Node = {n1, n2}
    Session <- NoReconnect
    Sampled = {}
    MaxAttempts = 3
    MaxOps = 0
    MaxCrashes = 0
    Faults = {"lease", "lose"}
    None = None
SYMMETRY Symmetry
INVARIANT WaiterIsReachable
CHECK_DEADLOCK FALSE
