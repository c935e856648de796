SPECIFICATION Spec
CONSTANTS
    j1 = j1
    j2 = j2
    n1 = n1
    n2 = n2
    n3 = n3
    Job = {j1}
    Node = {n1}
    Session <- NoReconnect
    Sampled = {}
    MaxAttempts = 2
    MaxOps = 0
    MaxCrashes = 0
    Faults = {}
    None = None
INVARIANT ChargedJobSucceeded
CHECK_DEADLOCK FALSE
