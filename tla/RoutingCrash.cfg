SPECIFICATION Spec
CONSTANTS
    j1 = j1
    j2 = j2
    n1 = n1
    n2 = n2
    n3 = n3
    Job = {j1}
    Node = {n1, n2}
    Session <- OneReconnects
    Sampled = {j1}
    MaxAttempts = 3
    MaxOps = 1
    MaxCrashes = 1
    Faults = {"db", "refuse"}
    None = None
INVARIANT NoLeakedReservation
PROPERTY FinishedForever
CHECK_DEADLOCK FALSE
