SPECIFICATION FairSpec
CONSTANTS
    j1 = j1
    j2 = j2
    n1 = n1
    n2 = n2
    n3 = n3
    Job = {j1, j2}
    Node = {n1}
    Session <- NoReconnect
    Sampled = {j1}
    MaxAttempts = 2
    MaxOps = 0
    MaxCrashes = 1
    Faults = {"db", "lease", "lose"}
    None = None
PROPERTY KeepsContractFairly
PROPERTY ReaderReturns
CHECK_DEADLOCK FALSE
