SPECIFICATION Spec
CONSTANTS
    j1 = j1
    j2 = j2
    n1 = n1
    n2 = n2
    n3 = n3
    Job = {j1}
    Node = {n1, n2}
    Session <- OneReconnects
    Sampled = {j1}
    MaxAttempts = 3
    MaxOps = 0
    MaxCrashes = 0
    Faults = {"late", "lease", "lose", "send"}
    None = None
INVARIANT TypeOK
INVARIANT ChargedOnce
INVARIANT RegisteredIsServed
INVARIANT DuplicateElsewhere
PROPERTY RegistrationKept
PROPERTY KeepsContract
CHECK_DEADLOCK FALSE
