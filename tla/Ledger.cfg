SPECIFICATION Spec
CONSTANTS
    p1 = p1
    p2 = p2
    Attempt <- Racing
    JobOf <- Jobs
    NodeOf <- Nodes
    Verifying = {"v"}
    CustomerOf <- Customers
    HostOrgOf <- HostOrgs
    Prompt <- Prompts
    Completion <- Outputs
    InputPrice = 1000000
    OutputPrice = 1000000
    HostPrice = 500000
    Overhead = 0
    Batch = {"b1", "b2"}
    Callers = {"cli", "api"}
    Proc = {p1, p2}
    Poster = {p1, p2}
    CanFail = TRUE
    None = None
SYMMETRY ProcSymmetry
CONSTRAINT ApiPaysOneJob
INVARIANT PostingsSafe
 
INVARIANT HoldFollowsBatch
PROPERTY CreditLifecycle
