SPECIFICATION AtomicAssignSpec
CONSTANTS
    Depl = {d1, d2, d3}
    Node = {n1}
    Req = {r1, r2}
    NoDepl = NoDepl
    NoNode = NoNode
    PortStart = 30000
    PortEnd = 30001
    MaxDeployments = 1
    Targets = {}
    PatchStatus = {}
    PatchNode = {}
    PatchPort = {}
    Faults = {}
INVARIANTS
    BillingFollowsStatus
    WithinPlan
PROPERTY PortWasFree
SYMMETRY Symmetry
CHECK_DEADLOCK FALSE
