SPECIFICATION Spec
CONSTANTS
    Depl = {d1}
    Node = {n1, n2}
    Req = {r1, r2}
    NoDepl = NoDepl
    NoNode = NoNode
    PortStart = 30000
    PortEnd = 30000
    MaxDeployments = 0
    Targets = {"pending", "scheduled", "starting", "running", "stopping",
               "stopped", "deleting", "deleted", "failed"}
    PatchStatus = {}
    PatchNode = {NoNode}
    PatchPort = {}
    Faults = {"crash", "disconnect", "store"}
INVARIANTS
    TypeOK
    NodeAssigned
    ContainersOnAssignedNode
    PendingIsFresh
SYMMETRY Symmetry
CHECK_DEADLOCK FALSE
