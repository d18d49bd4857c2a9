SPECIFICATION Spec
CONSTANTS
    Depl = {d1}
    Node = {n1}
    Req = {r1, r2}
    NoDepl = NoDepl
    NoNode = NoNode
    PortStart = 30000
    PortEnd = 30000
    MaxDeployments = 0
    Targets = {}
    PatchStatus = {}
    PatchNode = {}
    PatchPort = {}
    Faults = {}
PROPERTY StatusFollowsTable
CHECK_DEADLOCK FALSE
