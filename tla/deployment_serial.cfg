SPECIFICATION SerialSpec
CONSTANTS
    Depl = {d1, d2}
    Node = {n1}
    Req = {r1, r2}
    NoDepl = NoDepl
    NoNode = NoNode
    PortStart = 30000
    PortEnd = 30001
    MaxDeployments = 0
    Targets = {}
    PatchStatus = {}
    PatchNode = {}
    PatchPort = {}
    Faults = {"crash", "disconnect", "store"}
INVARIANTS
    RouteReachesContainer
    RunningHasContainers
PROPERTY ImplementsStateMachine
SYMMETRY Symmetry
CHECK_DEADLOCK FALSE
