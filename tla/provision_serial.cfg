SPECIFICATION SerialSpec
CONSTANTS
    MaxProv = 2
    Instance = {i1, i2}
    NodeId = {n1}
    Req = {r1}
    Worker = worker
    NoInst = NoInst
    NoNode = NoNode
    Batch = 2
    CreatedAtIsText = TRUE
    Targets = {"failed", "destroying"}
    PatchStatus = {}
    PatchInstance = {}
    PatchNode = {NoNode}
    Faults = {"crash", "disconnect", "store"}
INVARIANTS
    TypeOK
    ReadyHasNode
PROPERTIES
    CloudFollowsStatus
    ImplementsStateMachine
SYMMETRY Symmetry
CHECK_DEADLOCK FALSE
