SPECIFICATION FairSpec
CONSTANTS
    MaxProv = 2
    Instance = {i1}
    NodeId = {n1}
    Req = {r1}
    Worker = worker
    NoInst = NoInst
    NoNode = NoNode
    Batch = 1
    CreatedAtIsText = FALSE
    Targets = {"failed", "destroying"}
    PatchStatus = {}
    PatchInstance = {}
    PatchNode = {}
    Faults = {}
PROPERTIES
    ProvisionsSettle
CHECK_DEADLOCK FALSE
