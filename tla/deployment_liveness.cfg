SPECIFICATION FairSpec
CONSTANTS
    Depl = {d1}
    Node = {n1}
    Req = {r1, r2}
    NoDepl = NoDepl
    NoNode = NoNode
    PortStart = 30000
    PortEnd = 30000
    MaxDeployments = 0
    Targets = {"starting", "running", "stopped", "failed"}
    PatchStatus = {}
    PatchNode = {}
    PatchPort = {0, 30000}
    Faults = {}
PROPERTY CommandsFinish
CHECK_DEADLOCK FALSE
