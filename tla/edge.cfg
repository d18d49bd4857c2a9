SPECIFICATION MCSpec
CONSTANTS
    Node = {n1}
    Addr = {x1, x2}
    NoAddr = NoAddr
    Flaky = {x1}
    Req = {r1}
    Checker = checker
    MaxClient = 3
    MaxCrash = 1
    Faults = {"upload", "patch", "erase"}
    app = app
    APP = APP
    Depl = {d1}
    Host = {app, APP}
    Slug = {app}
    Null = Null
    Handler = {q1, q2}
    Fold <- MCFold
    ClientLists <- MCLists
    StoreFaults = {"store"}
INVARIANTS
    ConnectionsBounded
    MaintenanceHolds
    ForwardedWasPointed
    ListsFollowRequests
PROPERTY
    FleetStatus
CHECK_DEADLOCK FALSE
