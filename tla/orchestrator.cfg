SPECIFICATION FairSpec
CONSTANTS
    web = web
    db = db
    Service = {web, db}
    NoService = NoService
    Graphs <- MCGraphs
    Hidings <- MCHidings
    Restarts = {web}
    WithPorts = {web, db}
    Volume = {data}
    MaxCopy = 3
    MaxLate = 1
    Faults = {"lost", "crash", "exit"}
INVARIANT TypeOK
PROPERTIES
    StartedIsRunning
    DependenciesFirst
    FailedStartCleansUp
    StoppedAndGone
    StartsInTheEnd
CHECK_DEADLOCK FALSE
