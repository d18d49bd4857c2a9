SPECIFICATION Spec
CONSTANTS
    Node = {n1}
    Addr = {x1}
    NoAddr = NoAddr
    Flaky = {x1}
    Req = {r1}
    Checker = checker
    MaxClient = 3
    MaxCrash = 1
    Faults = {"upload"}
PROPERTY
    ChecksPeriodically
CHECK_DEADLOCK FALSE
