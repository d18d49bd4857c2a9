SPECIFICATION MCSpec
CONSTANTS
    User = {u1}
    MaxInvoice = 2
    MaxSession = 2
    MaxCents = 2
    MaxMonth = 2
    MaxEdits = 1
    EditStatus = {"draft", "paid"}
    EditTotal = {1}
    EditMonth = {1}
    Payer = r1
    Req = {r1, r2}
    GenLimit = 2
    VerifyLimit = 2
    Faults = {"crash", "store", "stripe"}
    Event = {e1, e2, e3}
    MaxTime = 2
    BatchSize = 2
    ReporterFaults = {"crash", "store", "send", "reject"}
INVARIANTS
    PaidWasPaid
    OneInvoicePerMonth
    ChargedAmount
    PaymentIsCredited
    BatchHasStore
PROPERTIES
    ImplementsMetering
    EventuallyReported
CHECK_DEADLOCK FALSE
