SPECIFICATION Spec
CONSTANTS
    f1 = f1
    f2 = f2
    f3 = f3
    e1 = e1
    e2 = e2
    NoJob = NoJob
    NoOrder = NoOrder
    Orders = {f1, e1}
    Amount <- MCAmount
    Disbursable = {f1, e1}
    FAST_LANE_THRESHOLD_IDR = 1
    DAILY_LIMIT_IDR = 2
    MAX_RETRIES = 1
    XENDIT_RETRIES = 2
    AccountLength = 10
    KeySet = FALSE
    Dedupes = FALSE
    RowFirst = TRUE
    CallbackLate = FALSE
    Faults = {"refused", "lost", "dbfail", "crash"}
    MaxDuplicates = 1
    MaxDisbursements = 4
SYMMETRY SameLane
INVARIANTS
    OutflowCounted
