SPECIFICATION Spec
CONSTANTS
    f1 = f1
    f2 = f2
    f3 = f3
    e1 = e1
    e2 = e2
    NoJob = NoJob
    NoOrder = NoOrder
    Orders = {f1, e1, e2}
    Amount <- MCAmount
    Disbursable = {f1, e1, e2}
    FAST_LANE_THRESHOLD_IDR = 1
    DAILY_LIMIT_IDR = 9
    MAX_RETRIES = 3
    XENDIT_RETRIES = 2
    AccountLength = 10
    KeySet = FALSE
    Dedupes = FALSE
    RowFirst = FALSE
    CallbackLate = TRUE
    Faults = {"callback"}
    MaxDuplicates = 1
    MaxDisbursements = 2
SYMMETRY SameLane
INVARIANTS
    PaidOnce
PROPERTIES
    CompletedStays
