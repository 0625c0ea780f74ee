SPECIFICATION Spec
CONSTANTS
    ID = ID
    DOT = DOT
    BLANK = BLANK
    NAME = NAME
    GOPAY = GOPAY
    DANA = DANA
    DANAMON = DANAMON
    BCA = BCA
    BLU = BLU
    Brands = {GOPAY, DANA, DANAMON, BLU, BCA}
    BackendBrand <- MCBackendBrand
    BrandOrder <- MCBrandOrder
    Within <- MCWithin
    NmidBank <- MCNmidBank
    NameCells = 3
    AccountCells = 4
    AccountMax = 16
    IdCells = 6
    IdMax = 12
    RATE_LIMIT_PER_MIN = 1
    Cells <- MCCells
    Codes <- MCCodes
    Damages <- MCDamages
    Payments <- MCPayments
    Histories <- MCHistories
    Traffic <- MCTraffic
    MaxFee = 20000
INVARIANTS
    BackendReadsCode
    DamageRejected
    DecodersAgree
    EstablishedNotBlocked
    VelocityIsRecent
    LimitHolds
    NoLockout
    FeeSharesAgree
CHECK_DEADLOCK FALSE
