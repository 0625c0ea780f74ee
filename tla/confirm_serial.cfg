SPECIFICATION Spec
CONSTANTS
    i1 = i1
    i2 = i2
    r1 = r1
    r2 = r2
    t1 = t1
    t2 = t2
    w1 = w1
    w2 = w2
    NoTx = NoTx
    NoWallet = NoWallet
    Intents = {i1, i2}
    Requests = {r1, r2}
    Txs = {t1, t2}
    Wallets = {w1, w2}
    Signer <- MCSigner
    Delivered <- MCDelivered
    Due <- SameDue
    Inputs = {"build", "partner", "helius", "reconcile", "unheard"}
    MaxBuilds = 1
    Claims = {w2, NoWallet}
    OneCallPerIntent = TRUE
    OneCallPerTx = TRUE
    BuildThenConfirm = TRUE
SYMMETRY InterchangeableAll
INVARIANTS
    TypeOK
    JobOncePerIntent
    AnswersTrue
    TxFundsOneIntent
    JobCoversDue
PROPERTIES
    PayerFixed
    LedgerSpec
