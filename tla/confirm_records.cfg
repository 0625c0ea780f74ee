SPECIFICATION Spec
CONSTANTS
    i1 = i1
    i2 = i2
    r1 = r1
    r2 = r2
    t1 = t1
    t2 = t2
    w1 = w1
    w2 = w2
    NoTx = NoTx
    NoWallet = NoWallet
    Intents = {i1}
    Requests = {r1, r2}
    Txs = {t1, t2}
    Wallets = {w1, w2}
    Signer <- MCSigner
    Delivered <- MCDelivered
    Due <- SameDue
    Inputs = {"partner", "evict", "expire", "restart", "syncfail", "unheard"}
    MaxBuilds = 0
    Claims = {w2}
    OneCallPerIntent = FALSE
    OneCallPerTx = FALSE
    BuildThenConfirm = FALSE
SYMMETRY Interchangeable
INVARIANTS
    LockHasOwner
    PaidOnChain
    QueuedHasOrder
