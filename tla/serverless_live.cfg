SPECIFICATION LiveSpec
CONSTANTS
    t1 = t1
    t2 = t2
    w1 = w1
    s1 = s1
    s2 = s2
    p1 = p1
    p2 = p2
    i1 = i1
    NoTx = NoTx
    NoWallet = NoWallet
    NoIntent = NoIntent
    Instances = {s1}
    Intents = {i1}
    Slots = {p1, p2}
    Txs = {t1}
    Wallets = {w1}
    Signer <- OneSigner
    Memo <- OneMemo
    Claims = {NoWallet}
    Orders <- AllOrders
    MIN_DISBURSEMENT_IDR = 2
    MIN_REDEEM_IDR = 3
    Faults = {"rpc", "refused", "lost", "rejected", "kv", "kill"}
    MaxCalls = 2
PROPERTIES
    EveryCallReturns
    CompletedIsSettled
CHECK_DEADLOCK FALSE
