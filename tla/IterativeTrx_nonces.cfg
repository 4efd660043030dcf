SPECIFICATION Spec
CONSTANTS
    a = a
    b = b
    c = c
    o1 = o1
    o2 = o2
    h1 = h1
    h2 = h2
    t1 = t1
    t2 = t2
    t3 = t3
    Operators = {o1, o2}
    Authorized = {o1, o2}
    Crashed = {o1}
    Addresses = {a, b, c}
    Holders = {h1, h2}
    owner <- MCowner
    Trxs = {t1, t2, t3}
    NoTrx = NoTrx
    trx <- Replacements
    Precompiles = {c}
    OPERATOR_PRIORITY_SLOTS = 0
    LAMPORTS_PER_SIGNATURE = 1
    PAYMENT_TO_TREASURE = 1
    GAS_LIMIT_MULTIPLIER_NO_CHAINID = 3
    MAX_PERMITTED_DATA_INCREASE = 2
    ACCOUNT_SIZE = 1
    INTERNAL_STORAGE_SIZE = 1
    RENT_PER_BYTE = 0
    Amounts = {1}
    MaxSupply = 1
INVARIANTS SettledOnce IndInv
PROPERTIES LedgerSpec
