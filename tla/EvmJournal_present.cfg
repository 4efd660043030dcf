SPECIFICATION Spec
CONSTANTS
    user = user
    app = app
    child = child
    mine = mine
    token = token
    legacy = legacy
    eof1 = eof1
    zero = zero
    one = one
    pool = pool
    wallet = wallet
    vault = vault
    deposit = deposit
    o1 = o1
    o2 = o2
    NoCode = NoCode
    Origins = {user}
    NeonToken = token
    Indices = {0}
    Cells = {zero, one}
    Zero = zero
    Addresses = {user, app, child, token}
    from_create <- NobodyCreates
    from_create2 <- ContractCreates2
    Codes = {legacy}
    EofCodes = {}
    Collectors = {app}
    GasCosts = {0}
    Values = {0, 1}
    Genesis <- OneContract
    SolanaKeys = {pool, wallet}
    Pool = pool
    Wallets = {wallet}
    derived <- NoVault
    Deposit = deposit
    Operators = {o1}
    SolanaGenesis <- WalletThere
    Others = {}
    MaxActions = 6
    MaxDepth = 2
    MaxTrxs = 1
INVARIANT MutableAccountsPresent
CHECK_DEADLOCK FALSE
