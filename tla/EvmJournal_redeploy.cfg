SPECIFICATION Spec
CONSTANTS
    user = user
    app = app
    child = child
    mine = mine
    token = token
    legacy = legacy
    eof1 = eof1
    zero = zero
    one = one
    pool = pool
    wallet = wallet
    vault = vault
    deposit = deposit
    o1 = o1
    o2 = o2
    NoCode = NoCode
    Origins = {user}
    NeonToken = token
    Indices = {0}
    Cells = {zero, one}
    Zero = zero
    Addresses = {user, app, child, token}
    from_create <- NobodyCreates
    from_create2 <- ContractCreates2
    Codes = {legacy}
    EofCodes = {}
    Collectors = {app}
    GasCosts = {0}
    Values = {1}
    Genesis <- RichContract
    SolanaKeys = {pool, wallet, vault}
    Pool = pool
    Wallets = {wallet}
    derived <- VaultOfApp
    Deposit = deposit
    Operators = {o1, o2}
    SolanaGenesis <- WalletMissing
    Others = {wallet}
    MaxActions = 4
    MaxDepth = 2
    MaxTrxs = 2
INVARIANTS CreatedOnCleanStorage NeonBacked
PROPERTIES AppliedAsViewed CheckedInstructionsAccepted
CHECK_DEADLOCK FALSE
