SPECIFICATION Spec
CONSTANTS
    user = user
    app = app
    child = child
    mine = mine
    token = token
    legacy = legacy
    eof1 = eof1
    zero = zero
    one = one
    pool = pool
    wallet = wallet
    vault = vault
    deposit = deposit
    o1 = o1
    o2 = o2
    NoCode = NoCode
    Origins = {user}
    NeonToken = token
    Indices = {0}
    Cells = {zero, one}
    Zero = zero
    Addresses = {user, app, child, mine, token}
    from_create <- UserCreates
    from_create2 <- ContractCreates2
    Codes = {eof1}
    EofCodes = {eof1}
    Collectors = {child}
    GasCosts = {0, 1}
    Values = {0, 1}
    Genesis <- EofContractPaid
    SolanaKeys = {pool, wallet}
    Pool = pool
    Wallets = {wallet}
    derived <- NoVault
    Deposit = deposit
    Operators = {o1}
    SolanaGenesis <- WalletThere
    Others = {}
    MaxActions = 5
    MaxDepth = 3
    MaxTrxs = 1
INVARIANTS TypeOK SnapshotsNested StaticPure BalancesCovered JournalApplicable
PROPERTIES FailureUndone AppliedAsViewed
CHECK_DEADLOCK FALSE
