CONSTANTS
    Null = Null
    Accounts = {u, h1, h2, r}
    Registrar = r
    Tokens = {t}
    HookContracts = {h1, h2}
    GovRecipients = {u}
    GovOwners = {u, h1}
    Fortune <- MCSupply
    MCFortune = 20
    MaxUint = 25000
    MaxTotal = 29
    MaxDepth = 0
    MaxGas = 0
    GovAmounts = {9, 10}
    ProtocolAmounts = {1}
    ProtocolFees = {0, 999, 1000, 2000}
SPECIFICATION BooksSpec
INVARIANTS
    BooksBalance
    ProtocolShareCapped
PROPERTIES
    RenouncedForGood
CHECK_DEADLOCK FALSE
