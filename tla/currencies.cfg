CONSTANTS
    Null = Null
    Accounts = {u, h1, h2, r}
    Registrar = r
    Tokens = {t1, t2}
    HookContracts = {h1, h2}
    NotaHooks = {h1, h2}
    Callers = {u}
    Recipients = {u}
    Operators = {}
    GovRecipients = {u}
    GovOwners = {u}
    MCHoldings = 20
    MCApproved = 32767
    MaxUint = 32767
    MaxTotal = 10
    MaxNotas = 2
    MaxDepth = 1
    MaxGas = 0
    Amounts = {10}
    Instants = {0}
    HookFees = {0, 10}
    GovAmounts = {10}
    ProtocolAmounts = {1}
    ProtocolFees = {1000}
    Grants = {32767}
    Gifts = {}
    NotaIds <- MCIds
    Supply <- MCSupply
    Approved <- MCAllowances
    Losses = {10}
SPECIFICATION ElasticSpec
INVARIANTS
    OthersSolvent
SYMMETRY MCCurrencySymmetry
