CONSTANTS
    Null = Null
    Accounts = {u, h, r}
    Registrar = r
    Tokens = {t}
    HookContracts = {h}
    NotaHooks = {h}
    Callers = {u}
    Recipients = {u, r}
    Operators = {}
    GovRecipients = {u}
    GovOwners = {u}
    MCHoldings = 40
    MCApproved = 40
    MaxUint = 40
    MaxTotal = 40
    MaxNotas = 2
    MaxDepth = 2
    MaxGas = 1
    Amounts = {20, 40}
    Instants = {0, 20}
    HookFees = {0, 20, 40}
    GovAmounts = {20}
    ProtocolAmounts = {}
    ProtocolFees = {0}
    Grants = {20}
    Gifts = {20}
    NotaIds <- MCIds
    Supply <- MCSupply
    Approved <- MCAllowances
SPECIFICATION Spec
INVARIANTS
    UncheckedCreditSafe
