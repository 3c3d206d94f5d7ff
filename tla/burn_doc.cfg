CONSTANTS
    Null = Null
    Accounts = {u, h, r}
    Registrar = r
    Tokens = {t}
    HookContracts = {h}
    NotaHooks = {h}
    Callers = {u}
    Recipients = {u}
    Operators = {}
    GovRecipients = {u}
    GovOwners = {u}
    MCHoldings = 20
    MCApproved = 32767
    MaxUint = 32767
    MaxTotal = 20
    MaxNotas = 1
    MaxDepth = 2
    MaxGas = 1
    Amounts = {10}
    Instants = {0, 10}
    HookFees = {0, 10}
    GovAmounts = {10}
    ProtocolAmounts = {}
    ProtocolFees = {0, 1000}
    Grants = {32767}
    Gifts = {}
    NotaIds <- MCIds
    Supply <- MCSupply
    Approved <- MCAllowances
SPECIFICATION Spec
PROPERTIES
    RevertStopsBurn
