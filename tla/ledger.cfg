CONSTANTS
    Null = Null
    Accounts = {u1, u2, h, r}
    Registrar = r
    Tokens = {t}
    HookContracts = {h}
    NotaHooks = {h}
    Callers = {u1, u2}
    Recipients = {u1, u2}
    Operators = {}
    GovRecipients = {h}
    GovOwners = {h}
    MCHoldings = 20
    MCApproved = 32767
    MaxUint = 32767
    MaxTotal = 10
    MaxNotas = 1
    MaxDepth = 2
    MaxGas = 1
    Amounts = {10, 20}
    Instants = {0}
    HookFees = {0, 10}
    GovAmounts = {10}
    ProtocolAmounts = {1}
    ProtocolFees = {1000}
    Grants = {}
    Gifts = {}
    NotaIds <- MCIds
    Supply <- MCSupply
    Approved <- MCAllowances
SPECIFICATION Spec
SYMMETRY MCSymmetry
PROPERTY ImplementsLedger
CHECK_DEADLOCK FALSE
