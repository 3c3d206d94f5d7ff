CONSTANTS
    Null = Null
    Accounts = {u1, u2, u3, h, r}
    Registrar = r
    Tokens = {t}
    HookContracts = {h}
    NotaHooks = {h}
    Callers = {u1, u2, u3}
    Recipients = {u1, u2, u3, Null}
    Operators = {u1, u2, u3}
    GovRecipients = {}
    GovOwners = {h}
    MCHoldings = 40
    MCApproved = 32767
    MaxUint = 32767
    MaxTotal = 20
    MaxNotas = 1
    MaxDepth = 2
    MaxGas = 1
    Amounts = {0}
    Instants = {0}
    HookFees = {0}
    GovAmounts = {}
    ProtocolAmounts = {}
    ProtocolFees = {}
    Grants = {}
    Gifts = {}
    NotaIds <- MCIds
    Supply <- MCSupply
    Approved <- MCAllowances
SPECIFICATION Spec
INVARIANTS
    RegistriesAgree
    BalancesCount
PROPERTIES
    MovesAreAuthorised
    ApprovalsEnd
SYMMETRY MCSymmetry
