CONSTANTS
    Null = Null
    Accounts = {u, h, r}
    Registrar = r
    Tokens = {t}
    HookContracts = {h}
    NotaHooks = {h}
    Callers = {u}
    Recipients = {u}
    Operators = {}
    GovRecipients = {u}
    GovOwners = {u}
    MCHoldings = 40
    MCApproved = 32767
    MaxUint = 32767
    MaxTotal = 20
    MaxNotas = 2
    MaxDepth = 2
    MaxGas = 1
    Amounts = {10, 20}
    Instants = {0, 10}
    HookFees = {0, 10}
    GovAmounts = {10, 20}
    ProtocolAmounts = {1}
    ProtocolFees = {0, 1000}
    Grants = {32767}
    Gifts = {}
    NotaIds <- MCIds
    Supply <- MCSupply
    Approved <- MCAllowances
SPECIFICATION Spec
INVARIANTS
    TypeOK
    GuardExclusive
    CachedNotaCurrent
    Solvent
    NothingStranded
    SupplyConserved
PROPERTIES
    NotaLife
    EarningsGrow
