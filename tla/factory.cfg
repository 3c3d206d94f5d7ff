CONSTANTS
    Users = {u1, u2}
    Null = Null
    Nonces = {1}
    InitCodes = {c1, c2}
    MaxDepth = 3
    MaxGas = 3
SPECIFICATION Spec
INVARIANTS
    NeverTwice
    RecordComplete
SYMMETRY MCFactorySymmetry
CHECK_DEADLOCK FALSE
