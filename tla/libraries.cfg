CONSTANTS
    WordSpan = 6
    AddressSpan = 4
    KeyType = "address"
    ValueType = "uint256"
    Stored = {0, 1, 5}
    MaxKey = 6
    Histories <- MCHistories
    SearchKeys <- MCKeys
    SetType = "uint256"
    Word = 7
    Lengths = {1, 2, 4, 6}
    KeyBits = 3
    ValueBits = 2
    Votes = {0}
    Deltas = {2}
    MaxBlock = 8
    TraceKeys = {0, 1, 2, 4, 5, 6, 7}
    TraceValues = {0, 1, 2}
    MaxPushes = 5
SPECIFICATION LibrariesSpec
INVARIANTS
    ListsMembers
    PlacesAgree
    ListedIsFound
    NumberKept
    PastIsKept
    RecentAgrees
    LookupsRight
    AccessInArray
    Found
PROPERTIES
    OneMoves
    ImplementsDictionary
    Ends
CHECK_DEADLOCK FALSE
