CONSTANTS
    a = a
    b = b
    c = c
    ab = ab
    cc = cc
    MaxMentions = 2
    Files = {f1, f2}
    Paths <- MCPaths
    Contents <- MCContents
    Renames <- MCRenames
    MaxCrashes = 1
    Bases = {b1, b2, b3}
    Heirs = {h1, h2}
    Artifacts = 2
    Minors <- MCMinors
    MaxPatch = 0
    MaxCommits = 3
    Workflows = {w1}
    Maintainers = {m1}
    SolFiles = {c1, c2}
    MaxNumber = 2
    MaxRc = 1
    MaxEdits = 2
SPECIFICATION ScriptsSpec
INVARIANTS
    OnlyPathsMove
    DamageBounded
    NothingLeft
    UpdatesCount
    PairsReported
    TagsTrue
PROPERTIES
    NeverOlderMinor
SYMMETRY MCSymmetry
CHECK_DEADLOCK FALSE
