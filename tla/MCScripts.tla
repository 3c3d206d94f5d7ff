----------------------------- MODULE MCScripts -----------------------------
(***************************************************************************)
(* The scripts of a repository, one of them in use; which one is chosen at *)
(* the start, and what belongs to the others stays as it is.               *)
(***************************************************************************)
EXTENDS MigrateImports, TLC

CONSTANTS
    a, b, c, ab, cc,         \* the paths of a library
    MaxMentions,             \* of MigrateImports: how many of them a file mentions
    Bases,                   \* of InheritanceOrdering
    Heirs,
    Artifacts,
    Minors,                  \* of UpdateDocs
    MaxPatch,
    MaxCommits,
    Workflows,
    Maintainers,
    SolFiles,                \* of Release: Contracts
    MaxNumber,
    MaxRc,
    MaxEdits

\* There is a release to begin with, and minors are written with digits, as
\* releaseBranchRegex has it.
ASSUME ReleasesAssumption ==
    /\ MaxNumber \in Nat
    /\ MaxRc \in Nat
    /\ Minors \subseteq Seq(0 .. 9) \ {<<>>}

VARIABLES
    script,                                                        \* the one in use
    linearized, graph, conflicts, checked, artifact, exitCode,     \* of InheritanceOrdering,
    release, docs, docsPc, version, base, mine,                    \* of UpdateDocs,
    work, head, tags, releasePc                                    \* and of Release

orderingVars == <<linearized, graph, conflicts, checked, artifact, exitCode>>

docsVars == <<release, docs, docsPc, version, base, mine>>

releaseVars == <<work, head, tags, releasePc>>

scriptsVars == <<script, vars, orderingVars, docsVars, releaseVars>>

InheritanceOrdering == INSTANCE InheritanceOrdering

UpdateDocs == INSTANCE UpdateDocs WITH pc <- docsPc

Release == INSTANCE Release WITH pc <- releasePc, Contracts <- SolFiles

\* As in the table of the script, two old paths move to the same new one.
MCRenames == <<[old |-> a, new |-> ab], [old |-> b, new |-> ab], [old |-> c, new |-> cc]>>

MCPaths == {a, b, c, ab, cc}

\* What does not move is there too: ab stands for it.
MCContents == UNION {[1 .. n -> MCPaths \ {cc}] : n \in 1 .. MaxMentions}

\* One minor of one digit, and two of two
MCMinors == {<<9>>, <<1, 0>>, <<1, 1>>}

MCSymmetry ==
    UNION {Permutations(s) : s \in {Bases, Heirs, Workflows, Maintainers}}

Scripts == {"migrate-imports", "inheritance-ordering", "update-docs-branch", "release"}

\* Only MigrateImports starts in more than one state.
ScriptsInit ==
    /\ script \in Scripts
    /\ Init
    /\ script # "migrate-imports" =>
          /\ \A f \in Files : given[f] = <<ab>>
          /\ file = CHOOSE f \in Files : TRUE
    /\ InheritanceOrdering!Init
    /\ UpdateDocs!Init
    /\ Release!Init

ScriptsNext ==
    \/ /\ script = "migrate-imports"
       /\ Next
       /\ UNCHANGED <<script, orderingVars, docsVars, releaseVars>>
    \/ /\ script = "inheritance-ordering"
       /\ InheritanceOrdering!Next
       /\ UNCHANGED <<script, vars, docsVars, releaseVars>>
    \/ /\ script = "update-docs-branch"
       /\ UpdateDocs!Next
       /\ UNCHANGED <<script, vars, orderingVars, releaseVars>>
    \/ /\ script = "release"
       /\ Release!Next
       /\ UNCHANGED <<script, vars, orderingVars, docsVars>>

ScriptsSpec == ScriptsInit /\ [][ScriptsNext]_scriptsVars
-----------------------------------------------------------------------------
\* inheritance-ordering.js reports two contracts exactly when one chain has the one first
\* and another chain the other.
PairsReported == InheritanceOrdering!PairsReported

\* update-docs-branch.js: whatever clones run it at once, documentation is not replaced by
\* that of an older minor of as many digits, nor by one that a dictionary has before it.
NeverOlderMinor == UpdateDocs!NeverOlderMinor

\* release.sh and the scripts it runs: whatever is tagged names its versions, its date and
\* the last changes of its contracts truthfully, whichever commands failed before.
TagsTrue == Release!TagsTrue
=============================================================================
