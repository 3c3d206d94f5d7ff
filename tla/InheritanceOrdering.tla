------------------------ MODULE InheritanceOrdering ------------------------
(***************************************************************************)
(* scripts/checks/inheritance-ordering.js, which is to find contracts that *)
(* no other contract can inherit together because their own bases come in  *)
(* different orders.                                                       *)
(***************************************************************************)
EXTENDS Integers, SequencesExt

CONSTANTS
    Bases,         \* contracts without bases of their own
    Heirs,         \* contracts that inherit some of these
    Artifacts      \* how many build artifacts the script is given

VARIABLES
    linearized,    \* the chains of the artifact at hand: each contract's linearizedBaseContracts
    graph,         \* an edge from each contract of a chain to every later one
    conflicts,     \* the pairs that were reported for this artifact
    checked,       \* the pairs of this artifact have been looked through
    artifact,      \* which artifact it is
    exitCode       \* process.exitCode

vars == <<linearized, graph, conflicts, checked, artifact, exitCode>>

Contracts == Bases \union Heirs

Init ==
    /\ linearized = {}
    /\ graph = {}
    /\ conflicts = {}
    /\ checked = FALSE
    /\ artifact = 1
    /\ exitCode = 0

\* What the compiler makes of "contract heir is ...": itself, then its bases in some order.
Chains(heir) == {<<heir>> \o order : order \in SetToAllKPermutations(Bases)}

\* Bug: an edge to the next contract of the chain and no further.
EdgesToNext(chain) == {<<chain[i], chain[i + 1]>> : i \in 1 .. Len(chain) - 1}

InOrder(chain, c1, c2) == \E i, j \in DOMAIN chain : i < j /\ chain[i] = c1 /\ chain[j] = c2

EdgesOf(chain) == {e \in Contracts \X Contracts : InOrder(chain, e[1], e[2])}

\* A contract definition is visited.
Visit(heir) ==
    /\ ~ checked
    /\ \A chain \in linearized : Head(chain) # heir
    /\ \E chain \in Chains(heir) :
        /\ linearized' = linearized \union {chain}
        /\ graph' = graph \union EdgesOf(chain)
    /\ UNCHANGED <<conflicts, checked, artifact, exitCode>>

InConflict(x, y) == <<x, y>> \in graph /\ <<y, x>> \in graph

Pairs == kSubset(2, Contracts)

\* The pairs of nodes are looked through.
Check ==
    /\ ~ checked
    /\ checked' = TRUE
    /\ conflicts' = {pair \in Pairs : \A x, y \in pair : x # y => InConflict(x, y)}
    /\ exitCode' = IF conflicts' = {} THEN exitCode ELSE 1
    /\ UNCHANGED <<linearized, graph, artifact>>

\* The next artifact gets a graph of its own.
NextArtifact ==
    /\ checked
    /\ artifact < Artifacts
    /\ artifact' = artifact + 1
    /\ checked' = FALSE
    /\ linearized' = {}
    /\ graph' = {}
    /\ conflicts' = {}
    /\ UNCHANGED exitCode

Next ==
    \/ \E heir \in Heirs : Visit(heir)
    \/ Check
    \/ NextArtifact

Spec == Init /\ [][Next]_vars
-----------------------------------------------------------------------------
\* Two contracts are reported exactly when one chain has the one first and another chain
\* the other, however far apart they are.
PairsReported ==
    checked =>
        conflicts = {pair \in Pairs : \A x, y \in pair :
                        x # y => \E chain \in linearized : InOrder(chain, x, y)}
=============================================================================
