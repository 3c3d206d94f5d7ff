----------------------------- MODULE UpdateDocs -----------------------------
(***************************************************************************)
(* scripts/update-docs-branch.js, which publishes the documentation of the *)
(* release branch it is run on as a new commit of the branch docs-vN.x.    *)
(* The workflow runs it in a clone of its own at each push to a release    *)
(* branch, several of them at once, and maintainers may run it in clones   *)
(* they keep.  A branch is the sequence of the versions it documented.     *)
(***************************************************************************)
EXTENDS Integers, Sequences, SequencesExt

CONSTANTS
    Minors,        \* the minor releases, each as the digits it is written with
    MaxPatch,      \* the last patch of a release
    MaxCommits,    \* the longest docs branch
    Workflows,     \* the runs of the workflow that may go on at once
    Maintainers    \* the clones that are kept

Clones == Workflows \union Maintainers

VARIABLES
    release,       \* package.json on each release branch: the patch, or -1 before the final release
    docs,          \* the docs branch of the shared repository
    pc,            \* where the script stands in each clone
    version,       \* the release branch and package.json it was started on
    base,          \* publishedRef
    mine           \* the clone's own docs branch

vars == <<release, docs, pc, version, base, mine>>

None == [minor |-> <<>>, patch |-> -1]

Init ==
    /\ release = [m \in Minors |-> -1]
    /\ docs = <<>>
    /\ pc = [c \in Clones |-> "idle"]
    /\ version = [c \in Clones |-> None]
    /\ base = [c \in Clones |-> <<>>]
    /\ mine = [c \in Clones |-> <<>>]

\* npm run release final
Release(m) ==
    /\ release[m] < MaxPatch
    /\ release' = [release EXCEPT ![m] = @ + 1]
    /\ UNCHANGED <<docs, pc, version, base, mine>>

\* actions/checkout in a clone that is made for the run, or git checkout in one that is not
Checkout(c, m) ==
    /\ pc[c] = "idle"
    /\ pc' = [pc EXCEPT ![c] = "started"]
    /\ version' = [version EXCEPT ![c] = [minor |-> m, patch |-> release[m]]]
    /\ mine' = IF c \in Workflows THEN [mine EXCEPT ![c] = <<>>] ELSE mine
    /\ UNCHANGED <<release, docs, base>>

IsPrerelease(v) == v.patch = -1

\* The docs branches that git rev-parse --glob finds, after the fetch.
Refs(c) == {docs, mine[c]} \ {<<>>}

\* Bug: nothing is newer.
NeverLess(minor, published) == FALSE

\* "current.minor < publishedMinor" compares two strings.
IsLess(minor, published) ==
    \/ IsStrictPrefix(minor, published)
    \/ \E i \in DOMAIN minor \intersect DOMAIN published :
        /\ minor[i] < published[i]
        /\ \A j \in 1 .. i - 1 : minor[j] = published[j]

\* The script has come to its end, one way or another.
End(c) ==
    /\ pc' = [pc EXCEPT ![c] = "idle"]
    /\ version' = [version EXCEPT ![c] = None]
    /\ base' = [base EXCEPT ![c] = <<>>]

\* The script gives up, having changed nothing: it refuses to document a prerelease,
\* finds more than one docs branch, or one of a newer version.
Refuse(c) ==
    /\ pc[c] = "started"
    /\ \/ IsPrerelease(version[c])
       \/ \E r1, r2 \in Refs(c) : r1 # r2
       \/ \E ref \in Refs(c) : IsLess(version[c].minor, Last(ref).minor)
    /\ End(c)
    /\ UNCHANGED <<release, docs, mine>>

\* The script fetches and looks for the docs branch, and goes to the one it finds or makes
\* one.
Prepare(c) ==
    /\ pc[c] = "started"
    /\ ~ IsPrerelease(version[c])
    /\ \A r1, r2 \in Refs(c) : r1 = r2
    /\ \A ref \in Refs(c) : ~ IsLess(version[c].minor, Last(ref).minor)
    /\ \/ Refs(c) = {} /\ base' = [base EXCEPT ![c] = <<>>]
       \/ \E ref \in Refs(c) : base' = [base EXCEPT ![c] = ref]
    /\ mine' = [mine EXCEPT ![c] = base'[c]]
    /\ pc' = [pc EXCEPT ![c] = "prepared"]
    /\ UNCHANGED <<release, docs, version>>

\* prepare-docs, the commit, and back to the release branch
Commit(c) ==
    /\ pc[c] = "prepared"
    /\ mine' = [mine EXCEPT ![c] = Append(base[c], version[c])]
    /\ pc' = [pc EXCEPT ![c] = "built"]
    /\ UNCHANGED <<release, docs, version, base>>

\* One of the commands fails, and with it the script, in the middle of its work.
Fail(c) ==
    /\ pc[c] \in {"started", "prepared"}
    /\ End(c)
    /\ UNCHANGED <<release, docs, mine>>

\* git push --all origin: a branch that others have moved on meanwhile is rejected.
Push(c) ==
    /\ pc[c] = "built"
    /\ docs' = IF IsPrefix(docs, mine[c]) THEN mine[c] ELSE docs
    /\ End(c)
    /\ UNCHANGED <<release, mine>>

\* A maintainer does not push, or not yet.
Leave(c) ==
    /\ pc[c] = "built"
    /\ c \in Maintainers
    /\ End(c)
    /\ UNCHANGED <<release, docs, mine>>

Next ==
    \/ \E m \in Minors : Release(m)
    \/ \E c \in Clones, m \in Minors : Checkout(c, m)
    \/ \E c \in Clones :
        \/ Refuse(c)
        \/ Prepare(c)
        \/ Len(base[c]) < MaxCommits /\ Commit(c)
        \/ Fail(c)
        \/ Push(c)
        \/ Leave(c)

Spec == Init /\ [][Next]_vars
-----------------------------------------------------------------------------
\* The number that digits write
NumberOf(digits) ==
    LET first[n \in 0 .. Len(digits)] == IF n = 0 THEN 0 ELSE 10 * first[n - 1] + digits[n]
    IN  first[Len(digits)]

\* n comes after m, or is m, in the order of a dictionary.
InTurn(m, n) ==
    \/ IsPrefix(m, n)
    \/ \E i \in DOMAIN m \intersect DOMAIN n :
        /\ m[i] < n[i]
        /\ \A j \in 1 .. i - 1 : m[j] = n[j]

Published == docs' # docs

\* n may be published over m: among minors of as many digits, n is not the older one, and
\* among all of them, it does not come before m in a dictionary.  The second is the order
\* the script keeps, in which 10 comes before 9.
NotOlder(m, n) ==
    /\ Len(m) = Len(n) => NumberOf(m) <= NumberOf(n)
    /\ InTurn(m, n)

\* "Refusing to update docs: newer version is published": whatever runs there are at once,
\* and whatever is pushed in which order, what is published is not older than anything
\* that has been before.
NeverOlderMinor ==
    [][Published => \A i \in DOMAIN docs : NotOlder(docs[i].minor, Last(docs').minor)]_vars
=============================================================================
