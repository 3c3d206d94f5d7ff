------------------------------ MODULE Release ------------------------------
(***************************************************************************)
(* A release branch as scripts/release/release.sh moves it from version to *)
(* version: npm version bumps package.json, runs the scripts that bring    *)
(* the changelog, the other package.json and the comments of the contracts *)
(* up to the version, commits and tags.                                    *)
(***************************************************************************)
EXTENDS Integers, Sequences, FiniteSets

CONSTANTS
    Contracts,     \* the Solidity files that are not mocks
    MaxNumber,     \* the last release number
    MaxRc,         \* the last release candidate of each
    MaxEdits       \* how often a file is changed

Final == MaxRc + 1

\* 4.8.0-rc.1 has the number of 4.8.0 and the candidate 1, 4.8.0 itself the candidate Final.
Versions == [number : 0 .. MaxNumber, rc : 0 .. Final]

IsLater(v1, v2) == v1.number > v2.number \/ (v1.number = v2.number /\ v1.rc > v2.rc)

VARIABLES
    work,          \* the working tree: package, contracts, changelog, comment, text
    head,          \* the last commit
    tags,          \* the commits that were tagged
    pc             \* which script runs next

vars == <<work, head, tags, pc>>

Unreleased == [number |-> -1, dated |-> FALSE]

First == [number |-> 0, rc |-> Final]

Init ==
    /\ work = [package |-> First,                            \* its version
               contracts |-> First,                          \* that of contracts/package.json
               changelog |-> <<[number |-> 0, dated |-> TRUE]>>,
               comment |-> [f \in Contracts |-> First],      \* "last updated"
               text |-> [f \in Contracts |-> 0]]             \* the rest of the file
    /\ head = work
    /\ tags = {work}
    /\ pc = "idle"

\* What release.sh start, rc and final make of a version
NextVersions(v) ==
    IF v.rc = Final
    THEN {[number |-> v.number + 1, rc |-> 0], [number |-> v.number + 1, rc |-> Final]}
    ELSE {[v EXCEPT !.rc = @ + 1], [v EXCEPT !.rc = Final]}

\* npm version refuses to work on a tree that is not clean, and bumps package.json first.
Bump ==
    /\ pc = "idle"
    /\ work = head
    /\ \E v \in NextVersions(head.package) \intersect Versions :
          work' = [work EXCEPT !.package = v]
    /\ pc' = "changelog"
    /\ UNCHANGED <<head, tags>>

\* The entries that "## (Unreleased|version)" matches
Matching == {i \in DOMAIN work.changelog :
                /\ ~ work.changelog[i].dated
                /\ work.changelog[i].number \in {-1, work.package.number}}

\* Only a final release is dated.
NewHeader(v) == [number |-> v.number, dated |-> v.rc = Final]

\* update-changelog-release-date.js
UpdateChangelog ==
    /\ pc = "changelog"
    /\ \E i \in Matching :
        /\ \A j \in Matching : i <= j
        /\ work' = [work EXCEPT !.changelog[i] = NewHeader(work.package)]
    /\ pc' = "versions"
    /\ UNCHANGED <<head, tags>>

\* "Missing changelog entry"
MissingEntry ==
    /\ pc = "changelog"
    /\ Matching = {}
    /\ pc' = "failed"
    /\ UNCHANGED <<work, head, tags>>

\* Bug: it takes the version of the last commit.
SynchronizeLate ==
    /\ pc = "versions"
    /\ work' = [work EXCEPT !.contracts = head.package]
    /\ pc' = "comments"
    /\ UNCHANGED <<head, tags>>

\* synchronize-versions.js
SynchronizeVersions ==
    /\ pc = "versions"
    /\ work' = [work EXCEPT !.contracts = work.package]
    /\ pc' = "comments"
    /\ UNCHANGED <<head, tags>>

\* semver.lt(semver.coerce(tag), version): the candidates of a release are not older.
IsOlder(t, v) == t.package.number < v.number

\* "Get latest tag according to semver."
LatestTag(v) ==
    CHOOSE t \in tags :
        /\ IsOlder(t, v)
        /\ \A s \in tags : IsOlder(s, v) => ~ IsLater(s.package, t.package)

\* git diff tag HEAD
Differs(t, f) == head.text[f] # t.text[f] \/ head.comment[f] # t.comment[f]

\* update-comment.js
UpdateComment ==
    /\ pc = "comments"
    /\ work' = [work EXCEPT !.comment = [f \in Contracts |->
                    IF Differs(LatestTag(work.package), f) THEN work.package
                                                           ELSE work.comment[f]]]
    /\ pc' = "commit"
    /\ UNCHANGED <<head, tags>>

\* npm version commits,
Commit ==
    /\ pc = "commit"
    /\ head' = work
    /\ pc' = "tag"
    /\ UNCHANGED <<work, tags>>

\* and tags.
Tag ==
    /\ pc = "tag"
    /\ tags' = tags \union {head}
    /\ pc' = "idle"
    /\ UNCHANGED <<work, head>>

\* A command fails, and everything with it.
Fail ==
    /\ pc \notin {"idle", "failed"}
    /\ pc' = "failed"
    /\ UNCHANGED <<work, head, tags>>

\* The maintainer throws away what the failure left behind.
Reset ==
    /\ pc = "failed"
    /\ work' = head
    /\ pc' = "idle"
    /\ UNCHANGED <<head, tags>>

\* A contract is changed.
Edit(f) ==
    /\ pc = "idle"
    /\ head.text[f] < MaxEdits
    /\ head' = [head EXCEPT !.text[f] = @ + 1]
    /\ work' = head'
    /\ UNCHANGED <<tags, pc>>

\* The changelog gets an entry for what comes after a release.
AddEntry ==
    /\ pc = "idle"
    /\ Head(head.changelog).dated
    /\ head' = [head EXCEPT !.changelog = <<Unreleased>> \o @]
    /\ work' = head'
    /\ UNCHANGED <<tags, pc>>

Next ==
    \/ Bump
    \/ UpdateChangelog
    \/ MissingEntry
    \/ SynchronizeVersions
    \/ UpdateComment
    \/ Commit
    \/ Tag
    \/ Fail
    \/ Reset
    \/ \E f \in Contracts : Edit(f)
    \/ AddEntry

Spec == Init /\ [][Next]_vars
-----------------------------------------------------------------------------
\* Both packages that are published under a tag have its version.
PackagesAgree == \A t \in tags : t.contracts = t.package

\* "Sets the release date of the current release in the changelog": a tag has an entry for
\* its number, with a date if and only if it is final.
EntryDated ==
    \A t \in tags : \E i \in DOMAIN t.changelog :
        t.changelog[i] = [number |-> t.package.number, dated |-> t.package.rc = Final]

\* "last updated": a contract has not changed since the version that its comment names.
LastUpdatedTrue ==
    \A t, s \in tags : \A f \in Contracts :
        s.package = t.comment[f] => s.text[f] = t.text[f]

\* No contract of a final release names a candidate.
FinalNamesFinal ==
    \A t \in tags : t.package.rc = Final => \A f \in Contracts : t.comment[f].rc = Final

\* What a tag says of itself is true.
TagsTrue == PackagesAgree /\ EntryDated /\ LastUpdatedTrue /\ FinalNamesFinal
=============================================================================
