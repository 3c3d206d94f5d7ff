--------------------------- MODULE MigrateImports ---------------------------
(***************************************************************************)
(* scripts/migrate-imports.js, which moves the imports of a project to the *)
(* paths of a newer release.  A file is the sequence of the library paths  *)
(* it mentions; what stands between them stays as it is.  The script may   *)
(* be interrupted and run again, and what it broke be restored from        *)
(* version control.                                                        *)
(***************************************************************************)
EXTENDS Integers, Sequences, FiniteSets

CONSTANTS
    Files,         \* the files below contracts/ whose names end in .sol
    Paths,         \* what a file may mention
    Contents,      \* what a file may hold before the first run
    Renames,       \* pathUpdates, two entries a line: the plain and the upgradeable path
    MaxCrashes     \* how often the script is interrupted

Old == {Renames[i].old : i \in DOMAIN Renames}

\* As in the table of the script, no path moves twice.
ASSUME TableAssumption ==
    /\ Renames \in Seq([old : Paths, new : Paths])
    /\ \A i \in DOMAIN Renames : Renames[i].new \notin Old
    /\ Contents \subseteq Seq(Paths)

ASSUME FilesAssumption == IsFiniteSet(Files)

VARIABLES
    disk,          \* what each file holds
    given,         \* history: what version control has of it
    pc,            \* where main and updateFile stand
    todo,          \* the files that are still to be visited
    file,          \* the file in hand,
    content,       \* what it held when it was read,
    source,        \* and what updateImportPaths has made of that
    next,          \* the next entry of the table
    updated,       \* updatedFiles
    reported,      \* the last run came to its end, and nothing has been restored since
    crashes,
    before         \* history: the mentions of old paths when the run started

local == <<file, content, source, next>>

vars == <<disk, given, pc, todo, local, updated, reported, crashes, before>>

\* The places where a file mentions an old path.
Stale(d) == UNION {{f} \X {i \in DOMAIN d[f] : d[f][i] \in Old} : f \in Files}

Init ==
    /\ given \in [Files -> Contents]
    /\ disk = given
    /\ pc = "idle"
    /\ todo = {}
    /\ file \in Files
    /\ content = <<>>
    /\ source = <<>>
    /\ next = 1
    /\ updated = {}
    /\ reported = FALSE
    /\ crashes = 0
    /\ before = 0

\* main: the files are listed, in whatever order they are visited.
Start ==
    /\ pc = "idle"
    /\ pc' = "visiting"
    /\ todo' = Files
    /\ updated' = {}
    /\ reported' = FALSE
    /\ before' = Cardinality(Stale(disk))
    /\ UNCHANGED <<disk, given, local, crashes>>

\* Bug: updateImportPaths goes on with what it made of the file before.
ReadOnto(f) ==
    /\ pc = "visiting"
    /\ f \in todo
    /\ pc' = "replacing"
    /\ file' = f
    /\ content' = disk[f]
    /\ source' = IF source = <<>> THEN disk[f] ELSE source
    /\ next' = 1
    /\ UNCHANGED <<disk, given, todo, updated, reported, crashes, before>>

\* updateFile reads the file.
Read(f) ==
    /\ pc = "visiting"
    /\ f \in todo
    /\ pc' = "replacing"
    /\ file' = f
    /\ content' = disk[f]
    /\ source' = disk[f]
    /\ next' = 1
    /\ UNCHANGED <<disk, given, todo, updated, reported, crashes, before>>

\* replace, given a string, moves the first mention of it and no other.
ReplaceFirst(rename) ==
    \/ /\ \A i \in DOMAIN source : source[i] # rename.old
       /\ UNCHANGED source
    \/ \E i \in DOMAIN source :
        /\ source[i] = rename.old
        /\ \A j \in 1 .. i - 1 : source[j] # rename.old
        /\ source' = [source EXCEPT ![i] = rename.new]

\* One replacement of updateImportPaths
Replace ==
    /\ pc = "replacing"
    /\ next \in DOMAIN Renames
    /\ ReplaceFirst(Renames[next])
    /\ next' = next + 1
    /\ UNCHANGED <<disk, given, pc, todo, file, content, updated, reported, crashes, before>>

\* The whole table has been applied.
Replaced == pc = "replacing" /\ next = Len(Renames) + 1

\* updateFile leaves a file alone that has not changed.
Keep ==
    /\ Replaced
    /\ source = content
    /\ pc' = "visiting"
    /\ todo' = todo \ {file}
    /\ UNCHANGED <<disk, given, local, updated, reported, crashes, before>>

\* Bug: it does not compare.
OpenAlways ==
    /\ Replaced
    /\ pc' = "writing"
    /\ disk' = [disk EXCEPT ![file] = <<>>]
    /\ UNCHANGED <<given, todo, local, updated, reported, crashes, before>>

\* Bug: main does not wait for the file to be written.
OpenAndGoOn ==
    /\ Replaced
    /\ source # content
    /\ pc' = "visiting"
    /\ todo' = todo \ {file}
    /\ disk' = [disk EXCEPT ![file] = <<>>]
    /\ UNCHANGED <<given, local, updated, reported, crashes, before>>

\* writeFile opens the file, which empties it,
Open ==
    /\ Replaced
    /\ source # content
    /\ pc' = "writing"
    /\ disk' = [disk EXCEPT ![file] = <<>>]
    /\ UNCHANGED <<given, todo, local, updated, reported, crashes, before>>

\* Bug: updateFile does not answer that it has updated the file.
WriteUnnoticed ==
    /\ pc = "writing"
    /\ pc' = "visiting"
    /\ disk' = [disk EXCEPT ![file] = source]
    /\ todo' = todo \ {file}
    /\ UNCHANGED <<given, local, updated, reported, crashes, before>>

\* fills it again from the start, in as many parts as it likes,
Fill ==
    /\ pc = "writing"
    /\ \E n \in Len(disk[file]) + 1 .. Len(source) - 1 :
          disk' = [disk EXCEPT ![file] = SubSeq(source, 1, n)]
    /\ UNCHANGED <<given, pc, todo, local, updated, reported, crashes, before>>

\* and is done.
Write ==
    /\ pc = "writing"
    /\ pc' = "visiting"
    /\ disk' = [disk EXCEPT ![file] = source]
    /\ todo' = todo \ {file}
    /\ updated' = updated \union {file}
    /\ UNCHANGED <<given, local, reported, crashes, before>>

\* main prints which files were updated, or that none was.
Report ==
    /\ pc = "visiting"
    /\ todo = {}
    /\ pc' = "idle"
    /\ reported' = TRUE
    /\ UNCHANGED <<disk, given, todo, local, updated, crashes, before>>

\* The script is interrupted, or one of its calls fails.
Crash ==
    /\ pc # "idle"
    /\ crashes < MaxCrashes
    /\ pc' = "idle"
    /\ crashes' = crashes + 1
    /\ UNCHANGED <<disk, given, todo, local, updated, reported, before>>

\* A file is restored from version control.
Restore(f) ==
    /\ pc = "idle"
    /\ disk[f] # given[f]
    /\ disk' = [disk EXCEPT ![f] = given[f]]
    /\ reported' = FALSE
    /\ UNCHANGED <<given, pc, todo, local, updated, crashes, before>>

Next ==
    \/ Start
    \/ \E f \in Files : Read(f)
    \/ Replace
    \/ Keep
    \/ Open
    \/ Fill
    \/ Write
    \/ Report
    \/ Crash
    \/ \E f \in Files : Restore(f)

Spec == Init /\ [][Next]_vars
-----------------------------------------------------------------------------
Renamed(a, b) == \E i \in DOMAIN Renames : a = Renames[i].old /\ b = Renames[i].new

\* b is a, or the beginning of a, after some of its paths have moved.
Moved(a, b) ==
    /\ Len(b) <= Len(a)
    /\ \A i \in DOMAIN b : a[i] = b[i] \/ Renamed(a[i], b[i])

\* However often the script is run, interrupted, and run over its own results, it does
\* nothing to a file but to move paths by the table and to lose its end.
OnlyPathsMove == \A f \in Files : Moved(given[f], disk[f])

\* The end of a file is not lost but for an interruption, which costs one file at most,
\* whether it is left empty or with a part of what was written.
DamageBounded ==
    Cardinality({f \in Files : Len(disk[f]) < Len(given[f])})
        <= crashes + (IF pc = "writing" THEN 1 ELSE 0)

\* No path is left that the table moves.
UpToDate(s) == \A i \in DOMAIN s : s[i] \notin Old

\* "No files were updated" is printed only when no old path is left, though one run may
\* well leave some: replace moves one mention of a path a run.
NothingLeft ==
    reported /\ updated = {} => \A f \in Files : UpToDate(disk[f])

\* Every file that is reported has lost an old path, so that running the script again and
\* again comes to an end.
UpdatesCount ==
    pc # "idle" => Cardinality(Stale(disk)) + Cardinality(updated) <= before
=============================================================================
