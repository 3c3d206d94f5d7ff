--------------------------- MODULE ScriptProofs ----------------------------
(***************************************************************************)
(* The scripts.  The import migration over every project, for every table  *)
(* in which no path moves twice: it only ever moves paths, says that       *)
(* nothing is left to do only when nothing is, and costs no more than its  *)
(* interruptions.  The inheritance check over every set of chains, the     *)
(* docs branch with any number of clones, and the tags of any sequence of  *)
(* releases.                                                               *)
(***************************************************************************)
EXTENDS MCScripts, SumTheorems, SequenceTheorems, TLAPS

TypeOK ==
    /\ disk \in [Files -> Seq(Paths)]
    /\ given \in [Files -> Seq(Paths)]
    /\ pc \in {"idle", "visiting", "replacing", "writing"}
    /\ todo \subseteq Files
    /\ file \in Files
    /\ content \in Seq(Paths)
    /\ source \in Seq(Paths)
    /\ next \in 1 .. Len(Renames) + 1
    /\ updated \subseteq Files

\* What updateImportPaths works on has only moved paths.
SourceMoves ==
    pc \in {"replacing", "writing"} => Moved(given[file], source)

\* A place of the source that differs from the content has been brought up to date.
SourceAdvances ==
    pc = "replacing" =>
        /\ disk[file] = content
        /\ file \in todo
        /\ DOMAIN source = DOMAIN content
        /\ \A i \in DOMAIN source :
              source[i] = content[i] \/ (source[i] \notin Old /\ content[i] \in Old)

\* As long as nothing has changed, the entries that were applied had nothing to move.
AppliedInVain ==
    pc = "replacing" /\ source = content =>
        \A j \in 1 .. next - 1 : \A i \in DOMAIN source : source[i] # Renames[j].old

\* As long as no file was updated, those that were visited needed no update.
VisitedUpToDate ==
    pc # "idle" /\ updated = {} => \A f \in Files \ todo : UpToDate(disk[f])

\* The file that is being written has not been visited.
WritingTodo == pc = "writing" => file \in todo

MoveInv == TypeOK /\ SourceMoves /\ OnlyPathsMove

LeftInv == SourceAdvances /\ AppliedInVain /\ WritingTodo /\ VisitedUpToDate /\ NothingLeft

-----------------------------------------------------------------------------
LEMMA RenameFacts ==
    ASSUME NEW k \in DOMAIN Renames
    PROVE  /\ Renames[k].old \in Old /\ Renames[k].old \in Paths
           /\ Renames[k].new \notin Old /\ Renames[k].new \in Paths
           /\ k \in 1 .. Len(Renames)
<1>1. Renames \in Seq([old : Paths, new : Paths])
  BY TableAssumption
<1>2. k \in 1 .. Len(Renames)
  BY <1>1
<1>3. Renames[k] \in [old : Paths, new : Paths]
  BY <1>1, <1>2, ElementOfSeq
<1> QED
  BY <1>2, <1>3, TableAssumption DEF Old

\* A replacement changes nothing, and then there was nothing to replace, or one place.
LEMMA ReplaceFacts ==
    ASSUME NEW k \in DOMAIN Renames, source \in Seq(Paths), ReplaceFirst(Renames[k])
    PROVE  /\ source' \in Seq(Paths)
           /\ DOMAIN source' = DOMAIN source
           /\ \/ /\ \A i \in DOMAIN source : source[i] # Renames[k].old
                 /\ source' = source
              \/ \E i \in DOMAIN source :
                    /\ source[i] = Renames[k].old
                    /\ source'[i] = Renames[k].new
                    /\ \A j \in DOMAIN source : j # i => source'[j] = source[j]
<1>1. CASE UNCHANGED source /\ \A i \in DOMAIN source : source[i] # Renames[k].old
  BY <1>1
<1>2. CASE \E i \in DOMAIN source :
             /\ source[i] = Renames[k].old
             /\ source' = [source EXCEPT ![i] = Renames[k].new]
  <2>1. PICK i \in DOMAIN source :
             /\ source[i] = Renames[k].old
             /\ source' = [source EXCEPT ![i] = Renames[k].new]
    BY <1>2
  <2>2. Renames[k].new \in Paths
    BY RenameFacts
  <2>3. source' \in Seq(Paths)
    BY <2>1, <2>2
  <2>4. DOMAIN source' = DOMAIN source /\ source'[i] = Renames[k].new
        /\ \A j \in DOMAIN source : j # i => source'[j] = source[j]
    BY <2>1
  <2> QED BY <2>1, <2>3, <2>4
<1> QED
  BY <1>1, <1>2 DEF ReplaceFirst

\* What is written of a source is where the source has it.
LEMMA FillFacts ==
    ASSUME TypeOK, Fill
    PROVE  /\ pc = "writing" /\ disk' \in [Files -> Seq(Paths)]
           /\ UNCHANGED <<given, pc, todo, local, updated, reported, crashes, before>>
           /\ \A f \in Files \ {file} : disk'[f] = disk[f]
           /\ Len(disk'[file]) <= Len(source)
           /\ \A i \in DOMAIN disk'[file] : i \in DOMAIN source /\ disk'[file][i] = source[i]
<1>1. PICK n \in Len(disk[file]) + 1 .. Len(source) - 1 :
           disk' = [disk EXCEPT ![file] = SubSeq(source, 1, n)]
  BY DEF Fill
<1>2. /\ disk \in [Files -> Seq(Paths)] /\ file \in Files /\ source \in Seq(Paths)
      /\ Len(disk[file]) \in Nat /\ Len(source) \in Nat
  BY DEF TypeOK
<1> DEFINE part == SubSeq(source, 1, n)
<1>3. /\ n \in Nat /\ n <= Len(source)
      /\ part \in Seq(Paths) /\ Len(part) = n /\ DOMAIN part = 1 .. n
      /\ \A i \in 1 .. n : i \in DOMAIN source /\ part[i] = source[i]
  BY <1>1, <1>2
<1> HIDE DEF part
<1>4. disk' = [disk EXCEPT ![file] = part]
  BY <1>1 DEF part
<1>5. disk'[file] = part /\ disk' \in [Files -> Seq(Paths)]
  BY <1>2, <1>3, <1>4
<1>6. \A f \in Files \ {file} : disk'[f] = disk[f]
  BY <1>2, <1>4
<1>7. pc = "writing" /\ UNCHANGED <<given, pc, todo, local, updated, reported, crashes, before>>
  BY DEF Fill
<1> QED BY <1>3, <1>5, <1>6, <1>7

-----------------------------------------------------------------------------
LEMMA InitMove == Init => MoveInv
<1> SUFFICES ASSUME Init PROVE MoveInv
  OBVIOUS
<1>1. Contents \subseteq Seq(Paths) /\ Len(Renames) \in Nat
  BY TableAssumption
<1>2. TypeOK
  BY <1>1 DEF Init, TypeOK
<1>3. SourceMoves
  BY DEF Init, SourceMoves
<1>4. OnlyPathsMove
  BY DEF Init, OnlyPathsMove, Moved
<1> QED BY <1>2, <1>3, <1>4 DEF MoveInv

LEMMA NextMove == MoveInv /\ [Next]_vars => MoveInv'
<1> SUFFICES ASSUME MoveInv, [Next]_vars PROVE MoveInv'
  OBVIOUS
<1> USE DEF MoveInv
<1>0. Len(Renames) \in Nat /\ Renames \in Seq([old : Paths, new : Paths])
  BY TableAssumption
<1>1. CASE Start
  BY <1>1, <1>0 DEF Start, local, TypeOK, SourceMoves, OnlyPathsMove, Moved, Renamed
<1>2. ASSUME NEW f \in Files, Read(f) PROVE MoveInv'
  <2>1. TypeOK'
    BY <1>2, <1>0 DEF Read, TypeOK
  <2>2. source' = disk[f] /\ file' = f /\ given' = given /\ disk' = disk
    BY <1>2 DEF Read
  <2>3. SourceMoves'
    BY <2>2 DEF SourceMoves, OnlyPathsMove, Moved, Renamed
  <2>4. OnlyPathsMove'
    BY <2>2 DEF OnlyPathsMove, Moved, Renamed
  <2> QED BY <2>1, <2>3, <2>4
<1>3. CASE Replace
  <2> DEFINE r == Renames[next]
  <2>1. next \in DOMAIN Renames /\ ReplaceFirst(r) /\ pc = "replacing" /\ pc' = pc
        /\ file' = file /\ given' = given /\ disk' = disk /\ next' = next + 1
    BY <1>3 DEF Replace
  <2>2. source' \in Seq(Paths) /\ DOMAIN source' = DOMAIN source
    BY <2>1, ReplaceFacts DEF TypeOK
  <2>3. next \in 1 .. Len(Renames)
    BY <2>1, RenameFacts
  <2>4. TypeOK'
    BY <1>3, <2>2, <2>3, <1>0 DEF Replace, TypeOK
  <2>5. SourceMoves'
    <3>1. Moved(given[file], source) /\ source \in Seq(Paths)
      BY <2>1 DEF SourceMoves, TypeOK
    <3>2. Len(source') <= Len(given[file])
      <4>1. Len(source') = Len(source)
        BY <2>2, <3>1
      <4> QED BY <3>1, <4>1 DEF Moved
    <3>3. ASSUME NEW i \in DOMAIN source
          PROVE  given[file][i] = source'[i] \/ Renamed(given[file][i], source'[i])
      <4>1. given[file][i] = source[i] \/ Renamed(given[file][i], source[i])
        BY <3>1, <3>3 DEF Moved
      <4>2. CASE source'[i] = source[i]
        BY <4>1, <4>2
      <4>3. CASE source[i] = r.old /\ source'[i] = r.new
        <5>1. r.old \in Old
          BY <2>1, RenameFacts
        <5>2. ~ Renamed(given[file][i], source[i])
          BY <4>3, <5>1, RenameFacts DEF Renamed
        <5> QED BY <4>1, <4>3, <5>2, <2>1 DEF Renamed
      <4> QED BY <4>2, <4>3, <2>1, <3>3, ReplaceFacts DEF TypeOK
    <3>4. Moved(given[file], source')
      BY <3>2, <3>3, <2>2 DEF Moved
    <3> QED BY <3>4, <2>1 DEF SourceMoves, Moved, Renamed
  <2>6. OnlyPathsMove'
    BY <2>1 DEF OnlyPathsMove, Moved, Renamed
  <2> QED BY <2>4, <2>5, <2>6
<1>4. CASE Keep
  BY <1>4 DEF Keep, local, TypeOK, SourceMoves, OnlyPathsMove, Moved, Renamed
<1>5. CASE Open
  <2>1. disk' = [disk EXCEPT ![file] = <<>>] /\ given' = given /\ file' = file
        /\ source' = source /\ pc = "replacing" /\ pc' = "writing"
    BY <1>5 DEF Open, Replaced, local
  <2>2. TypeOK'
    <3>1. <<>> \in Seq(Paths)
      OBVIOUS
    <3>2. disk' \in [Files -> Seq(Paths)]
      BY <2>1, <3>1 DEF TypeOK
    <3> QED BY <1>5, <3>2 DEF Open, local, TypeOK
  <2>3. SourceMoves'
    BY <2>1 DEF SourceMoves, Moved, Renamed
  <2>4. ASSUME NEW f \in Files PROVE Moved(given[f], disk'[f])
    <3>1. CASE f = file
      <4>1. disk'[f] = <<>> /\ Len(given[f]) \in Nat
        BY <2>1, <3>1 DEF TypeOK
      <4> QED BY <4>1 DEF Moved
    <3>2. CASE f # file
      BY <2>1, <3>2 DEF OnlyPathsMove, TypeOK
    <3> QED BY <3>1, <3>2
  <2>5. OnlyPathsMove'
    BY <2>4, <2>1 DEF OnlyPathsMove, Moved, Renamed
  <2> QED BY <2>2, <2>3, <2>5
<1>11. CASE Fill
  <2>1. /\ pc = "writing" /\ disk' \in [Files -> Seq(Paths)]
        /\ UNCHANGED <<given, pc, todo, local, updated, reported, crashes, before>>
        /\ \A f \in Files \ {file} : disk'[f] = disk[f]
        /\ Len(disk'[file]) <= Len(source)
        /\ \A i \in DOMAIN disk'[file] : i \in DOMAIN source /\ disk'[file][i] = source[i]
    BY <1>11, FillFacts
  <2>2. TypeOK'
    BY <2>1 DEF local, TypeOK
  <2>3. SourceMoves'
    BY <2>1 DEF local, SourceMoves, Moved, Renamed
  <2>4. ASSUME NEW f \in Files PROVE Moved(given[f], disk'[f])
    <3>1. CASE f = file
      <4>1. Moved(given[file], source)
        BY <2>1 DEF SourceMoves
      <4>2. Len(disk'[file]) \in Nat /\ Len(source) \in Nat /\ Len(given[file]) \in Nat
        BY <2>1 DEF TypeOK
      <4> QED BY <2>1, <3>1, <4>1, <4>2 DEF Moved
    <3>2. CASE f # file
      BY <2>1, <3>2 DEF OnlyPathsMove
    <3> QED BY <3>1, <3>2
  <2>5. OnlyPathsMove'
    BY <2>4, <2>1 DEF OnlyPathsMove, Moved, Renamed
  <2> QED BY <2>2, <2>3, <2>5
<1>6. CASE Write
  <2>1. disk' = [disk EXCEPT ![file] = source] /\ given' = given
        /\ pc = "writing" /\ pc' = "visiting"
    BY <1>6 DEF Write
  <2>2. TypeOK'
    BY <1>6, <2>1 DEF Write, local, TypeOK
  <2>3. SourceMoves'
    BY <2>1 DEF SourceMoves
  <2>4. Moved(given[file], source)
    BY <2>1 DEF SourceMoves
  <2>5. ASSUME NEW f \in Files PROVE Moved(given[f], disk'[f])
    BY <2>1, <2>4, <2>5 DEF OnlyPathsMove, TypeOK
  <2>6. OnlyPathsMove'
    BY <2>5, <2>1 DEF OnlyPathsMove, Moved, Renamed
  <2> QED BY <2>2, <2>3, <2>6
<1>7. CASE Report
  BY <1>7 DEF Report, local, TypeOK, SourceMoves, OnlyPathsMove, Moved, Renamed
<1>8. CASE Crash
  BY <1>8 DEF Crash, local, TypeOK, SourceMoves, OnlyPathsMove, Moved, Renamed
<1>9. ASSUME NEW f \in Files, Restore(f) PROVE MoveInv'
  <2>1. disk' = [disk EXCEPT ![f] = given[f]] /\ given' = given /\ pc' = "idle"
    BY <1>9 DEF Restore
  <2>2. TypeOK'
    BY <1>9, <2>1 DEF Restore, local, TypeOK
  <2>3. SourceMoves'
    BY <2>1 DEF SourceMoves
  <2>4. ASSUME NEW g \in Files PROVE Moved(given[g], disk'[g])
    <3>1. CASE g = f
      <4>1. disk'[g] = given[g] /\ Len(given[g]) \in Nat
        BY <2>1, <3>1 DEF TypeOK
      <4> QED BY <4>1 DEF Moved
    <3>2. CASE g # f
      BY <2>1, <3>2 DEF OnlyPathsMove, TypeOK
    <3> QED BY <3>1, <3>2
  <2>5. OnlyPathsMove'
    BY <2>1, <2>4 DEF OnlyPathsMove, Moved, Renamed
  <2> QED BY <2>2, <2>3, <2>5
<1>10. CASE UNCHANGED vars
  BY <1>10 DEF vars, local, TypeOK, SourceMoves, OnlyPathsMove, Moved, Renamed
<1> QED
  BY <1>1, <1>2, <1>3, <1>4, <1>5, <1>6, <1>7, <1>8, <1>9, <1>10, <1>11 DEF Next

\* Whatever the table and the project, however often the script is run and interrupted:
\* it moves paths, and does nothing else to a file but to lose its end.
THEOREM MigrationMovesPaths == Spec => []OnlyPathsMove
<1>1. MoveInv => OnlyPathsMove
  BY DEF MoveInv
<1> QED BY InitMove, NextMove, <1>1, PTL DEF Spec

-----------------------------------------------------------------------------
LEMMA InitLeft == Init => LeftInv
BY DEF Init, LeftInv, SourceAdvances, AppliedInVain, WritingTodo, VisitedUpToDate, NothingLeft

LEMMA ReplaceLeft == MoveInv /\ LeftInv /\ Replace => LeftInv'
<1> SUFFICES ASSUME MoveInv, LeftInv, Replace PROVE LeftInv'
  OBVIOUS
<1> DEFINE r == Renames[next]
<1>1. /\ next \in DOMAIN Renames /\ ReplaceFirst(r) /\ pc = "replacing" /\ pc' = pc
      /\ file' = file /\ disk' = disk /\ next' = next + 1 /\ content' = content
      /\ todo' = todo /\ updated' = updated /\ reported' = reported
  BY DEF Replace
<1>2. next \in 1 .. Len(Renames) /\ r.old \in Old /\ r.new \notin Old
  BY <1>1, RenameFacts
<1>3. /\ source \in Seq(Paths) /\ content \in Seq(Paths)
      /\ DOMAIN source = DOMAIN content /\ disk[file] = content /\ file \in todo
      /\ \A i \in DOMAIN source :
            source[i] = content[i] \/ (source[i] \notin Old /\ content[i] \in Old)
  BY <1>1 DEF MoveInv, TypeOK, LeftInv, SourceAdvances
<1>4. /\ source' \in Seq(Paths)
      /\ DOMAIN source' = DOMAIN source
      /\ \/ /\ \A i \in DOMAIN source : source[i] # r.old
            /\ source' = source
         \/ \E i \in DOMAIN source :
              /\ source[i] = r.old
              /\ source'[i] = r.new
              /\ \A j \in DOMAIN source : j # i => source'[j] = source[j]
  BY <1>1, <1>3, ReplaceFacts
<1> HIDE DEF r
<1>5. SourceAdvances'
  <2>1. \A i \in DOMAIN source :
           source'[i] = content[i] \/ (source'[i] \notin Old /\ content[i] \in Old)
    BY <1>2, <1>3, <1>4
  <2> QED BY <2>1, <1>1, <1>3, <1>4 DEF SourceAdvances
<1>6. AppliedInVain'
  <2> SUFFICES ASSUME source' = content
               PROVE  \A j \in 1 .. next : \A i \in DOMAIN source : source'[i] # Renames[j].old
    <3>1. (next + 1) - 1 = next
      BY <1>2
    <3> QED BY <1>1, <1>4, <3>1 DEF AppliedInVain
  <2>1. source' = source
    <3>1. ASSUME NEW i \in DOMAIN source, source[i] = r.old, source'[i] = r.new
          PROVE  FALSE
      <4>1. content[i] = r.new
        BY <3>1
      <4> QED BY <3>1, <4>1, <1>2, <1>3
    <3> QED BY <3>1, <1>4
  <2>2. \A i \in DOMAIN source : source[i] # r.old
    BY <2>1, <1>2, <1>4
  <2>3. \A j \in 1 .. next - 1 : \A i \in DOMAIN source : source[i] # Renames[j].old
    BY <2>1, <1>1 DEF LeftInv, AppliedInVain
  <2>4. \A j \in 1 .. next : j \in 1 .. next - 1 \/ j = next
    BY <1>2
  <2> QED BY <2>1, <2>2, <2>3, <2>4 DEF r
<1>7. VisitedUpToDate'
  BY <1>1 DEF LeftInv, VisitedUpToDate, UpToDate
<1>8. NothingLeft' /\ WritingTodo'
  BY <1>1 DEF LeftInv, NothingLeft, UpToDate, WritingTodo
<1> QED
  BY <1>5, <1>6, <1>7, <1>8 DEF LeftInv

\* What is left alone after the whole table was applied is up to date.
LEMMA KeepLeft == MoveInv /\ LeftInv /\ Keep => LeftInv'
<1> SUFFICES ASSUME MoveInv, LeftInv, Keep PROVE LeftInv'
  OBVIOUS
<1>1. /\ pc = "replacing" /\ next = Len(Renames) + 1 /\ source = content
      /\ pc' = "visiting" /\ todo' = todo \ {file} /\ disk' = disk
      /\ updated' = updated /\ reported' = reported
  BY DEF Keep, Replaced
<1>2. Len(Renames) \in Nat /\ DOMAIN Renames = 1 .. Len(Renames)
  BY TableAssumption
<1>3. next - 1 = Len(Renames)
  BY <1>1, <1>2
<1>4. UpToDate(disk[file])
  BY <1>1, <1>2, <1>3 DEF LeftInv, AppliedInVain, SourceAdvances, UpToDate, Old
<1>5. VisitedUpToDate'
  <2> SUFFICES ASSUME updated = {}, NEW f \in Files \ todo' PROVE UpToDate(disk[f])
    BY <1>1 DEF VisitedUpToDate, UpToDate
  <2>1. CASE f = file
    BY <2>1, <1>4
  <2>2. CASE f \notin todo
    BY <2>2, <1>1 DEF LeftInv, VisitedUpToDate
  <2> QED BY <2>1, <2>2, <1>1
<1>6. SourceAdvances' /\ AppliedInVain'
  BY <1>1 DEF SourceAdvances, AppliedInVain
<1>7. NothingLeft' /\ WritingTodo'
  BY <1>1 DEF LeftInv, NothingLeft, UpToDate, WritingTodo
<1> QED
  BY <1>5, <1>6, <1>7 DEF LeftInv

\* While the script runs nothing is reported.
Running == pc # "idle" => ~ reported

LEMMA NextRunning == Running /\ [Next]_vars => Running'
BY DEF Running, Next, Start, Read, Replace, Keep, Open, Fill, Write, Report, Crash, Restore,
       Replaced, local, vars

LEMMA NextLeft == MoveInv /\ Running /\ LeftInv /\ [Next]_vars => LeftInv'
<1> SUFFICES ASSUME MoveInv, Running, LeftInv, [Next]_vars PROVE LeftInv'
  OBVIOUS
<1> USE DEF LeftInv
<1>1. CASE Start
  BY <1>1 DEF Start, local, SourceAdvances, AppliedInVain, WritingTodo, VisitedUpToDate, NothingLeft,
             UpToDate
<1>2. ASSUME NEW f \in Files, Read(f) PROVE LeftInv'
  <2>1. disk[f] \in Seq(Paths)
    BY DEF MoveInv, TypeOK
  <2>2. /\ source' = disk[f] /\ content' = disk[f] /\ file' = f /\ disk' = disk
        /\ next' = 1 /\ todo' = todo /\ f \in todo /\ pc = "visiting"
        /\ updated' = updated /\ reported' = reported
    BY <1>2 DEF Read
  <2>3. SourceAdvances'
    BY <2>1, <2>2 DEF SourceAdvances
  <2>4. AppliedInVain' /\ WritingTodo'
    BY <2>2 DEF AppliedInVain, WritingTodo
  <2>5. VisitedUpToDate' /\ NothingLeft'
    BY <2>2 DEF VisitedUpToDate, NothingLeft, UpToDate
  <2> QED BY <2>3, <2>4, <2>5
<1>3. CASE Replace
  BY <1>3, ReplaceLeft
<1>4. CASE Keep
  BY <1>4, KeepLeft
<1>5. CASE Open
  <2>1. /\ pc' = "writing" /\ pc = "replacing" /\ disk' = [disk EXCEPT ![file] = <<>>]
        /\ todo' = todo /\ updated' = updated /\ reported' = reported /\ file' = file
    BY <1>5 DEF Open, Replaced, local
  <2>2. ~ reported /\ file \in todo
    BY <2>1 DEF Running, SourceAdvances
  <2>3. VisitedUpToDate'
    <3> SUFFICES ASSUME updated = {}, NEW f \in Files \ todo PROVE UpToDate(disk'[f])
      BY <2>1 DEF VisitedUpToDate, UpToDate
    <3>1. disk'[f] = disk[f]
      BY <2>1, <2>2 DEF MoveInv, TypeOK
    <3> QED BY <3>1, <2>1 DEF VisitedUpToDate, UpToDate
  <2>4. NothingLeft'
    BY <2>1, <2>2 DEF NothingLeft
  <2> QED BY <2>1, <2>2, <2>3, <2>4 DEF SourceAdvances, AppliedInVain, WritingTodo
<1>11. CASE Fill
  <2>1. /\ pc = "writing" /\ UNCHANGED <<pc, todo, updated, reported, file>>
        /\ file \in todo /\ \A f \in Files \ {file} : disk'[f] = disk[f]
    BY <1>11, FillFacts DEF MoveInv, WritingTodo, local
  <2>2. VisitedUpToDate'
    BY <2>1 DEF VisitedUpToDate, UpToDate
  <2>3. NothingLeft'
    BY <2>1 DEF Running, NothingLeft
  <2>4. WritingTodo'
    BY <2>1 DEF WritingTodo
  <2> QED BY <2>1, <2>2, <2>3, <2>4 DEF SourceAdvances, AppliedInVain
<1>6. CASE Write
  <2>1. pc' = "visiting" /\ pc = "writing" /\ updated' # {} /\ reported' = reported
    BY <1>6 DEF Write
  <2> QED BY <2>1 DEF Running, SourceAdvances, AppliedInVain, WritingTodo, VisitedUpToDate, NothingLeft
<1>7. CASE Report
  BY <1>7 DEF Report, local, SourceAdvances, AppliedInVain, WritingTodo, VisitedUpToDate, NothingLeft,
             UpToDate
<1>8. CASE Crash
  BY <1>8 DEF Crash, Running, local, SourceAdvances, AppliedInVain, WritingTodo, VisitedUpToDate,
             NothingLeft, UpToDate
<1>9. ASSUME NEW f \in Files, Restore(f) PROVE LeftInv'
  BY <1>9 DEF Restore, local, SourceAdvances, AppliedInVain, WritingTodo, VisitedUpToDate, NothingLeft
<1>10. CASE UNCHANGED vars
  BY <1>10 DEF vars, local, SourceAdvances, AppliedInVain, WritingTodo, VisitedUpToDate, NothingLeft,
              UpToDate
<1> QED
  BY <1>1, <1>2, <1>3, <1>4, <1>5, <1>6, <1>7, <1>8, <1>9, <1>10, <1>11 DEF Next

LEMMA RunInvariant == Spec => [](MoveInv /\ Running /\ LeftInv)
<1>1. Init => MoveInv /\ Running /\ LeftInv
  BY InitMove, InitLeft DEF Init, Running
<1>2. MoveInv /\ Running /\ LeftInv /\ [Next]_vars => (MoveInv /\ Running /\ LeftInv)'
  BY NextMove, NextRunning, NextLeft
<1> QED BY <1>1, <1>2, PTL DEF Spec

\* Whatever the table and the project: the script says that no file was updated only when
\* no file mentions an old path, so that it may be run until it says so.
THEOREM MigrationKnowsItsEnd == Spec => []NothingLeft
<1>1. LeftInv => NothingLeft
  BY DEF LeftInv
<1> QED BY RunInvariant, <1>1, PTL

-----------------------------------------------------------------------------
(* How much a run updates, and how much an interruption costs.              *)

LEMMA StaleIs ==
    ASSUME NEW d, NEW p
    PROVE  p \in Stale(d) <=> \E f \in Files : \E i \in DOMAIN d[f] : p = <<f, i>> /\ d[f][i] \in Old
BY DEF Stale

LEMMA StaleIsFinite ==
    ASSUME NEW d \in [Files -> Seq(Paths)]
    PROVE  IsFiniteSet(Stale(d)) /\ Cardinality(Stale(d)) \in Nat
<1> DEFINE of == [f \in Files |-> {f} \X {i \in DOMAIN d[f] : d[f][i] \in Old}]
           parts == {of[f] : f \in Files}
<1>1. Stale(d) = UNION parts
  BY DEF Stale
<1>2. ASSUME NEW f \in Files PROVE IsFiniteSet(of[f])
  <2>1. Len(d[f]) \in Nat /\ DOMAIN d[f] = 1 .. Len(d[f])
    OBVIOUS
  <2>2. IsFiniteSet(1 .. Len(d[f]))
    BY <2>1, FS_Interval
  <2>3. IsFiniteSet({i \in DOMAIN d[f] : d[f][i] \in Old})
    BY <2>1, <2>2, FS_Subset
  <2>4. IsFiniteSet({f})
    BY FS_Singleton
  <2> QED BY <2>3, <2>4, FS_Product
<1>3. of \in Surjection(Files, parts)
  BY DEF Surjection
<1>4. IsFiniteSet(parts)
  <2> HIDE DEF of, parts
  <2> QED BY <1>3, FilesAssumption, FS_Surjection
<1>5. \A part \in parts : IsFiniteSet(part)
  BY <1>2
<1> HIDE DEF of, parts
<1>6. IsFiniteSet(UNION parts)
  BY <1>4, <1>5, FS_UNION
<1> QED BY <1>1, <1>6, FS_CardinalityType

\* The project as it is when the file in hand has been written
Written == [disk EXCEPT ![file] = source]

\* Each update has cost an old path, the one that is being written included.
CountInv ==
    /\ before \in Nat
    /\ UpdatesCount
    /\ pc = "writing" => Cardinality(Stale(Written)) + Cardinality(updated \union {file}) <= before

\* What a file that is to be written holds less of.
LEMMA OpenLoses ==
    ASSUME TypeOK, SourceAdvances, pc = "replacing", source # content
    PROVE  Cardinality(Stale(Written)) + 1 <= Cardinality(Stale(disk))
<1>1. /\ disk \in [Files -> Seq(Paths)] /\ file \in Files /\ source \in Seq(Paths)
      /\ content \in Seq(Paths) /\ disk[file] = content /\ DOMAIN source = DOMAIN content
      /\ \A i \in DOMAIN source :
            source[i] = content[i] \/ (source[i] \notin Old /\ content[i] \in Old)
  BY DEF TypeOK, SourceAdvances
<1>2. PICK i \in DOMAIN source : source[i] # content[i]
  BY <1>1
<1>3. /\ Written \in [Files -> Seq(Paths)] /\ Written[file] = source
      /\ \A f \in Files : f # file => Written[f] = disk[f]
  BY <1>1 DEF Written
<1>4. <<file, i>> \in Stale(disk)
  BY <1>1, <1>2, StaleIs
<1>5. <<file, i>> \notin Stale(Written)
  BY <1>1, <1>2, <1>3, StaleIs
<1>6. Stale(Written) \subseteq Stale(disk)
  <2> SUFFICES ASSUME NEW p \in Stale(Written) PROVE p \in Stale(disk)
    OBVIOUS
  <2>0. PICK f \in Files : \E j \in DOMAIN Written[f] : p = <<f, j>> /\ Written[f][j] \in Old
    BY StaleIs
  <2>1. PICK j \in DOMAIN Written[f] : p = <<f, j>> /\ Written[f][j] \in Old
    BY <2>0
  <2>2. CASE f = file
    <3>1. j \in DOMAIN disk[f] /\ disk[f][j] \in Old
      BY <2>1, <2>2, <1>1, <1>3
    <3> QED BY <2>1, <3>1, StaleIs
  <2>3. CASE f # file
    <3>1. j \in DOMAIN disk[f] /\ disk[f][j] \in Old
      BY <2>1, <2>3, <1>3
    <3> QED BY <2>1, <3>1, StaleIs
  <2> QED BY <2>2, <2>3
<1>7. IsFiniteSet(Stale(disk)) /\ Cardinality(Stale(disk)) \in Nat
  BY <1>1, StaleIsFinite
<1>8. /\ IsFiniteSet(Stale(disk) \ {<<file, i>>})
      /\ Cardinality(Stale(disk) \ {<<file, i>>}) = Cardinality(Stale(disk)) - 1
  BY <1>4, <1>7, FS_RemoveElement
<1>9. Cardinality(Stale(Written)) <= Cardinality(Stale(disk) \ {<<file, i>>})
  BY <1>5, <1>6, <1>8, FS_Subset
<1>10. Cardinality(Stale(Written)) \in Nat
  BY <1>3, StaleIsFinite
<1> QED BY <1>7, <1>8, <1>9, <1>10

LEMMA UpdatedIsFinite ==
    ASSUME TypeOK
    PROVE  /\ IsFiniteSet(updated) /\ Cardinality(updated) \in Nat
           /\ Cardinality(updated \union {file}) \in Nat
           /\ Cardinality(updated \union {file}) <= Cardinality(updated) + 1
<1>1. IsFiniteSet(updated)
  BY FilesAssumption, FS_Subset DEF TypeOK
<1>2. Cardinality(updated) \in Nat
  BY <1>1, FS_CardinalityType
<1> QED BY <1>1, <1>2, FS_AddElement

LEMMA InitCount == Init => CountInv
BY DEF Init, CountInv, UpdatesCount

LEMMA NextCount == MoveInv /\ SourceAdvances /\ CountInv /\ [Next]_vars => CountInv'
<1> SUFFICES ASSUME MoveInv, SourceAdvances, CountInv, [Next]_vars PROVE CountInv'
  OBVIOUS
<1> USE DEF CountInv
<1>1. TypeOK
  BY DEF MoveInv
<1>2. IsFiniteSet(Stale(disk)) /\ Cardinality(Stale(disk)) \in Nat
  BY <1>1, StaleIsFinite DEF TypeOK
<1>3. CASE Start
  <2>1. pc' = "visiting" /\ updated' = {} /\ disk' = disk /\ before' = Cardinality(Stale(disk))
    BY <1>3 DEF Start
  <2>2. Stale(disk') = Stale(disk)
    BY <2>1
  <2>3. Cardinality(updated') = 0
    BY <2>1, FS_EmptySet
  <2> QED BY <2>1, <2>2, <2>3, <1>2 DEF UpdatesCount, Stale
<1>4. ASSUME pc # "idle", pc' # "writing", disk' = disk, updated' = updated, before' = before
      PROVE  CountInv'
  BY <1>4 DEF UpdatesCount, Stale
<1>5. ASSUME NEW f \in Files, Read(f) PROVE CountInv'
  BY <1>4, <1>5 DEF Read
<1>6. CASE Replace
  BY <1>4, <1>6 DEF Replace
<1>7. CASE Keep
  BY <1>4, <1>7 DEF Keep, Replaced
<1>8. CASE Open
  <2>1. /\ pc = "replacing" /\ pc' = "writing" /\ disk' = [disk EXCEPT ![file] = <<>>]
        /\ file' = file /\ source' = source /\ source # content /\ updated' = updated
        /\ before' = before
    BY <1>8 DEF Open, Replaced, local
  <2>2. Cardinality(Stale(Written)) + 1 <= Cardinality(Stale(disk))
    BY <1>1, <2>1, OpenLoses
  <2>3. Written \in [Files -> Seq(Paths)] /\ disk' \in [Files -> Seq(Paths)]
    BY <1>1, <2>1 DEF TypeOK, Written
  <2>4. Written' = Written
    BY <1>1, <2>1 DEF Written, TypeOK
  <2>5. Stale(disk') \subseteq Stale(Written)
    <3> SUFFICES ASSUME NEW p \in Stale(disk') PROVE p \in Stale(Written)
      OBVIOUS
    <3>0. PICK f \in Files : \E j \in DOMAIN disk'[f] : p = <<f, j>> /\ disk'[f][j] \in Old
      BY StaleIs
    <3>1. PICK j \in DOMAIN disk'[f] : p = <<f, j>> /\ disk'[f][j] \in Old
      BY <3>0
    <3>2. f # file
      BY <1>1, <2>1, <3>1 DEF TypeOK
    <3>3. disk'[f] = Written[f]
      BY <1>1, <2>1, <3>2 DEF Written, TypeOK
    <3> QED BY <3>1, <3>3, StaleIs
  <2>6. /\ Cardinality(Stale(Written)) \in Nat /\ Cardinality(Stale(disk')) \in Nat
        /\ Cardinality(Stale(disk')) <= Cardinality(Stale(Written))
    BY <2>3, <2>5, StaleIsFinite, FS_Subset
  <2>7. Cardinality(Stale(disk)) + Cardinality(updated) <= before
    BY <2>1 DEF UpdatesCount
  <2>8. Cardinality(Stale(Written)) + Cardinality(updated \union {file}) <= before
    BY <1>1, <1>2, <2>2, <2>6, <2>7, UpdatedIsFinite
  <2>9. Cardinality(Stale(disk')) + Cardinality(updated) <= before
    BY <1>1, <1>2, <2>2, <2>6, <2>7, UpdatedIsFinite
  <2>10. Stale(disk)' = Stale(disk') /\ Stale(Written)' = Stale(Written)
    BY <2>4 DEF Stale
  <2> QED BY <2>1, <2>8, <2>9, <2>10 DEF UpdatesCount
<1>14. CASE Fill
  <2>1. /\ pc = "writing" /\ disk' \in [Files -> Seq(Paths)]
        /\ UNCHANGED <<pc, file, source, updated, before>>
        /\ \A f \in Files \ {file} : disk'[f] = disk[f]
        /\ \A i \in DOMAIN disk'[file] : i \in DOMAIN source /\ disk'[file][i] = source[i]
    BY <1>1, <1>14, FillFacts DEF local
  <2>2. /\ Written \in [Files -> Seq(Paths)] /\ Written[file] = source
        /\ \A f \in Files \ {file} : Written[f] = disk[f]
    BY <1>1 DEF TypeOK, Written
  <2>3. Written' = Written
    <3>1. Written' = [disk' EXCEPT ![file] = source]
      BY <2>1 DEF Written
    <3> QED BY <1>1, <2>1, <3>1 DEF TypeOK, Written
  <2>4. Stale(disk') \subseteq Stale(Written)
    <3> SUFFICES ASSUME NEW p \in Stale(disk') PROVE p \in Stale(Written)
      OBVIOUS
    <3>0. PICK f \in Files : \E j \in DOMAIN disk'[f] : p = <<f, j>> /\ disk'[f][j] \in Old
      BY StaleIs
    <3>1. PICK j \in DOMAIN disk'[f] : p = <<f, j>> /\ disk'[f][j] \in Old
      BY <3>0
    <3>2. j \in DOMAIN Written[f] /\ Written[f][j] \in Old
      BY <2>1, <2>2, <3>1
    <3> QED BY <3>1, <3>2, StaleIs
  <2>5. /\ Cardinality(Stale(Written)) \in Nat /\ Cardinality(Stale(disk')) \in Nat
        /\ Cardinality(Stale(disk')) <= Cardinality(Stale(Written))
    BY <2>1, <2>2, <2>4, StaleIsFinite, FS_Subset
  <2>6. Cardinality(Stale(Written)) + Cardinality(updated \union {file}) <= before
    BY <2>1
  <2>7. Cardinality(updated) <= Cardinality(updated \union {file})
    <3>1. IsFiniteSet(updated \union {file})
      BY <1>1, FilesAssumption, FS_Subset DEF TypeOK
    <3> QED BY <3>1, FS_Subset
  <2>8. Cardinality(Stale(disk')) + Cardinality(updated) <= before
    BY <1>1, <2>5, <2>6, <2>7, UpdatedIsFinite
  <2>9. Stale(disk)' = Stale(disk') /\ Stale(Written)' = Stale(Written)
    BY <2>3 DEF Stale
  <2> QED BY <2>1, <2>6, <2>8, <2>9 DEF UpdatesCount
<1>9. CASE Write
  <2>1. /\ pc = "writing" /\ pc' = "visiting" /\ disk' = Written
        /\ updated' = updated \union {file} /\ before' = before
    BY <1>9 DEF Write, Written
  <2>2. Stale(disk)' = Stale(Written)
    BY <2>1 DEF Stale
  <2> QED BY <2>1, <2>2 DEF UpdatesCount
<1>10. CASE Report
  BY <1>10 DEF Report, UpdatesCount
<1>11. CASE Crash
  BY <1>11 DEF Crash, UpdatesCount
<1>12. ASSUME NEW f \in Files, Restore(f) PROVE CountInv'
  BY <1>12 DEF Restore, UpdatesCount
<1>13. CASE UNCHANGED vars
  <2>1. UNCHANGED <<disk, pc, updated, before, file, source>>
    BY <1>13 DEF vars, local
  <2> QED BY <2>1 DEF UpdatesCount, Stale, Written
<1> QED
  BY <1>3, <1>5, <1>6, <1>7, <1>8, <1>9, <1>10, <1>11, <1>12, <1>13, <1>14 DEF Next

\* However many files there are and however long: each file that a run has reported, or is
\* about to report, has lost an old path, so that there are no more updates than old paths.
THEOREM UpdatesAreBounded == Spec => []UpdatesCount
<1>1. LeftInv => SourceAdvances
  BY DEF LeftInv
<1>2. CountInv => UpdatesCount
  BY DEF CountInv
<1> QED BY InitCount, NextCount, RunInvariant, <1>1, <1>2, PTL DEF Spec

-----------------------------------------------------------------------------
\* The files that have lost their end
Cut(d) == {f \in Files : Len(d[f]) < Len(given[f])}

\* Each has cost an interruption, the one in hand apart, which will get its end back.
DamageInv ==
    /\ crashes \in Nat
    /\ DamageBounded
    /\ pc = "writing" => Cardinality(Cut(Written)) <= crashes

LEMMA WithoutOne ==
    ASSUME NEW S, NEW x, IsFiniteSet(S)
    PROVE  Cardinality(S) <= Cardinality(S \ {x}) + 1
<1>1. Cardinality(S) \in Nat
  BY FS_CardinalityType
<1>2. CASE x \in S
  <2>1. Cardinality(S \ {x}) = Cardinality(S) - 1
    BY <1>2, FS_RemoveElement
  <2> QED BY <1>1, <2>1
<1>3. CASE x \notin S
  <2>1. S \ {x} = S
    BY <1>3
  <2> QED BY <1>1, <2>1
<1> QED BY <1>2, <1>3

LEMMA BoundIs ==
    DamageBounded <=> Cardinality(Cut(disk)) <= crashes + (IF pc = "writing" THEN 1 ELSE 0)
BY DEF DamageBounded, Cut

LEMMA CutFinite ==
    ASSUME NEW d
    PROVE  IsFiniteSet(Cut(d)) /\ Cardinality(Cut(d)) \in Nat
<1>1. Cut(d) \in SUBSET Files
  BY DEF Cut
<1> QED BY <1>1, FilesAssumption, FS_Subset, FS_CardinalityType

LEMMA FewerCut ==
    ASSUME NEW d, NEW e, Cut(d) \subseteq Cut(e)
    PROVE  Cardinality(Cut(d)) <= Cardinality(Cut(e))
BY CutFinite, FS_Subset

\* A file that is being written is the only one that may still get its end back.
LEMMA WritingDamage ==
    ASSUME TypeOK, crashes \in Nat, disk' \in [Files -> Seq(Paths)], pc' = "writing",
           UNCHANGED <<given, file, source, crashes>>,
           \A f \in Files \ {file} : disk'[f] = disk[f],
           Cardinality(Cut(Written)) <= crashes
    PROVE  DamageInv'
<1>1. Written' = Written
  <2>1. Written' = [disk' EXCEPT ![file] = source]
    BY DEF Written
  <2> QED BY <2>1 DEF TypeOK, Written
<1>2. \A f \in Files \ {file} : Written[f] = disk'[f]
  BY DEF TypeOK, Written
<1>3. Cut(disk') \ {file} \subseteq Cut(Written)
  BY <1>2 DEF Cut
<1>4. Cardinality(Cut(disk') \ {file}) <= Cardinality(Cut(Written))
  BY <1>3, CutFinite, FS_Subset
<1>5. Cardinality(Cut(disk')) <= Cardinality(Cut(disk') \ {file}) + 1
  BY CutFinite, WithoutOne
<1>6. Cardinality(Cut(disk') \ {file}) \in Nat
  BY <1>3, CutFinite, FS_Subset, FS_CardinalityType
<1>7. Cardinality(Cut(disk')) <= crashes + 1
  BY <1>4, <1>5, <1>6, CutFinite
<1>8. Cut(disk)' = Cut(disk') /\ Cut(Written)' = Cut(Written)
  BY <1>1 DEF Cut
<1> QED BY <1>7, <1>8 DEF DamageInv, DamageBounded, Cut

LEMMA InitDamage == Init => DamageInv
<1> SUFFICES ASSUME Init PROVE DamageInv
  OBVIOUS
<1>1. Cut(disk) = {}
  <2> SUFFICES ASSUME NEW f \in Files PROVE ~ (Len(disk[f]) < Len(given[f]))
    BY DEF Cut
  <2>1. Len(given[f]) \in Nat /\ disk[f] = given[f]
    BY TableAssumption DEF Init
  <2> QED BY <2>1
<1>2. Cardinality(Cut(disk)) = 0
  BY <1>1, FS_EmptySet
<1> QED BY <1>2, BoundIs DEF Init, DamageInv

LEMMA NextDamage == MoveInv /\ SourceAdvances /\ DamageInv /\ [Next]_vars => DamageInv'
<1> SUFFICES ASSUME MoveInv, SourceAdvances, DamageInv, [Next]_vars PROVE DamageInv'
  OBVIOUS
<1> USE DEF DamageInv
<1>1. TypeOK
  BY DEF MoveInv
<1>2. Cardinality(Cut(disk)) <= crashes + (IF pc = "writing" THEN 1 ELSE 0)
  BY BoundIs
<1>3. ASSUME crashes' = crashes, pc # "writing", pc' # "writing", given' = given,
             Cut(disk') \subseteq Cut(disk)
      PROVE  DamageInv'
  <2>1. Cardinality(Cut(disk')) <= crashes
    BY <1>2, <1>3, FewerCut, CutFinite
  <2>2. Cut(disk)' = Cut(disk')
    BY <1>3 DEF Cut
  <2> QED BY <1>3, <2>1, <2>2 DEF DamageBounded, Cut
<1>4. ASSUME crashes' = crashes, pc # "writing", pc' # "writing", disk' = disk, given' = given
      PROVE  DamageInv'
  BY <1>3, <1>4
<1>5. CASE Start
  BY <1>4, <1>5 DEF Start
<1>6. ASSUME NEW f \in Files, Read(f) PROVE DamageInv'
  BY <1>4, <1>6 DEF Read
<1>7. CASE Replace
  BY <1>4, <1>7 DEF Replace
<1>8. CASE Keep
  BY <1>4, <1>8 DEF Keep, Replaced
<1>9. CASE Open
  <2>1. /\ pc = "replacing" /\ pc' = "writing" /\ disk' = [disk EXCEPT ![file] = <<>>]
        /\ UNCHANGED <<given, file, source, crashes>>
    BY <1>9 DEF Open, Replaced, local
  <2>2. /\ disk' \in [Files -> Seq(Paths)]
        /\ \A f \in Files \ {file} : disk'[f] = disk[f]
    BY <1>1, <2>1 DEF TypeOK
  <2>3. Len(source) = Len(disk[file])
    BY <1>1, <2>1 DEF SourceAdvances, TypeOK
  <2>4. \A f \in Files : Len(Written[f]) = Len(disk[f])
    BY <1>1, <2>3 DEF Written, TypeOK
  <2>5. Cut(Written) = Cut(disk)
    BY <2>4 DEF Cut
  <2>6. Cardinality(Cut(Written)) <= crashes
    BY <1>2, <2>1, <2>5
  <2> QED BY <1>1, <2>1, <2>2, <2>6, WritingDamage
<1>10. CASE Fill
  <2>1. /\ pc = "writing" /\ disk' \in [Files -> Seq(Paths)]
        /\ UNCHANGED <<given, pc, file, source, crashes>>
        /\ \A f \in Files \ {file} : disk'[f] = disk[f]
    BY <1>1, <1>10, FillFacts DEF local
  <2> QED BY <1>1, <2>1, WritingDamage
<1>11. CASE Write
  <2>1. /\ pc = "writing" /\ pc' = "visiting" /\ disk' = Written
        /\ given' = given /\ crashes' = crashes
    BY <1>11 DEF Write, Written
  <2>2. Cut(disk)' = Cut(Written)
    BY <2>1 DEF Cut
  <2> QED BY <2>1, <2>2 DEF DamageBounded, Cut
<1>12. CASE Report
  BY <1>4, <1>12 DEF Report
<1>13. CASE Crash
  <2>1. /\ pc' = "idle" /\ crashes' = crashes + 1 /\ disk' = disk /\ given' = given
    BY <1>13 DEF Crash
  <2>2. Cut(disk)' = Cut(disk)
    BY <2>1 DEF Cut
  <2>3. Cardinality(Cut(disk)) <= crashes + 1
    BY <1>2, CutFinite
  <2> QED BY <2>1, <2>2, <2>3 DEF DamageBounded, Cut
<1>14. ASSUME NEW f \in Files, Restore(f) PROVE DamageInv'
  <2>1. /\ pc = "idle" /\ pc' = pc /\ disk' = [disk EXCEPT ![f] = given[f]] /\ given' = given
        /\ crashes' = crashes
    BY <1>14 DEF Restore
  <2>2. Cut(disk') \subseteq Cut(disk)
    <3> SUFFICES ASSUME NEW g \in Cut(disk') PROVE g \in Cut(disk)
      OBVIOUS
    <3>1. g \in Files /\ Len(disk'[g]) < Len(given[g]) /\ Len(given[g]) \in Nat
      BY <1>1 DEF Cut, TypeOK
    <3>2. g # f
      BY <1>1, <2>1, <3>1 DEF TypeOK
    <3> QED BY <1>1, <2>1, <3>1, <3>2 DEF Cut, TypeOK
  <2> QED BY <1>3, <2>1, <2>2
<1>15. CASE UNCHANGED vars
  <2>1. UNCHANGED <<disk, pc, given, crashes, file, source>>
    BY <1>15 DEF vars, local
  <2> QED BY <2>1 DEF DamageBounded, Cut, Written
<1> QED
  BY <1>5, <1>6, <1>7, <1>8, <1>9, <1>10, <1>11, <1>12, <1>13, <1>14, <1>15 DEF Next

\* However many files a project has and however often the script is interrupted: no more
\* files have lost their end than it was interrupted, and the one being written.
THEOREM DamageIsBounded == Spec => []DamageBounded
<1>1. LeftInv => SourceAdvances
  BY DEF LeftInv
<1>2. DamageInv => DamageBounded
  BY DEF DamageInv
<1> QED BY InitDamage, NextDamage, RunInvariant, <1>1, <1>2, PTL DEF Spec

-----------------------------------------------------------------------------
(* The inheritance order check: the graph has an edge for every two         *)
(* contracts that a chain of the artifact at hand has in that order.        *)

LOCAL InSomeChain(x, y) ==
    \E chain \in linearized : InheritanceOrdering!InOrder(chain, x, y)

GraphInv ==
    /\ graph = {e \in InheritanceOrdering!Contracts \X InheritanceOrdering!Contracts :
                    InSomeChain(e[1], e[2])}
    /\ PairsReported

LEMMA GraphFacts ==
    ASSUME GraphInv,
           NEW x \in InheritanceOrdering!Contracts, NEW y \in InheritanceOrdering!Contracts
    PROVE  InheritanceOrdering!InConflict(x, y) <=> InSomeChain(x, y) /\ InSomeChain(y, x)
<1>1. \A p, q \in InheritanceOrdering!Contracts : <<p, q>> \in graph <=> InSomeChain(p, q)
  BY DEF GraphInv
<1> QED BY <1>1 DEF InheritanceOrdering!InConflict

\* Two contracts are reported exactly when one chain has the one first and another the
\* other, for any contracts, chains and number of artifacts.
THEOREM ConflictsAreReported == InheritanceOrdering!Spec => []PairsReported
<1> DEFINE C == InheritanceOrdering!Contracts
<1>1. InheritanceOrdering!Init => GraphInv
  BY DEF InheritanceOrdering!Init, GraphInv, InSomeChain, PairsReported,
         InheritanceOrdering!PairsReported
<1>2. GraphInv /\ [InheritanceOrdering!Next]_(InheritanceOrdering!vars) => GraphInv'
  <2> SUFFICES ASSUME GraphInv, [InheritanceOrdering!Next]_(InheritanceOrdering!vars)
               PROVE  GraphInv'
    OBVIOUS
  <2>1. ASSUME NEW heir \in Heirs, InheritanceOrdering!Visit(heir) PROVE GraphInv'
    <3>1. PICK chain : /\ linearized' = linearized \union {chain}
                       /\ graph' = graph \union InheritanceOrdering!EdgesOf(chain)
                       /\ ~ checked /\ UNCHANGED checked
      BY <2>1 DEF InheritanceOrdering!Visit
    <3>2. ASSUME NEW e \in C \X C
          PROVE  e \in graph' <=> InSomeChain(e[1], e[2])'
      <4>1. e \in graph <=> InSomeChain(e[1], e[2])
        BY DEF GraphInv
      <4>2. e \in InheritanceOrdering!EdgesOf(chain)
              <=> InheritanceOrdering!InOrder(chain, e[1], e[2])
        BY DEF InheritanceOrdering!EdgesOf
      <4> QED BY <3>1, <4>1, <4>2 DEF InSomeChain
    <3>3. graph' \subseteq C \X C
      BY <3>1 DEF GraphInv, InheritanceOrdering!EdgesOf
    <3>4. graph' = {e \in C \X C : InSomeChain(e[1], e[2])'}
      BY <3>2, <3>3
    <3>5. PairsReported'
      BY <3>1 DEF PairsReported, InheritanceOrdering!PairsReported
    <3> QED BY <3>4, <3>5 DEF GraphInv
  <2>2. CASE InheritanceOrdering!Check
    <3>1. /\ UNCHANGED <<linearized, graph>>
          /\ conflicts' = {pair \in InheritanceOrdering!Pairs :
                             \A x, y \in pair : x # y => InheritanceOrdering!InConflict(x, y)}
      BY <2>2 DEF InheritanceOrdering!Check
    <3>2. ASSUME NEW pair \in InheritanceOrdering!Pairs
          PROVE  (\A x, y \in pair : x # y => InheritanceOrdering!InConflict(x, y))
                   <=> \A x, y \in pair : x # y => InSomeChain(x, y)
      <4>1. \A x \in pair : x \in C
        BY DEF InheritanceOrdering!Pairs, InheritanceOrdering!kSubset
      <4>2. \A x, y \in pair :
              InheritanceOrdering!InConflict(x, y) <=> InSomeChain(x, y) /\ InSomeChain(y, x)
        BY <4>1, GraphFacts
      <4> QED BY <4>2
    <3>3. conflicts' = {pair \in InheritanceOrdering!Pairs :
                          \A x, y \in pair : x # y => InSomeChain(x, y)}
      BY <3>1, <3>2
    <3>4. PairsReported'
      BY <3>1, <3>3 DEF PairsReported, InheritanceOrdering!PairsReported, InSomeChain
    <3> QED BY <3>1, <3>4 DEF GraphInv, InSomeChain
  <2>3. CASE InheritanceOrdering!NextArtifact
    BY <2>3 DEF InheritanceOrdering!NextArtifact, GraphInv, InSomeChain, PairsReported,
                InheritanceOrdering!PairsReported
  <2>4. CASE UNCHANGED InheritanceOrdering!vars
    BY <2>4 DEF InheritanceOrdering!vars, GraphInv, InSomeChain, PairsReported,
                InheritanceOrdering!PairsReported
  <2> QED BY <2>1, <2>2, <2>3, <2>4 DEF InheritanceOrdering!Next
<1>3. GraphInv => PairsReported
  BY DEF GraphInv
<1> QED BY <1>1, <1>2, <1>3, PTL DEF InheritanceOrdering!Spec

-----------------------------------------------------------------------------
(* The docs branch: in every clone it goes up in the order of a dictionary, *)
(* and what a clone is about to add does not come before what it has.       *)

LOCAL Digits == Seq(0 .. 9)

LOCAL IsPrefix(m, n) == UpdateDocs!IsPrefix(m, n)

LOCAL InTurn(m, n) == UpdateDocs!InTurn(m, n)

LOCAL IsLess(m, n) == UpdateDocs!IsLess(m, n)

\* m and n differ at i first, where m has the smaller digit.
LOCAL LessAt(m, n, i) ==
    /\ i \in DOMAIN m \intersect DOMAIN n
    /\ m[i] < n[i]
    /\ \A j \in 1 .. i - 1 : m[j] = n[j]

LEMMA DigitsAre ==
    ASSUME NEW m \in Digits
    PROVE  /\ Len(m) \in Nat /\ DOMAIN m = 1 .. Len(m)
           /\ \A i \in 1 .. Len(m) : m[i] \in 0 .. 9
BY ElementOfSeq DEF Digits

LEMMA LeastExists ==
    ASSUME NEW S \in SUBSET Nat, S # {}
    PROVE  \E x \in S : \A y \in S : x <= y
<1> SUFFICES ASSUME \A x \in S : \E y \in S : y < x PROVE FALSE
  OBVIOUS
<1> DEFINE P == {k \in Nat : \A y \in S : k <= y}
<1>1. 0 \in P
  OBVIOUS
<1>2. ASSUME NEW k \in P PROVE k + 1 \in P
  <2>1. k \notin S
    OBVIOUS
  <2> QED BY <2>1
<1>3. P = Nat
  <2> HIDE DEF P
  <2>1. P \in SUBSET Nat
    BY DEF P
  <2> QED BY <1>1, <1>2, <2>1, SetInduction
<1>4. PICK y \in S : y \in Nat
  OBVIOUS
<1>5. y + 1 \in P
  BY <1>3
<1> QED BY <1>4, <1>5

LEMMA PrefixIs ==
    ASSUME NEW m \in Digits, NEW n \in Digits
    PROVE  IsPrefix(m, n) <=> Len(m) <= Len(n) /\ \A i \in 1 .. Len(m) : m[i] = n[i]
<1>1. Len(m) \in Nat /\ Len(n) \in Nat
  BY DigitsAre
<1> DEFINE p == SubSeq(m, 1, Len(m))
           q == SubSeq(n, 1, Len(m))
<1>2. ASSUME Len(m) <= Len(n) PROVE p = q <=> \A i \in 1 .. Len(m) : m[i] = n[i]
  <2>1. /\ p \in Digits /\ Len(p) = Len(m) /\ \A i \in 1 .. Len(m) : p[i] = m[i]
        /\ q \in Digits /\ Len(q) = Len(m) /\ \A i \in 1 .. Len(m) : q[i] = n[i]
    BY <1>1, <1>2, SubSeqProperties DEF Digits
  <2> HIDE DEF p, q
  <2>2. (\A i \in 1 .. Len(m) : p[i] = q[i]) => p = q
    BY <2>1, SeqEqual DEF Digits
  <2> QED BY <2>1, <2>2
<1> QED BY <1>2 DEF IsPrefix, UpdateDocs!IsPrefix

\* What is not less comes in turn.
LEMMA NotLessInTurn ==
    ASSUME NEW m \in Digits, NEW n \in Digits, ~ IsLess(n, m)
    PROVE  InTurn(m, n)
<1>1. /\ Len(m) \in Nat /\ DOMAIN m = 1 .. Len(m) /\ \A i \in 1 .. Len(m) : m[i] \in 0 .. 9
      /\ Len(n) \in Nat /\ DOMAIN n = 1 .. Len(n) /\ \A i \in 1 .. Len(n) : n[i] \in 0 .. 9
  BY DigitsAre
<1>2. /\ ~ (IsPrefix(n, m) /\ n # m)
      /\ \A i : ~ LessAt(n, m, i)
  BY DEF IsLess, UpdateDocs!IsLess, UpdateDocs!IsStrictPrefix, IsPrefix, LessAt
<1>3. (\E i : LessAt(m, n, i)) \/ IsPrefix(m, n) => InTurn(m, n)
  BY DEF InTurn, UpdateDocs!InTurn, IsPrefix, LessAt
<1> DEFINE Differ == {i \in DOMAIN m \intersect DOMAIN n : m[i] # n[i]}
<1>4. CASE Differ = {}
  <2>1. \A i \in DOMAIN m \intersect DOMAIN n : m[i] = n[i]
    BY <1>4
  <2>2. CASE Len(m) <= Len(n)
    <3>1. \A i \in 1 .. Len(m) : m[i] = n[i]
      BY <1>1, <2>1, <2>2
    <3> QED BY <1>3, <2>2, <3>1, PrefixIs
  <2>3. CASE Len(n) < Len(m)
    <3>1. \A i \in 1 .. Len(n) : n[i] = m[i]
      BY <1>1, <2>1, <2>3
    <3>2. IsPrefix(n, m) /\ n # m
      BY <1>1, <2>3, <3>1, PrefixIs
    <3> QED BY <1>2, <3>2
  <2> QED BY <1>1, <2>2, <2>3
<1>5. CASE Differ # {}
  <2>1. Differ \in SUBSET Nat
    BY <1>1
  <2>2. PICK i \in Differ : \A j \in Differ : i <= j
    <3> HIDE DEF Differ
    <3> QED BY <1>5, <2>1, LeastExists
  <2>3. i \in 1 .. Len(m) /\ i \in 1 .. Len(n) /\ m[i] # n[i]
    BY <1>1, <2>2
  <2>4. ASSUME NEW j \in 1 .. i - 1 PROVE m[j] = n[j]
    <3>1. j \in DOMAIN m \intersect DOMAIN n /\ j < i
      BY <1>1, <2>3
    <3>2. j \notin Differ
      BY <2>2, <2>3, <3>1
    <3> QED BY <3>1, <3>2
  <2>5. m[i] \in 0 .. 9 /\ n[i] \in 0 .. 9
    BY <1>1, <2>3
  <2>6. LessAt(m, n, i) \/ LessAt(n, m, i)
    BY <1>1, <2>3, <2>4, <2>5 DEF LessAt
  <2> QED BY <1>2, <1>3, <2>6
<1> QED BY <1>4, <1>5

LEMMA InTurnIs ==
    ASSUME NEW m \in Digits, NEW n \in Digits
    PROVE  InTurn(m, n) <=>
             \/ Len(m) <= Len(n) /\ \A i \in 1 .. Len(m) : m[i] = n[i]
             \/ \E i : LessAt(m, n, i)
BY PrefixIs DEF InTurn, UpdateDocs!InTurn, IsPrefix, LessAt

\* What comes in turn after what comes in turn does so itself.
LEMMA InTurnTransitive ==
    ASSUME NEW l \in Digits, NEW m \in Digits, NEW n \in Digits, InTurn(l, m), InTurn(m, n)
    PROVE  InTurn(l, n)
<1>1. /\ Len(l) \in Nat /\ DOMAIN l = 1 .. Len(l) /\ \A i \in 1 .. Len(l) : l[i] \in 0 .. 9
      /\ Len(m) \in Nat /\ DOMAIN m = 1 .. Len(m) /\ \A i \in 1 .. Len(m) : m[i] \in 0 .. 9
      /\ Len(n) \in Nat /\ DOMAIN n = 1 .. Len(n) /\ \A i \in 1 .. Len(n) : n[i] \in 0 .. 9
  BY DigitsAre
<1>2. ASSUME Len(l) <= Len(m), \A i \in 1 .. Len(l) : l[i] = m[i],
             Len(m) <= Len(n), \A i \in 1 .. Len(m) : m[i] = n[i]
      PROVE  InTurn(l, n)
  <2>1. Len(l) <= Len(n) /\ \A i \in 1 .. Len(l) : l[i] = n[i]
    BY <1>1, <1>2
  <2> QED BY <2>1, InTurnIs
<1>3. ASSUME Len(l) <= Len(m), \A i \in 1 .. Len(l) : l[i] = m[i], NEW i, LessAt(m, n, i)
      PROVE  InTurn(l, n)
  <2>1. /\ i \in 1 .. Len(m) /\ i \in 1 .. Len(n) /\ m[i] < n[i]
        /\ \A j \in 1 .. i - 1 : m[j] = n[j]
    BY <1>1, <1>3 DEF LessAt
  <2>2. CASE i <= Len(l)
    <3>1. i \in 1 .. Len(l) /\ l[i] < n[i]
      BY <1>1, <1>3, <2>1, <2>2
    <3>2. \A j \in 1 .. i - 1 : l[j] = n[j]
      BY <1>1, <1>3, <2>1, <2>2
    <3>3. LessAt(l, n, i)
      BY <1>1, <2>1, <3>1, <3>2 DEF LessAt
    <3> QED BY <3>3, InTurnIs
  <2>3. CASE Len(l) < i
    <3>1. Len(l) <= Len(n) /\ \A j \in 1 .. Len(l) : l[j] = n[j]
      BY <1>1, <1>3, <2>1, <2>3
    <3> QED BY <3>1, InTurnIs
  <2> QED BY <1>1, <2>1, <2>2, <2>3
<1>4. ASSUME NEW i, LessAt(l, m, i), Len(m) <= Len(n), \A j \in 1 .. Len(m) : m[j] = n[j]
      PROVE  InTurn(l, n)
  <2>1. /\ i \in 1 .. Len(l) /\ i \in 1 .. Len(m) /\ l[i] < m[i]
        /\ \A j \in 1 .. i - 1 : l[j] = m[j]
    BY <1>1, <1>4 DEF LessAt
  <2>2. i \in 1 .. Len(n) /\ l[i] < n[i] /\ \A j \in 1 .. i - 1 : l[j] = n[j]
    BY <1>1, <1>4, <2>1
  <2>3. LessAt(l, n, i)
    BY <1>1, <2>1, <2>2 DEF LessAt
  <2> QED BY <2>3, InTurnIs
<1>5. ASSUME NEW i, LessAt(l, m, i), NEW k, LessAt(m, n, k)
      PROVE  InTurn(l, n)
  <2>1. /\ i \in 1 .. Len(l) /\ i \in 1 .. Len(m) /\ l[i] < m[i]
        /\ \A j \in 1 .. i - 1 : l[j] = m[j]
        /\ k \in 1 .. Len(m) /\ k \in 1 .. Len(n) /\ m[k] < n[k]
        /\ \A j \in 1 .. k - 1 : m[j] = n[j]
    BY <1>1, <1>5 DEF LessAt
  <2>2. CASE i <= k
    <3>1. i \in 1 .. Len(n) /\ l[i] < n[i]
      <4>1. l[i] \in 0 .. 9 /\ m[i] \in 0 .. 9 /\ i \in 1 .. Len(n) /\ n[i] \in 0 .. 9
        BY <1>1, <2>1, <2>2
      <4>2. m[i] <= n[i]
        <5>1. CASE i = k
          BY <2>1, <4>1, <5>1
        <5>2. CASE i # k
          BY <2>1, <2>2, <4>1, <5>2
        <5> QED BY <5>1, <5>2
      <4> QED BY <2>1, <4>1, <4>2
    <3>2. \A j \in 1 .. i - 1 : l[j] = n[j]
      BY <1>1, <2>1, <2>2
    <3>3. LessAt(l, n, i)
      BY <1>1, <2>1, <3>1, <3>2 DEF LessAt
    <3> QED BY <3>3, InTurnIs
  <2>3. CASE k < i
    <3>1. k \in 1 .. Len(l) /\ l[k] < n[k]
      BY <1>1, <2>1, <2>3
    <3>2. \A j \in 1 .. k - 1 : l[j] = n[j]
      BY <1>1, <2>1, <2>3
    <3>3. LessAt(l, n, k)
      BY <1>1, <2>1, <3>1, <3>2 DEF LessAt
    <3> QED BY <3>3, InTurnIs
  <2> QED BY <2>1, <2>2, <2>3
<1> QED BY <1>2, <1>3, <1>4, <1>5, InTurnIs

\* f[n] is the number that the first n of the digits write.
LOCAL Writes(digits, f, k) ==
    /\ f \in [0 .. k -> Nat]
    /\ \A n \in 0 .. k : f[n] = IF n = 0 THEN 0 ELSE 10 * f[n - 1] + digits[n]

LEMMA NumberExists ==
    ASSUME NEW digits \in Digits
    PROVE  \E f : Writes(digits, f, Len(digits))
<1>1. Len(digits) \in Nat /\ \A i \in 1 .. Len(digits) : digits[i] \in 0 .. 9
  BY DigitsAre
<1> DEFINE P == {k \in Nat : k <= Len(digits) => \E f : Writes(digits, f, k)}
<1>2. 0 \in P
  <2> DEFINE f == [n \in 0 .. 0 |-> 0]
  <2>1. f \in [0 .. 0 -> Nat] /\ \A n \in 0 .. 0 : n = 0 /\ f[n] = 0
    OBVIOUS
  <2>2. Writes(digits, f, 0)
    BY <2>1 DEF Writes
  <2> QED BY <2>2
<1>3. ASSUME NEW k \in P PROVE k + 1 \in P
  <2> SUFFICES ASSUME k + 1 <= Len(digits) PROVE \E f : Writes(digits, f, k + 1)
    OBVIOUS
  <2>1. PICK f : Writes(digits, f, k)
    BY <1>1
  <2>2. k \in Nat /\ digits[k + 1] \in Nat /\ f[k] \in Nat
    <3>1. k \in Nat /\ k \in 0 .. k /\ k + 1 \in 1 .. Len(digits)
      BY <1>1
    <3>2. f \in [0 .. k -> Nat]
      BY <2>1 DEF Writes
    <3> QED BY <1>1, <3>1, <3>2
  <2> DEFINE g == [n \in 0 .. k + 1 |-> IF n = k + 1 THEN 10 * f[k] + digits[k + 1] ELSE f[n]]
  <2>3. ASSUME NEW n \in 0 .. k + 1
        PROVE  g[n] \in Nat /\ g[n] = IF n = 0 THEN 0 ELSE 10 * g[n - 1] + digits[n]
    <3>1. CASE n = k + 1
      <4>1. g[n] = 10 * f[k] + digits[k + 1] /\ n # 0 /\ n - 1 = k /\ k \in 0 .. k + 1 /\ k # k + 1
        BY <2>2, <3>1
      <4>2. g[k] = f[k]
        BY <4>1
      <4> HIDE DEF g
      <4> QED BY <2>2, <3>1, <4>1, <4>2
    <3>2. CASE n # k + 1
      <4>1. n \in 0 .. k /\ g[n] = f[n]
        BY <2>2, <3>2
      <4>2. n # 0 => n - 1 \in 0 .. k + 1 /\ n - 1 # k + 1 /\ g[n - 1] = f[n - 1]
        BY <2>2, <4>1
      <4> HIDE DEF g
      <4> QED BY <2>1, <4>1, <4>2 DEF Writes
    <3> QED BY <3>1, <3>2
  <2>4. g \in [0 .. k + 1 -> Nat]
    BY <2>3
  <2> HIDE DEF g
  <2>5. Writes(digits, g, k + 1)
    BY <2>3, <2>4 DEF Writes
  <2> QED BY <2>5
<1>4. Len(digits) \in P
  <2> HIDE DEF P
  <2>1. P \in SUBSET Nat
    BY DEF P
  <2> QED BY <1>1, <1>2, <1>3, <2>1, SetInduction
<1> QED BY <1>1, <1>4

LEMMA NumberIs ==
    ASSUME NEW digits \in Digits
    PROVE  \E f : Writes(digits, f, Len(digits)) /\ UpdateDocs!NumberOf(digits) = f[Len(digits)]
<1> DEFINE k == Len(digits)
           IsFirst(f) == f = [n \in 0 .. k |-> IF n = 0 THEN 0 ELSE 10 * f[n - 1] + digits[n]]
           first == CHOOSE f : IsFirst(f)
<1>1. k \in Nat /\ \A i \in 1 .. k : digits[i] \in 0 .. 9
  BY DigitsAre
<1>2. PICK h : Writes(digits, h, k)
  BY NumberExists
<1>3. IsFirst(h)
  <2>1. h = [n \in 0 .. k |-> h[n]]
    BY <1>2 DEF Writes
  <2> QED BY <1>2, <2>1 DEF Writes
<1>4. IsFirst(first)
  BY <1>3
<1>5. UpdateDocs!NumberOf(digits) = first[k]
  BY DEF UpdateDocs!NumberOf
<1> HIDE DEF first
<1>6. \A n \in 0 .. k : first[n] = IF n = 0 THEN 0 ELSE 10 * first[n - 1] + digits[n]
  BY <1>4
<1>7. first = h
  <2> DEFINE Q == {n \in Nat : n <= k => first[n] = h[n]}
  <2>1. 0 \in Q
    BY <1>1, <1>2, <1>6 DEF Writes
  <2>2. ASSUME NEW n \in Q PROVE n + 1 \in Q
    BY <1>1, <1>2, <1>6 DEF Writes
  <2>3. Q = Nat
    <3> HIDE DEF Q
    <3>1. Q \in SUBSET Nat
      BY DEF Q
    <3> QED BY <2>1, <2>2, <3>1, SetInduction
  <2>4. \A n \in 0 .. k : first[n] = h[n]
    BY <1>1, <2>3
  <2>5. first = [n \in 0 .. k |-> first[n]] /\ h = [n \in 0 .. k |-> h[n]]
    BY <1>2, <1>4 DEF Writes
  <2> QED BY <2>4, <2>5
<1> QED BY <1>2, <1>5, <1>7

\* A number that is smaller, or whose next digit is, stays smaller with that digit.
LEMMA TenTimes ==
    ASSUME NEW x \in Nat, NEW y \in Nat, NEW d \in 0 .. 9, NEW e \in 0 .. 9,
           x + 1 <= y \/ (x = y /\ d < e)
    PROVE  10 * x + d + 1 <= 10 * y + e
OBVIOUS

\* Among minors of as many digits, what comes in turn is no smaller number.
LEMMA InTurnIsNumeric ==
    ASSUME NEW m \in Digits, NEW n \in Digits, InTurn(m, n), Len(m) = Len(n)
    PROVE  UpdateDocs!NumberOf(m) <= UpdateDocs!NumberOf(n)
<1> DEFINE k == Len(m)
<1>1. /\ k \in Nat /\ DOMAIN m = 1 .. k /\ \A j \in 1 .. k : m[j] \in 0 .. 9
      /\ DOMAIN n = 1 .. k /\ \A j \in 1 .. k : n[j] \in 0 .. 9
  BY DigitsAre
<1>2. PICK f : Writes(m, f, k) /\ UpdateDocs!NumberOf(m) = f[k]
  BY NumberIs
<1>3. PICK g : Writes(n, g, k) /\ UpdateDocs!NumberOf(n) = g[k]
  BY NumberIs
<1>4. /\ f[0] = 0 /\ g[0] = 0
      /\ \A j \in 0 .. k : f[j] \in Nat /\ g[j] \in Nat
      /\ \A j \in 1 .. k : f[j] = 10 * f[j - 1] + m[j] /\ g[j] = 10 * g[j - 1] + n[j]
  BY <1>1, <1>2, <1>3 DEF Writes
<1> HIDE DEF k
<1>5. CASE \A i \in 1 .. k : m[i] = n[i]
  <2>1. m = n
    BY <1>5, SeqEqual DEF Digits, k
  <2> QED BY <1>2, <1>4, <2>1, <1>1
<1>6. ASSUME NEW i, LessAt(m, n, i) PROVE UpdateDocs!NumberOf(m) <= UpdateDocs!NumberOf(n)
  <2>1. i \in 1 .. k /\ m[i] < n[i] /\ \A j \in 1 .. i - 1 : m[j] = n[j]
    BY <1>1, <1>6 DEF LessAt
  <2> DEFINE P == {j \in Nat : j <= k => IF j < i THEN f[j] = g[j] ELSE f[j] + 1 <= g[j]}
  <2>2. 0 \in P
    BY <1>4, <2>1
  <2>3. ASSUME NEW j \in P PROVE j + 1 \in P
    <3> SUFFICES ASSUME j + 1 <= k
                 PROVE  IF j + 1 < i THEN f[j + 1] = g[j + 1] ELSE f[j + 1] + 1 <= g[j + 1]
      OBVIOUS
    <3>1. /\ j \in Nat /\ j + 1 \in 1 .. k /\ j \in 0 .. k /\ (j + 1) - 1 = j
          /\ f[j] \in Nat /\ g[j] \in Nat /\ m[j + 1] \in 0 .. 9 /\ n[j + 1] \in 0 .. 9
          /\ IF j < i THEN f[j] = g[j] ELSE f[j] + 1 <= g[j]
      BY <1>1, <1>4
    <3>2. f[j + 1] = 10 * f[j] + m[j + 1] /\ g[j + 1] = 10 * g[j] + n[j + 1]
      BY <1>4, <3>1
    <3>3. CASE j + 1 < i
      <4>1. j + 1 \in 1 .. i - 1 /\ j < i
        BY <2>1, <3>1, <3>3
      <4>2. m[j + 1] = n[j + 1] /\ f[j] = g[j]
        BY <2>1, <3>1, <4>1
      <4> QED BY <3>2, <3>3, <4>2
    <3>4. CASE j + 1 = i
      <4>1. m[j + 1] < n[j + 1] /\ f[j] = g[j]
        BY <2>1, <3>1, <3>4
      <4>2. f[j + 1] + 1 <= g[j + 1]
        BY <3>1, <3>2, <4>1, TenTimes
      <4>3. ~ (j + 1 < i)
        BY <2>1, <3>4
      <4> QED BY <4>2, <4>3
    <3>5. CASE i < j + 1
      <4>1. ~ (j < i) /\ ~ (j + 1 < i)
        BY <2>1, <3>1, <3>5
      <4>2. f[j + 1] + 1 <= g[j + 1]
        BY <3>1, <3>2, <4>1, TenTimes
      <4> QED BY <4>1, <4>2
    <3> QED BY <2>1, <3>1, <3>3, <3>4, <3>5
  <2>4. k \in P
    <3> HIDE DEF P
    <3>1. P \in SUBSET Nat
      BY DEF P
    <3> QED BY <1>1, <2>2, <2>3, <3>1, SetInduction
  <2>5. f[k] + 1 <= g[k] /\ f[k] \in Nat /\ g[k] \in Nat
    BY <1>1, <1>4, <2>1, <2>4
  <2> QED BY <1>2, <1>3, <2>5 DEF k
<1> QED BY <1>5, <1>6, InTurnIs DEF k

LOCAL Rises(branch) ==
    /\ branch \in Seq([minor : Minors, patch : Int])
    /\ \A i, j \in DOMAIN branch : i < j => InTurn(branch[i].minor, branch[j].minor)

\* A version may follow the last of a branch.
LOCAL MayFollow(branch, v) ==
    /\ v \in [minor : Minors, patch : Int]
    /\ \A i \in DOMAIN branch : InTurn(branch[i].minor, v.minor)

LOCAL Clones == UpdateDocs!Clones

DocsInv ==
    /\ release \in [Minors -> Int]
    /\ docsPc \in [Clones -> {"idle", "started", "prepared", "built"}]
    /\ DOMAIN version = Clones /\ DOMAIN base = Clones /\ DOMAIN mine = Clones
    /\ Rises(docs)
    /\ \A k \in Clones :
        /\ Rises(mine[k])
        /\ docsPc[k] # "idle" => version[k] \in [minor : Minors, patch : Int]
        /\ docsPc[k] \in {"prepared", "built"} => Rises(base[k]) /\ MayFollow(base[k], version[k])
        /\ docsPc[k] = "built" => mine[k] = Append(base[k], version[k])

LEMMA RisesFacts ==
    ASSUME NEW branch, Rises(branch)
    PROVE  /\ Len(branch) \in Nat
           /\ DOMAIN branch = 1 .. Len(branch)
           /\ \A i \in 1 .. Len(branch) :
                 /\ branch[i] \in [minor : Minors, patch : Int]
                 /\ branch[i].minor \in Digits
<1>1. Len(branch) \in Nat /\ DOMAIN branch = 1 .. Len(branch)
  BY DEF Rises
<1>2. \A i \in 1 .. Len(branch) : branch[i] \in [minor : Minors, patch : Int]
  BY <1>1, ElementOfSeq DEF Rises
<1>3. \A i \in 1 .. Len(branch) : branch[i].minor \in Minors
  BY <1>2
<1> QED BY <1>1, <1>2, <1>3, ReleasesAssumption DEF Digits

\* A branch still rises with a version that may follow it.
LEMMA FollowRises ==
    ASSUME NEW branch, Rises(branch), NEW v, MayFollow(branch, v)
    PROVE  Rises(Append(branch, v))
<1>1. /\ Len(branch) \in Nat /\ DOMAIN branch = 1 .. Len(branch)
      /\ v \in [minor : Minors, patch : Int]
  BY RisesFacts DEF MayFollow
<1>2. /\ Append(branch, v) \in Seq([minor : Minors, patch : Int])
      /\ DOMAIN Append(branch, v) = 1 .. Len(branch) + 1
      /\ \A i \in 1 .. Len(branch) : Append(branch, v)[i] = branch[i]
      /\ Append(branch, v)[Len(branch) + 1] = v
  BY <1>1, AppendProperties DEF Rises
<1> DEFINE longer == Append(branch, v)
<1> HIDE DEF longer
<1>3. ASSUME NEW i \in DOMAIN longer, NEW j \in DOMAIN longer, i < j
      PROVE  InTurn(longer[i].minor, longer[j].minor)
  <2>1. i \in 1 .. Len(branch) /\ longer[i] = branch[i]
    BY <1>1, <1>2, <1>3 DEF longer
  <2>2. CASE j = Len(branch) + 1
    <3>1. longer[j] = v
      BY <2>2, <1>2 DEF longer
    <3> QED BY <2>1, <3>1, <1>1 DEF MayFollow
  <2>3. CASE j # Len(branch) + 1
    <3>1. j \in 1 .. Len(branch) /\ longer[j] = branch[j]
      BY <2>3, <1>1, <1>2 DEF longer
    <3> QED BY <2>1, <3>1, <1>1, <1>3 DEF Rises
  <2> QED BY <2>2, <2>3
<1> QED BY <1>2, <1>3 DEF Rises, longer

\* What is not less than the last of a branch may follow it.
LEMMA NotLessFollows ==
    ASSUME NEW branch, Rises(branch), NEW v \in [minor : Minors, patch : Int],
           branch # <<>> => ~ UpdateDocs!IsLess(v.minor, UpdateDocs!Last(branch).minor)
    PROVE  MayFollow(branch, v)
<1>1. /\ Len(branch) \in Nat /\ DOMAIN branch = 1 .. Len(branch)
      /\ branch = <<>> <=> Len(branch) = 0
  BY RisesFacts, EmptySeq DEF Rises
<1>2. ASSUME NEW i \in DOMAIN branch PROVE InTurn(branch[i].minor, v.minor)
  <2>1. Len(branch) \in 1 .. Len(branch) /\ branch # <<>> /\ i \in 1 .. Len(branch)
    BY <1>1
  <2> DEFINE last == branch[Len(branch)]
  <2>2. /\ last.minor \in Digits /\ v.minor \in Digits /\ branch[i].minor \in Digits
        /\ UpdateDocs!Last(branch) = last
    BY <2>1, RisesFacts, ReleasesAssumption DEF UpdateDocs!Last, Digits
  <2>3. InTurn(last.minor, v.minor)
    <3>1. ~ IsLess(v.minor, last.minor)
      BY <2>1, <2>2 DEF IsLess
    <3> HIDE DEF last
    <3> QED BY <2>2, <3>1, NotLessInTurn
  <2>4. i = Len(branch) \/ InTurn(branch[i].minor, last.minor)
    BY <1>1, <2>1 DEF Rises
  <2>5. CASE i = Len(branch)
    BY <2>3, <2>5
  <2>6. CASE InTurn(branch[i].minor, last.minor)
    <3> HIDE DEF last
    <3> QED BY <2>2, <2>3, <2>6, InTurnTransitive
  <2> QED BY <2>4, <2>5, <2>6
<1> QED BY <1>2 DEF MayFollow

LEMMA DocsStart == UpdateDocs!Init => DocsInv
<1> SUFFICES ASSUME UpdateDocs!Init PROVE DocsInv
  OBVIOUS
<1>1. Rises(<<>>)
  BY EmptySeq DEF Rises
<1>2. /\ release = [m \in Minors |-> -1]
      /\ docs = <<>>
      /\ docsPc = [k \in Clones |-> "idle"]
      /\ mine = [k \in Clones |-> <<>>]
      /\ DOMAIN version = Clones /\ DOMAIN base = Clones
  BY DEF UpdateDocs!Init, Clones
<1>3. \A k \in Clones : mine[k] = <<>> /\ docsPc[k] = "idle"
  BY <1>2
<1> QED BY <1>1, <1>2, <1>3 DEF DocsInv

LEMMA DocsNext == DocsInv /\ [UpdateDocs!Next]_(UpdateDocs!vars) => DocsInv'
<1> SUFFICES ASSUME DocsInv, [UpdateDocs!Next]_(UpdateDocs!vars) PROVE DocsInv'
  OBVIOUS
<1> USE DEF DocsInv
<1>1. Rises(<<>>)
  BY EmptySeq DEF Rises
<1>2. ASSUME NEW k \in Clones, UpdateDocs!End(k), UNCHANGED <<release, mine>>, Rises(docs')
      PROVE  DocsInv'
  BY <1>2 DEF UpdateDocs!End
<1>3. ASSUME NEW m \in Minors, UpdateDocs!Release(m) PROVE DocsInv'
  BY <1>3 DEF UpdateDocs!Release
<1>4. ASSUME NEW k \in Clones, NEW m \in Minors, UpdateDocs!Checkout(k, m) PROVE DocsInv'
  <2> DEFINE v == [minor |-> m, patch |-> release[m]]
  <2>1. v \in [minor : Minors, patch : Int]
    OBVIOUS
  <2>2. /\ docsPc' = [docsPc EXCEPT ![k] = "started"]
        /\ version' = [version EXCEPT ![k] = v]
        /\ mine' = [mine EXCEPT ![k] = <<>>] \/ mine' = mine
        /\ UNCHANGED <<release, docs, base>>
    BY <1>4 DEF UpdateDocs!Checkout
  <2> HIDE DEF v
  <2>3. \A l \in Clones : mine'[l] = mine[l] \/ (l = k /\ mine'[l] = <<>>)
    BY <2>2
  <2>4. docsPc'[k] = "started"
    BY <2>2
  <2>5. \A l \in Clones : l # k => mine'[l] = mine[l] /\ docsPc'[l] = docsPc[l]
                                   /\ version'[l] = version[l]
    BY <2>2
  <2> QED BY <1>1, <2>1, <2>2, <2>3, <2>4, <2>5
<1>5. ASSUME NEW k \in Clones, UpdateDocs!Refuse(k) PROVE DocsInv'
  BY <1>2, <1>5 DEF UpdateDocs!Refuse
<1>6. ASSUME NEW k \in Clones, UpdateDocs!Prepare(k) PROVE DocsInv'
  <2>1. /\ docsPc[k] = "started"
        /\ docsPc' = [docsPc EXCEPT ![k] = "prepared"]
        /\ mine' = [mine EXCEPT ![k] = base'[k]]
        /\ UNCHANGED <<release, docs, version>>
    BY <1>6 DEF UpdateDocs!Prepare
  <2>2. PICK ref : base' = [base EXCEPT ![k] = ref] /\
                 (ref = <<>> \/ (ref \in UpdateDocs!Refs(k) /\
                     ~ UpdateDocs!IsLess(version[k].minor, UpdateDocs!Last(ref).minor)))
    BY <1>6 DEF UpdateDocs!Prepare
  <2>3. Rises(ref) /\ (ref # <<>> =>
            ~ UpdateDocs!IsLess(version[k].minor, UpdateDocs!Last(ref).minor))
    BY <1>1, <2>2 DEF UpdateDocs!Refs
  <2>4. MayFollow(ref, version[k])
    BY <2>1, <2>3, NotLessFollows
  <2>5. base'[k] = ref /\ mine'[k] = ref /\ docsPc'[k] = "prepared"
    BY <2>1, <2>2
  <2>6. \A l \in Clones : l # k => mine'[l] = mine[l] /\ docsPc'[l] = docsPc[l]
                                   /\ base'[l] = base[l]
    BY <2>1, <2>2
  <2> QED BY <2>1, <2>2, <2>3, <2>4, <2>5, <2>6
<1>7. ASSUME NEW k \in Clones, UpdateDocs!Commit(k) PROVE DocsInv'
  <2>1. /\ docsPc[k] = "prepared"
        /\ docsPc' = [docsPc EXCEPT ![k] = "built"]
        /\ mine' = [mine EXCEPT ![k] = Append(base[k], version[k])]
        /\ UNCHANGED <<release, docs, version, base>>
    BY <1>7 DEF UpdateDocs!Commit
  <2> DEFINE branch == Append(base[k], version[k])
  <2>2. Rises(branch)
    BY <2>1, FollowRises
  <2> HIDE DEF branch
  <2>3. mine'[k] = branch /\ docsPc'[k] = "built"
    BY <2>1 DEF branch
  <2>4. \A l \in Clones : l # k => mine'[l] = mine[l] /\ docsPc'[l] = docsPc[l]
    BY <2>1
  <2> QED BY <2>1, <2>2, <2>3, <2>4 DEF branch
<1>8. ASSUME NEW k \in Clones, UpdateDocs!Fail(k) PROVE DocsInv'
  BY <1>2, <1>8 DEF UpdateDocs!Fail
<1>9. ASSUME NEW k \in Clones, UpdateDocs!Push(k) PROVE DocsInv'
  BY <1>2, <1>9 DEF UpdateDocs!Push
<1>10. ASSUME NEW k \in Clones, UpdateDocs!Leave(k) PROVE DocsInv'
  BY <1>2, <1>10 DEF UpdateDocs!Leave
<1>11. CASE UNCHANGED UpdateDocs!vars
  BY <1>11 DEF UpdateDocs!vars
<1> QED
  BY <1>3, <1>4, <1>5, <1>6, <1>7, <1>8, <1>9, <1>10, <1>11 DEF UpdateDocs!Next, Clones

\* However many minors there are, of whatever numbers of digits, and however many clones push
\* in whichever order: documentation is not replaced by that of an older minor of as many
\* digits, nor by that of a minor that a dictionary has before it.
THEOREM DocsNeverOlder == UpdateDocs!Spec => NeverOlderMinor
<1> DEFINE Kept == UpdateDocs!Published =>
                     \A i \in DOMAIN docs :
                        UpdateDocs!NotOlder(docs[i].minor, UpdateDocs!Last(docs').minor)
<1>1. DocsInv /\ [UpdateDocs!Next]_(UpdateDocs!vars) => [Kept]_(UpdateDocs!vars)
  <2> SUFFICES ASSUME DocsInv, [UpdateDocs!Next]_(UpdateDocs!vars), UpdateDocs!Published,
                      NEW p \in DOMAIN docs
               PROVE  UpdateDocs!NotOlder(docs[p].minor, UpdateDocs!Last(docs').minor)
    OBVIOUS
  <2>1. docs' # docs
    BY DEF UpdateDocs!Published
  <2>2. PICK k \in Clones : UpdateDocs!Push(k)
    BY <2>1 DEF UpdateDocs!Next, UpdateDocs!vars, UpdateDocs!Release, UpdateDocs!Checkout,
                UpdateDocs!Refuse, UpdateDocs!Prepare, UpdateDocs!Commit, UpdateDocs!Fail,
                UpdateDocs!Leave, Clones
  <2>3. docsPc[k] = "built" /\ docs' = mine[k] /\ UpdateDocs!IsPrefix(docs, mine[k])
    BY <2>1, <2>2 DEF UpdateDocs!Push
  <2> DEFINE onto == base[k]
             v == version[k]
  <2>4. docs' = Append(onto, v) /\ Rises(onto) /\ MayFollow(onto, v) /\ Rises(docs)
    BY <2>3 DEF DocsInv
  <2> HIDE DEF onto, v
  <2>5. /\ Len(onto) \in Nat /\ Len(docs) \in Nat
        /\ onto \in Seq([minor : Minors, patch : Int])
        /\ docs \in Seq([minor : Minors, patch : Int])
        /\ v \in [minor : Minors, patch : Int]
        /\ DOMAIN onto = 1 .. Len(onto)
        /\ DOMAIN docs = 1 .. Len(docs)
    BY <2>4, RisesFacts DEF Rises, MayFollow
  <2>6. /\ Len(Append(onto, v)) = Len(onto) + 1
        /\ \A i \in 1 .. Len(onto) : Append(onto, v)[i] = onto[i]
        /\ Append(onto, v)[Len(onto) + 1] = v
        /\ Append(onto, v) \in Seq([minor : Minors, patch : Int])
    BY <2>5, AppendProperties
  <2>7. Len(docs) <= Len(onto) + 1 /\ \A i \in 1 .. Len(docs) : docs[i] = docs'[i]
    <3>1. /\ Len(docs) <= Len(docs')
          /\ SubSeq(docs, 1, Len(docs)) = SubSeq(docs', 1, Len(docs))
      BY <2>3 DEF UpdateDocs!IsPrefix
    <3>2. \A i \in 1 .. Len(docs) : SubSeq(docs, 1, Len(docs))[i] = docs[i]
                                    /\ SubSeq(docs', 1, Len(docs))[i] = docs'[i]
      BY <3>1, <2>4, <2>5, <2>6, SubSeqProperties
    <3> QED BY <3>1, <3>2, <2>4, <2>6
  <2>8. Len(docs) <= Len(onto)
    <3>1. Len(docs) \in Nat /\ Len(onto) \in Nat /\ Len(docs) <= Len(onto) + 1
      BY <2>5, <2>7
    <3> SUFFICES ASSUME Len(docs) = Len(onto) + 1 PROVE FALSE
      BY <3>1
    <3>2. docs = docs'
      BY <2>4, <2>5, <2>6, <2>7, SeqEqual
    <3> QED BY <3>2, <2>1
  <2>9. p \in DOMAIN onto /\ docs[p] = onto[p]
    BY <2>4, <2>5, <2>6, <2>7, <2>8
  <2>10. InTurn(docs[p].minor, v.minor)
    BY <2>4, <2>9 DEF MayFollow
  <2>11. UpdateDocs!Last(docs') = v
    BY <2>4, <2>5, <2>6 DEF UpdateDocs!Last
  <2>12. docs[p].minor \in Digits /\ v.minor \in Digits
    BY <2>4, <2>5, RisesFacts, ReleasesAssumption DEF Digits
  <2>13. Len(docs[p].minor) = Len(v.minor)
           => UpdateDocs!NumberOf(docs[p].minor) <= UpdateDocs!NumberOf(v.minor)
    BY <2>10, <2>12, InTurnIsNumeric
  <2> QED BY <2>10, <2>11, <2>13 DEF UpdateDocs!NotOlder, InTurn
<1> QED BY DocsStart, DocsNext, <1>1, PTL
        DEF UpdateDocs!Spec, NeverOlderMinor, UpdateDocs!NeverOlderMinor

-----------------------------------------------------------------------------
(* The releases: what a tag says of itself is true.                         *)

LOCAL Versions == Release!Versions

LOCAL IsLater(v, w) == Release!IsLater(v, w)

LOCAL Trees ==
    [package : Versions,
     contracts : Versions,
     changelog : Seq([number : Int, dated : BOOLEAN]),
     comment : [SolFiles -> Versions],
     text : [SolFiles -> Int]]

\* The changelog has an entry for the version of the tree.
LOCAL HasEntry(t) ==
    \E i \in DOMAIN t.changelog :
        t.changelog[i] = [number |-> t.package.number, dated |-> t.package.rc = Release!Final]

\* A contract's comment names the version, or is that of an older tag since which the
\* contract has not changed.
LOCAL Commented(t, f) ==
    \/ t.comment[f] = t.package
    \/ \E s \in tags :
         /\ s.package.number < t.package.number
         /\ t.comment[f] = s.comment[f]
         /\ t.text[f] = s.text[f]

\* A contract's comment names a final release, or a candidate of the version at hand.
LOCAL NamesOwn(t) ==
    \A f \in SolFiles :
        \/ t.comment[f].rc = Release!Final
        \/ t.comment[f].number = t.package.number /\ t.package.rc # Release!Final

\* No comment names a version later than the tree's.
LOCAL NamesPast(t) ==
    \A f \in SolFiles : ~ IsLater(t.comment[f], t.package)

\* What the scripts have brought up to date in the working tree
Prepared ==
    /\ releasePc \in {"versions", "comments", "commit"} => HasEntry(work)
    /\ releasePc \in {"comments", "commit"} => work.contracts = work.package
    /\ releasePc \in {"changelog", "versions", "comments"} =>
          work.text = head.text /\ work.comment = head.comment
    /\ releasePc = "commit" =>
          NamesOwn(work) /\ NamesPast(work) /\ \A f \in SolFiles : Commented(work, f)
    /\ releasePc \in {"changelog", "versions", "comments", "commit"} =>
          work.package \in Release!NextVersions(head.package)

\* What is committed, before it is tagged
Committed ==
    releasePc = "tag" =>
        /\ HasEntry(head)
        /\ head.contracts = head.package
        /\ \A f \in SolFiles : Commented(head, f)
        /\ \A t \in tags : IsLater(head.package, t.package)

ReleaseInv ==
    /\ releasePc \in {"idle", "changelog", "versions", "comments", "commit", "tag", "failed"}
    /\ work \in Trees
    /\ head \in Trees
    /\ tags \subseteq Trees
    /\ releasePc \in {"idle", "tag"} => work = head
    /\ NamesOwn(head)
    /\ NamesPast(head)
    /\ \A t \in tags : NamesPast(t) /\ ~ IsLater(t.package, head.package)
    /\ \E t \in tags : t.package = Release!First
    /\ Prepared
    /\ Committed
    /\ TagsTrue

LEMMA VersionFacts ==
    /\ Release!Final \in Nat /\ Release!Final > 0
    /\ Release!First \in Versions
    /\ \A v \in Versions : v.number \in Nat /\ v.rc \in Nat /\ v.rc <= Release!Final
BY ReleasesAssumption DEF Versions, Release!Versions, Release!Final, Release!First

\* Of any three versions
LEMMA LaterFacts ==
    ASSUME NEW u \in Versions, NEW v \in Versions, NEW w \in Versions
    PROVE  /\ ~ IsLater(v, v)
           /\ IsLater(u, v) /\ ~ IsLater(w, v) => IsLater(u, w)
           /\ IsLater(u, v) => ~ IsLater(v, u)
           /\ ~ IsLater(u, v) => u.number <= v.number
BY VersionFacts DEF IsLater, Release!IsLater

\* The next version is later, and has a number of its own only after a final release.
LEMMA NextFacts ==
    ASSUME NEW v \in Versions, NEW w \in Versions, w \in Release!NextVersions(v)
    PROVE  /\ IsLater(w, v)
           /\ v.rc # Release!Final => w.number = v.number
           /\ ~ IsLater(Release!First, v) => w.number > 0
<1>1. /\ v.number \in Nat /\ v.rc \in Nat /\ v.rc <= Release!Final /\ Release!Final \in Nat
      /\ Release!Final > 0
      /\ v \in [number : 0 .. MaxNumber, rc : 0 .. Release!Final]
      /\ Release!First.number = 0 /\ Release!First.rc = Release!Final
  BY VersionFacts DEF Versions, Release!Versions, Release!First
<1>2. CASE v.rc = Release!Final
  <2>1. w.number = v.number + 1
    BY <1>2 DEF Release!NextVersions
  <2> QED BY <1>1, <1>2, <2>1 DEF IsLater, Release!IsLater
<1>3. CASE v.rc # Release!Final
  <2>1. w = [v EXCEPT !.rc = v.rc + 1] \/ w = [v EXCEPT !.rc = Release!Final]
    BY <1>3 DEF Release!NextVersions
  <2>2. w.number = v.number /\ w.rc > v.rc
    BY <1>1, <1>3, <2>1
  <2> QED BY <1>1, <1>3, <2>2 DEF IsLater, Release!IsLater
<1> QED BY <1>2, <1>3

LEMMA LargestExists ==
    ASSUME NEW n \in Nat, NEW S \in SUBSET (0 .. n), S # {}
    PROVE  \E x \in S : \A y \in S : y <= x
<1> DEFINE P == {m \in Nat : \A T \in SUBSET (0 .. m) :
                    T # {} => \E x \in T : \A y \in T : y <= x}
<1>1. 0 \in P
  <2>1. ASSUME NEW T \in SUBSET (0 .. 0), NEW x \in T PROVE \A y \in T : y <= x
    OBVIOUS
  <2> QED BY <2>1
<1>2. ASSUME NEW m \in P PROVE m + 1 \in P
  <2>1. ASSUME NEW T \in SUBSET (0 .. m + 1), T # {}
        PROVE  \E x \in T : \A y \in T : y <= x
    <3>1. \A y \in T : y \in Nat /\ y <= m + 1
      OBVIOUS
    <3>2. CASE m + 1 \in T
      BY <3>1, <3>2
    <3>3. CASE m + 1 \notin T
      <4>1. T \in SUBSET (0 .. m)
        BY <3>1, <3>3
      <4> QED BY <2>1, <4>1
    <3> QED BY <3>2, <3>3
  <2> QED BY <2>1
<1>3. n \in P
  <2> HIDE DEF P
  <2>1. P \in SUBSET Nat
    BY DEF P
  <2> QED BY <1>1, <1>2, <2>1, SetInduction
<1> QED BY <1>3

\* There is a latest tag that is older than a version, as long as there is any.
LEMMA LatestExists ==
    ASSUME tags \subseteq Trees, NEW v \in Versions,
           \E t \in tags : t.package.number < v.number
    PROVE  /\ Release!LatestTag(v) \in tags
           /\ Release!LatestTag(v).package.number < v.number
<1> DEFINE older == {t \in tags : t.package.number < v.number}
           numbers == {t.package.number : t \in older}
<1>1. \A t \in older : t.package \in Versions /\ t.package.number \in Nat /\ t.package.rc \in Nat
                       /\ t.package.rc <= Release!Final
  BY VersionFacts DEF Trees
<1>2. v.number \in Nat /\ Release!Final \in Nat
  BY VersionFacts
<1>3. PICK n \in numbers : \A m \in numbers : m <= n
  <2>1. numbers # {}
    OBVIOUS
  <2>2. numbers \in SUBSET (0 .. v.number)
    BY <1>1, <1>2
  <2> HIDE DEF numbers
  <2> QED BY <1>2, <2>1, <2>2, LargestExists
<1> DEFINE candidates == {t.package.rc : t \in {u \in older : u.package.number = n}}
<1>4. PICK r \in candidates : \A q \in candidates : q <= r
  <2>1. candidates # {}
    BY <1>3
  <2>2. candidates \in SUBSET (0 .. Release!Final)
    BY <1>1, <1>2
  <2> HIDE DEF candidates
  <2> QED BY <1>2, <2>1, <2>2, LargestExists
<1>5. PICK t \in older : t.package.number = n /\ t.package.rc = r
  BY <1>4
<1>6. \A s \in older : ~ IsLater(s.package, t.package)
  <2> SUFFICES ASSUME NEW s \in older PROVE ~ IsLater(s.package, t.package)
    OBVIOUS
  <2>1. s.package.number <= n
    BY <1>3
  <2>2. s.package.number = n => s.package.rc <= r
    BY <1>4
  <2> QED BY <1>1, <1>5, <2>1, <2>2 DEF IsLater, Release!IsLater
<1> QED BY <1>5, <1>6 DEF Release!LatestTag, Release!IsOlder, IsLater

LEMMA TreeFacts ==
    ASSUME NEW t \in Trees
    PROVE  /\ t.package \in Versions
           /\ t.contracts \in Versions
           /\ t.changelog \in Seq([number : Int, dated : BOOLEAN])
           /\ t.comment \in [SolFiles -> Versions]
           /\ t.text \in [SolFiles -> Int]
           /\ \A f \in SolFiles : t.comment[f] \in Versions
BY DEF Trees

\* A changed tree is one.
LEMMA TreeChanges ==
    ASSUME NEW t \in Trees
    PROVE  /\ \A v \in Versions : LET u == [t EXCEPT !.package = v]
                                  IN  /\ u \in Trees /\ u.package = v
                                      /\ u.text = t.text /\ u.comment = t.comment
           /\ \A v \in Versions : LET u == [t EXCEPT !.contracts = v]
                                  IN  /\ u \in Trees /\ u.contracts = v
                                      /\ u.package = t.package /\ u.changelog = t.changelog
                                      /\ u.text = t.text /\ u.comment = t.comment
           /\ \A g \in [SolFiles -> Versions] :
                 LET u == [t EXCEPT !.comment = g]
                 IN  /\ u \in Trees /\ u.comment = g
                     /\ u.package = t.package /\ u.contracts = t.contracts
                     /\ u.changelog = t.changelog /\ u.text = t.text
           /\ \A g \in [SolFiles -> Int] :
                 LET u == [t EXCEPT !.text = g]
                 IN  u \in Trees /\ u.package = t.package /\ u.comment = t.comment
           /\ \A q \in Seq([number : Int, dated : BOOLEAN]) :
                 LET u == [t EXCEPT !.changelog = q]
                 IN  /\ u \in Trees /\ u.changelog = q /\ u.package = t.package
                     /\ u.text = t.text /\ u.comment = t.comment
BY DEF Trees

LEMMA ReleaseStart == Release!Init => ReleaseInv
<1> SUFFICES ASSUME Release!Init PROVE ReleaseInv
  OBVIOUS
<1> DEFINE first == [number |-> 0, dated |-> TRUE]
           tree == [package |-> Release!First,
                    contracts |-> Release!First,
                    changelog |-> <<first>>,
                    comment |-> [f \in SolFiles |-> Release!First],
                    text |-> [f \in SolFiles |-> 0]]
<1>1. work = tree /\ head = tree /\ tags = {tree} /\ releasePc = "idle"
  BY DEF Release!Init
<1>2. Release!First \in Versions /\ Release!First.number = 0
      /\ Release!First.rc = Release!Final
  BY VersionFacts DEF Release!First
<1>3. <<first>> \in Seq([number : Int, dated : BOOLEAN])
  OBVIOUS
<1>4. tree \in Trees
  BY <1>2, <1>3 DEF Trees
<1>5. ~ IsLater(Release!First, Release!First)
  BY <1>2, LaterFacts
<1>6. NamesOwn(tree) /\ NamesPast(tree)
  BY <1>2, <1>5 DEF NamesOwn, NamesPast
<1>7. \E i \in DOMAIN tree.changelog :
        tree.changelog[i] = [number |-> tree.package.number,
                             dated |-> tree.package.rc = Release!Final]
  <2>1. DOMAIN <<first>> = {1} /\ <<first>>[1] = first
    OBVIOUS
  <2> QED BY <1>2, <2>1
<1>8. TagsTrue
  BY <1>1, <1>2, <1>7
     DEF TagsTrue, Release!TagsTrue, Release!PackagesAgree, Release!EntryDated,
         Release!LastUpdatedTrue, Release!FinalNamesFinal
<1> QED BY <1>1, <1>2, <1>4, <1>5, <1>6, <1>8 DEF ReleaseInv, Prepared, Committed

LEMMA BumpKeeps == ReleaseInv /\ Release!Bump => ReleaseInv'
<1> SUFFICES ASSUME ReleaseInv, Release!Bump PROVE ReleaseInv'
  OBVIOUS
<1>1. PICK v \in Release!NextVersions(head.package) \intersect Versions :
        work' = [work EXCEPT !.package = v]
  BY DEF Release!Bump, Versions
<1>2. /\ releasePc = "idle" /\ work = head /\ releasePc' = "changelog"
      /\ UNCHANGED <<head, tags>> /\ work \in Trees
  BY DEF Release!Bump, ReleaseInv
<1>3. work' \in Trees /\ work'.package = v /\ work'.text = head.text
      /\ work'.comment = head.comment
  BY <1>1, <1>2, TreeChanges
<1> QED BY <1>1, <1>2, <1>3
        DEF ReleaseInv, Prepared, Committed, NamesOwn, NamesPast, TagsTrue, Release!TagsTrue,
            Release!PackagesAgree, Release!EntryDated, Release!LastUpdatedTrue,
            Release!FinalNamesFinal

LEMMA ChangelogKeeps == ReleaseInv /\ Release!UpdateChangelog => ReleaseInv'
<1> SUFFICES ASSUME ReleaseInv, Release!UpdateChangelog PROVE ReleaseInv'
  OBVIOUS
<1> DEFINE entry == Release!NewHeader(work.package)
<1>1. PICK i \in DOMAIN work.changelog : work' = [work EXCEPT !.changelog[i] = entry]
  BY DEF Release!UpdateChangelog, Release!Matching
<1>2. /\ releasePc = "changelog" /\ releasePc' = "versions"
      /\ UNCHANGED <<head, tags>> /\ work \in Trees /\ head \in Trees
  BY DEF Release!UpdateChangelog, ReleaseInv
<1> DEFINE entries == [work.changelog EXCEPT ![i] = entry]
<1>3. entry = [number |-> work.package.number, dated |-> work.package.rc = Release!Final]
  BY DEF Release!NewHeader
<1>4. entry \in [number : Int, dated : BOOLEAN]
  BY <1>2, <1>3, TreeFacts, VersionFacts
<1> HIDE DEF entry
<1>5. /\ entries \in Seq([number : Int, dated : BOOLEAN])
      /\ i \in DOMAIN entries /\ entries[i] = entry
  BY <1>2, <1>4, TreeFacts
<1>6. work' = [work EXCEPT !.changelog = entries]
  BY <1>1, <1>2 DEF Trees
<1> HIDE DEF entries
<1>7. /\ work' \in Trees /\ work'.changelog = entries /\ work'.package = work.package
      /\ work'.text = work.text /\ work'.comment = work.comment
  BY <1>2, <1>5, <1>6, TreeChanges
<1>8. HasEntry(work')
  BY <1>3, <1>5, <1>7 DEF HasEntry
<1> QED BY <1>2, <1>7, <1>8
        DEF ReleaseInv, Prepared, Committed, NamesOwn, NamesPast, HasEntry,
            TagsTrue, Release!TagsTrue,
            Release!PackagesAgree, Release!EntryDated, Release!LastUpdatedTrue,
            Release!FinalNamesFinal

LEMMA VersionsKeep == ReleaseInv /\ Release!SynchronizeVersions => ReleaseInv'
<1> SUFFICES ASSUME ReleaseInv, Release!SynchronizeVersions PROVE ReleaseInv'
  OBVIOUS
<1>1. /\ releasePc = "versions" /\ releasePc' = "comments"
      /\ UNCHANGED <<head, tags>> /\ work \in Trees /\ head \in Trees
      /\ work' = [work EXCEPT !.contracts = work.package]
  BY DEF Release!SynchronizeVersions, ReleaseInv
<1>2. /\ work' \in Trees /\ work'.contracts = work.package
      /\ work'.package = work.package /\ work'.changelog = work.changelog
      /\ work'.text = work.text /\ work'.comment = work.comment
  BY <1>1, TreeFacts, TreeChanges
<1>3. HasEntry(work')
  BY <1>1, <1>2 DEF HasEntry, ReleaseInv, Prepared
<1> QED BY <1>1, <1>2, <1>3
        DEF ReleaseInv, Prepared, Committed, NamesOwn, NamesPast, HasEntry,
            TagsTrue, Release!TagsTrue,
            Release!PackagesAgree, Release!EntryDated, Release!LastUpdatedTrue,
            Release!FinalNamesFinal

LEMMA CommentsKeep == ReleaseInv /\ Release!UpdateComment => ReleaseInv'
<1> SUFFICES ASSUME ReleaseInv, Release!UpdateComment PROVE ReleaseInv'
  OBVIOUS
<1> DEFINE v == work.package
           latest == Release!LatestTag(v)
           g == [f \in SolFiles |-> IF Release!Differs(latest, f) THEN v ELSE work.comment[f]]
<1>1. /\ releasePc = "comments" /\ releasePc' = "commit"
      /\ UNCHANGED <<head, tags>> /\ work \in Trees /\ head \in Trees
      /\ work' = [work EXCEPT !.comment = g]
  BY DEF Release!UpdateComment, ReleaseInv
<1>2. /\ v \in Versions /\ head.package \in Versions
      /\ v \in Release!NextVersions(head.package)
      /\ work.text = head.text /\ work.comment = head.comment
      /\ HasEntry(work) /\ work.contracts = v
      /\ tags \subseteq Trees /\ NamesOwn(head) /\ NamesPast(head)
      /\ \A t \in tags : NamesPast(t)
  BY <1>1, TreeFacts DEF ReleaseInv, Prepared
<1>3. IsLater(v, head.package)
      /\ (head.package.rc # Release!Final => v.number = head.package.number)
  BY <1>2, NextFacts
<1>4. latest \in tags /\ latest.package.number < v.number /\ latest \in Trees
  <2>1. PICK t \in tags : t.package = Release!First
    BY DEF ReleaseInv
  <2>2. ~ IsLater(Release!First, head.package)
    BY <2>1 DEF ReleaseInv
  <2>3. v.number > 0
    BY <1>2, <2>2, NextFacts
  <2>4. t.package.number < v.number
    BY <2>1, <2>3 DEF Release!First
  <2> QED BY <1>2, <2>4, LatestExists
<1>5. \A f \in SolFiles : head.comment[f] \in Versions /\ latest.comment[f] \in Versions
  BY <1>1, <1>4, TreeFacts
<1> HIDE DEF v, latest
<1>6. \A f \in SolFiles :
        \/ g[f] = v
        \/ /\ g[f] = head.comment[f]
           /\ latest.comment[f] = head.comment[f] /\ latest.text[f] = head.text[f]
  BY <1>2 DEF Release!Differs
<1>7. g \in [SolFiles -> Versions]
  BY <1>2, <1>5
<1> HIDE DEF g
<1>8. /\ work' \in Trees /\ work'.comment = g
      /\ work'.package = v /\ work'.contracts = v
      /\ work'.changelog = work.changelog /\ work'.text = head.text
  BY <1>1, <1>2, <1>7, TreeChanges DEF v
<1>9. HasEntry(work')
  BY <1>2, <1>8 DEF HasEntry, v
<1>10. \A f \in SolFiles : Commented(work, f)'
  BY <1>1, <1>4, <1>6, <1>8 DEF Commented
<1>11. NamesPast(work')
  <2> SUFFICES ASSUME NEW f \in SolFiles PROVE ~ IsLater(g[f], v)
    BY <1>8 DEF NamesPast
  <2>1. CASE g[f] = v
    BY <2>1, <1>2, LaterFacts
  <2>2. CASE g[f] = head.comment[f]
    <3>1. ~ IsLater(head.comment[f], head.package)
      BY <1>2 DEF NamesPast
    <3> QED BY <2>2, <3>1, <1>2, <1>3, <1>5, LaterFacts
  <2> QED BY <2>1, <2>2, <1>6
<1>12. NamesOwn(work')
  <2> SUFFICES ASSUME NEW f \in SolFiles
               PROVE  \/ g[f].rc = Release!Final
                      \/ g[f].number = v.number /\ v.rc # Release!Final
    BY <1>8 DEF NamesOwn
  <2>1. CASE g[f] = v
    BY <2>1
  <2>2. CASE /\ g[f] = head.comment[f]
             /\ latest.comment[f] = head.comment[f] /\ latest.text[f] = head.text[f]
    <3>1. latest.comment[f].number <= latest.package.number
      <4>1. ~ IsLater(latest.comment[f], latest.package) /\ latest.package \in Versions
        BY <1>2, <1>4, TreeFacts DEF NamesPast
      <4> QED BY <4>1, <1>5, LaterFacts
    <3>2. latest.package \in Versions
      BY <1>4, TreeFacts
    <3>3. head.comment[f].number # v.number
      BY <2>2, <3>1, <3>2, <1>2, <1>4, <1>5, VersionFacts
    <3>4. \/ head.comment[f].rc = Release!Final
          \/ head.comment[f].number = head.package.number /\ head.package.rc # Release!Final
      BY <1>2 DEF NamesOwn
    <3> QED BY <2>2, <3>3, <3>4, <1>3
  <2> QED BY <2>1, <2>2, <1>6
<1> QED BY <1>1, <1>2, <1>8, <1>9, <1>10, <1>11, <1>12
        DEF ReleaseInv, Prepared, Committed, Commented, NamesOwn, NamesPast, HasEntry,
            TagsTrue, Release!TagsTrue,
            Release!PackagesAgree, Release!EntryDated, Release!LastUpdatedTrue,
            Release!FinalNamesFinal

LEMMA CommitKeeps == ReleaseInv /\ Release!Commit => ReleaseInv'
<1> SUFFICES ASSUME ReleaseInv, Release!Commit PROVE ReleaseInv'
  OBVIOUS
<1>1. /\ releasePc = "commit" /\ releasePc' = "tag" /\ head' = work /\ work' = work
      /\ tags' = tags /\ work \in Trees /\ head \in Trees /\ tags \subseteq Trees
  BY DEF Release!Commit, ReleaseInv
<1>2. /\ work.package \in Release!NextVersions(head.package)
      /\ work.package \in Versions /\ head.package \in Versions
  BY <1>1, TreeFacts DEF ReleaseInv, Prepared
<1>3. IsLater(work.package, head.package)
  BY <1>2, NextFacts
<1>4. ASSUME NEW t \in tags
      PROVE  IsLater(work.package, t.package) /\ ~ IsLater(t.package, work.package)
  <2>1. t.package \in Versions /\ ~ IsLater(t.package, head.package)
    BY <1>1, TreeFacts DEF ReleaseInv
  <2> QED BY <2>1, <1>2, <1>3, LaterFacts
<1>5. /\ NamesOwn(work) /\ NamesPast(work) /\ HasEntry(work) /\ work.contracts = work.package
      /\ \A f \in SolFiles : Commented(work, f)
  BY <1>1 DEF ReleaseInv, Prepared
<1>6. Committed'
  BY <1>1, <1>4, <1>5 DEF Committed, HasEntry, Commented
<1>7. NamesOwn(head)' /\ NamesPast(head)'
  BY <1>1, <1>5 DEF NamesOwn, NamesPast
<1>8. Prepared'
  BY <1>1 DEF Prepared
<1> QED BY <1>1, <1>4, <1>6, <1>7, <1>8
        DEF ReleaseInv, NamesPast, TagsTrue, Release!TagsTrue,
            Release!PackagesAgree, Release!EntryDated, Release!LastUpdatedTrue,
            Release!FinalNamesFinal

\* The new tag is true, and makes none of the others false.
LEMMA TagKeeps == ReleaseInv /\ Release!Tag => ReleaseInv'
<1> SUFFICES ASSUME ReleaseInv, Release!Tag PROVE ReleaseInv'
  OBVIOUS
<1>1. /\ releasePc = "tag" /\ releasePc' = "idle" /\ head' = head /\ work' = work
      /\ tags' = tags \union {head} /\ head \in Trees /\ tags \subseteq Trees
      /\ work = head
  BY DEF Release!Tag, ReleaseInv
<1>2. /\ HasEntry(head) /\ head.contracts = head.package
      /\ \A f \in SolFiles : Commented(head, f)
      /\ \A t \in tags : IsLater(head.package, t.package)
      /\ NamesOwn(head) /\ NamesPast(head)
      /\ \A t \in tags : NamesPast(t)
  BY <1>1 DEF ReleaseInv, Committed
<1>3. /\ Release!PackagesAgree /\ Release!EntryDated
      /\ Release!LastUpdatedTrue /\ Release!FinalNamesFinal
  BY DEF ReleaseInv, TagsTrue, Release!TagsTrue
<1>4. \A t \in tags : t.package \in Versions /\ \A f \in SolFiles : t.comment[f] \in Versions
  BY <1>1, TreeFacts
<1>5. head.package \in Versions
  BY <1>1, TreeFacts
<1>6. \A t \in tags : t.package # head.package
  BY <1>2, <1>4, <1>5, LaterFacts
<1>7. \A t \in tags : \A f \in SolFiles : t.comment[f] # head.package
  <2> SUFFICES ASSUME NEW t \in tags, NEW f \in SolFiles, t.comment[f] = head.package
               PROVE  FALSE
    OBVIOUS
  <2>1. IsLater(t.comment[f], t.package)
    BY <1>2
  <2> QED BY <2>1, <1>2 DEF NamesPast
<1>8. Release!PackagesAgree'
  BY <1>1, <1>2, <1>3 DEF Release!PackagesAgree
<1>9. Release!EntryDated'
  BY <1>1, <1>2, <1>3 DEF Release!EntryDated, HasEntry
<1>10. Release!FinalNamesFinal'
  BY <1>1, <1>2, <1>3 DEF Release!FinalNamesFinal, NamesOwn
<1>11. Release!LastUpdatedTrue'
  <2> SUFFICES ASSUME NEW t \in tags \union {head}, NEW s \in tags \union {head},
                      NEW f \in SolFiles, s.package = t.comment[f]
               PROVE  s.text[f] = t.text[f]
    BY <1>1 DEF Release!LastUpdatedTrue
  <2>1. CASE t \in tags /\ s \in tags
    BY <2>1, <1>3 DEF Release!LastUpdatedTrue
  <2>2. CASE t \in tags /\ s = head
    BY <2>2, <1>7
  <2>3. CASE t = head /\ s \in tags
    <3>1. s.package # head.package
      BY <2>3, <1>6
    <3>2. PICK u \in tags : u.comment[f] = head.comment[f] /\ u.text[f] = head.text[f]
      BY <2>3, <3>1, <1>2 DEF Commented
    <3>3. s.text[f] = u.text[f]
      BY <2>3, <3>2, <1>3 DEF Release!LastUpdatedTrue
    <3> QED BY <2>3, <3>2, <3>3
  <2> QED BY <2>1, <2>2, <2>3
<1>12. TagsTrue'
  BY <1>8, <1>9, <1>10, <1>11 DEF TagsTrue, Release!TagsTrue
<1>13. ~ IsLater(head.package, head.package)
  BY <1>5, LaterFacts
<1>14. \A t \in tags' : NamesPast(t) /\ ~ IsLater(t.package, head'.package)
  BY <1>1, <1>2, <1>13 DEF ReleaseInv
<1>15. Prepared' /\ Committed'
  BY <1>1 DEF Prepared, Committed
<1> QED BY <1>1, <1>12, <1>14, <1>15 DEF ReleaseInv, NamesOwn, NamesPast

\* A change of what is committed, made between two releases.
LEMMA BetweenKeeps ==
    ASSUME ReleaseInv, releasePc = "idle", UNCHANGED <<tags, releasePc>>,
           head' \in Trees, work' = head',
           head'.package = head.package, head'.comment = head.comment
    PROVE  ReleaseInv'
<1>1. NamesOwn(head)' /\ NamesPast(head)'
  BY DEF ReleaseInv, NamesOwn, NamesPast
<1>2. Prepared' /\ Committed'
  BY DEF Prepared, Committed
<1> QED BY <1>1, <1>2
        DEF ReleaseInv, NamesPast, TagsTrue, Release!TagsTrue,
            Release!PackagesAgree, Release!EntryDated, Release!LastUpdatedTrue,
            Release!FinalNamesFinal

LEMMA ReleaseNext == ReleaseInv /\ [Release!Next]_(Release!vars) => ReleaseInv'
<1> SUFFICES ASSUME ReleaseInv, [Release!Next]_(Release!vars) PROVE ReleaseInv'
  OBVIOUS
<1>1. head \in Trees /\ work \in Trees
  BY DEF ReleaseInv
<1>2. ASSUME UNCHANGED <<head, tags>>, work' \in {work, head}, releasePc' \in {"idle", "failed"},
             releasePc' = "idle" => work' = head
      PROVE  ReleaseInv'
  BY <1>2
     DEF ReleaseInv, Prepared, Committed, NamesOwn, NamesPast, TagsTrue, Release!TagsTrue,
         Release!PackagesAgree, Release!EntryDated, Release!LastUpdatedTrue,
         Release!FinalNamesFinal
<1>3. CASE Release!MissingEntry
  BY <1>2, <1>3 DEF Release!MissingEntry
<1>4. CASE Release!Fail
  BY <1>2, <1>4 DEF Release!Fail
<1>5. CASE Release!Reset
  BY <1>2, <1>5 DEF Release!Reset
<1>6. ASSUME NEW f \in SolFiles, Release!Edit(f) PROVE ReleaseInv'
  <2> DEFINE g == [head.text EXCEPT ![f] = @ + 1]
  <2>1. g \in [SolFiles -> Int]
    BY <1>1, TreeFacts
  <2>2. head' = [head EXCEPT !.text = g] /\ work' = head' /\ releasePc = "idle"
        /\ UNCHANGED <<tags, releasePc>>
    BY <1>1, <1>6 DEF Release!Edit, Trees
  <2> HIDE DEF g
  <2>3. head' \in Trees /\ head'.package = head.package /\ head'.comment = head.comment
    BY <1>1, <2>1, <2>2, TreeChanges
  <2> QED BY <2>2, <2>3, BetweenKeeps
<1>7. CASE Release!AddEntry
  <2> DEFINE q == <<Release!Unreleased>> \o head.changelog
  <2>1. q \in Seq([number : Int, dated : BOOLEAN])
    <3>1. Release!Unreleased \in [number : Int, dated : BOOLEAN]
      BY DEF Release!Unreleased
    <3>2. <<Release!Unreleased>> \in Seq([number : Int, dated : BOOLEAN])
      BY <3>1
    <3> QED BY <1>1, <3>2, TreeFacts, ConcatProperties
  <2>2. head' = [head EXCEPT !.changelog = q] /\ work' = head' /\ releasePc = "idle"
        /\ UNCHANGED <<tags, releasePc>>
    BY <1>1, <1>7 DEF Release!AddEntry, Trees
  <2> HIDE DEF q
  <2>3. head' \in Trees /\ head'.package = head.package /\ head'.comment = head.comment
    BY <1>1, <2>1, <2>2, TreeChanges
  <2> QED BY <2>2, <2>3, BetweenKeeps
<1>8. CASE UNCHANGED Release!vars
  BY <1>8
     DEF Release!vars, ReleaseInv, Prepared, Committed, Commented, HasEntry, NamesOwn,
         NamesPast, TagsTrue, Release!TagsTrue, Release!PackagesAgree, Release!EntryDated,
         Release!LastUpdatedTrue, Release!FinalNamesFinal
<1> QED
  BY <1>3, <1>4, <1>5, <1>6, <1>7, <1>8, BumpKeeps, ChangelogKeeps, VersionsKeep, CommentsKeep,
     CommitKeeps, TagKeeps
     DEF Release!Next

\* Whatever is tagged names its versions, its date and the last changes of its contracts
\* truthfully, for any contracts, number of releases and failures before it.
THEOREM TagsAreTrue == Release!Spec => []TagsTrue
<1>1. ReleaseInv => TagsTrue
  BY DEF ReleaseInv
<1> QED BY ReleaseStart, ReleaseNext, <1>1, PTL DEF Release!Spec
=============================================================================
