-------------------------- MODULE ZoxideImportProofs --------------------------
(* A marked import is complete: for any file, any number of invocations in    *)
(* any mode, and any failures.                                                *)
EXTENDS ZoxideImport, FiniteSetTheorems, TLAPS

\* The rows the invocation has been through have all their visits.
RowsBehind(c) == \A i \in DOMAIN FileRows : i < row[c] => stored[FileRows[i]] >= VisitsFor(rank[FileRows[i]])

ImportInv ==
    /\ rank \in [RowPaths -> Int]
    /\ stored \in [RowPaths -> Nat] /\ inserted \in [Procs -> Nat]
    /\ stage \in [Procs -> {"idle", "check", "rows", "mark", "ended"}]
    /\ row \in [Procs -> 1..(Len(FileRows) + 1)]
    /\ \A c \in Procs : RowsBehind(c)
    /\ \A c \in Procs : stage[c] = "mark" => row[c] = Len(FileRows) + 1
    /\ MarkedIsComplete

LEMMA VisitsForType == \A r \in Int : VisitsFor(r) \in Nat
  BY ImportAssumption DEF VisitsFor

LEMMA VisitsForPositive == \A r \in Int : VisitsFor(r) \in Nat \ {0}
  BY ImportAssumption DEF VisitsFor

LEMMA InvInitially == ImportInit => ImportInv
  <1> SUFFICES ASSUME ImportInit PROVE ImportInv
    OBVIOUS
  <1>1. rank \in [RowPaths -> Int] /\ stored \in [RowPaths -> Nat]
    <2>1. rank \in [RowPaths -> Ranks]
      BY DEF ImportInit
    <2>2. \A p \in RowPaths : rank[p] \in Int
      BY <2>1, ImportAssumption
    <2>3. rank \in [RowPaths -> Int]
      BY <2>1, <2>2
    <2>4. QED BY <2>3 DEF ImportInit
  <1>2. Len(FileRows) \in Nat /\ DOMAIN FileRows = 1..Len(FileRows)
    BY ImportAssumption
  <1>3. row \in [Procs -> 1..(Len(FileRows) + 1)]
    BY <1>2 DEF ImportInit
  <1>4. stage \in [Procs -> {"idle", "check", "rows", "mark", "ended"}]
        /\ \A c \in Procs : stage[c] # "mark"
    BY DEF ImportInit
  <1>5. \A c \in Procs : RowsBehind(c)
    BY <1>2 DEF ImportInit, RowsBehind
  <1>6. MarkedIsComplete
    BY DEF ImportInit, MarkedIsComplete
  <1>7. inserted \in [Procs -> Nat]
    BY DEF ImportInit
  <1>8. QED BY <1>1, <1>3, <1>4, <1>5, <1>6, <1>7 DEF ImportInv

\* What the commit of a row does.
LEMMA RowCommitted ==
    ASSUME ImportInv, NEW c \in Procs, CommitRow(c)
    PROVE  /\ stage[c] = "rows" /\ UNCHANGED <<rank, marked, stage, mode>>
           /\ row[c] \in DOMAIN FileRows /\ FileRows[row[c]] \in RowPaths
           /\ VisitsFor(rank[FileRows[row[c]]]) \in Nat \ {0}
           /\ stored' = [stored EXCEPT ![FileRows[row[c]]] = @ + VisitsFor(rank[FileRows[row[c]]])]
           /\ inserted' \in [Procs -> Nat]
           /\ row' = [row EXCEPT ![c] = @ + 1]
  <1>1. /\ row[c] \in DOMAIN FileRows
        /\ stored' = [stored EXCEPT ![FileRows[row[c]]] = @ + VisitsFor(rank[FileRows[row[c]]])]
        /\ row' = [row EXCEPT ![c] = @ + 1]
    BY ImportAssumption DEF ImportInv, CommitRow, RowPath, RowVisits
  <1>2. inserted' \in [Procs -> Nat]
    BY DEF ImportInv, CommitRow
  <1>3. FileRows[row[c]] \in RowPaths
    BY <1>1 DEF RowPaths
  <1>4. rank[FileRows[row[c]]] \in Int
    BY <1>3 DEF ImportInv
  <1>5. VisitsFor(rank[FileRows[row[c]]]) \in Nat \ {0}
    BY <1>4, VisitsForPositive
  <1>6. QED BY <1>1, <1>2, <1>3, <1>5 DEF CommitRow

LEMMA InvKept == ImportInv /\ [ImportNext]_importVars => ImportInv'
  <1> SUFFICES ASSUME ImportInv, [ImportNext]_importVars PROVE ImportInv'
    OBVIOUS
  <1> USE ImportAssumption DEF ImportInv, Goto
  <1>1. ASSUME NEW c \in Procs, NEW m \in Modes, Read(c, m) PROVE ImportInv'
    BY <1>1 DEF Read, tables, RowsBehind, MarkedIsComplete
  <1>2. ASSUME NEW c \in Procs, Check(c) PROVE ImportInv'
    BY <1>2 DEF Check, tables, RowsBehind, MarkedIsComplete
  <1>3. ASSUME NEW c \in Procs, CommitRow(c) PROVE ImportInv'
    <2> DEFINE p == FileRows[row[c]]
    <2>1. /\ stage[c] = "rows" /\ row[c] \in DOMAIN FileRows
          /\ stored' = [stored EXCEPT ![p] = @ + VisitsFor(rank[p])]
          /\ row' = [row EXCEPT ![c] = @ + 1]
          /\ inserted' \in [Procs -> Nat]
          /\ UNCHANGED <<rank, marked, stage>>
      BY <1>3, RowCommitted
    <2>2. p \in RowPaths /\ VisitsFor(rank[p]) \in Nat
      BY <1>3, RowCommitted
    <2>3. stored' \in [RowPaths -> Nat]
      BY <2>1, <2>2
    <2>4. \A q \in RowPaths : stored'[q] >= stored[q]
      BY <2>1, <2>2
    <2>5. stored'[p] >= VisitsFor(rank[p])
      BY <2>1, <2>2
    <2>6. row' \in [Procs -> 1..(Len(FileRows) + 1)]
      BY <2>1
    <2>7. \A i \in DOMAIN FileRows : FileRows[i] \in RowPaths /\ VisitsFor(rank[FileRows[i]]) \in Nat
      BY VisitsForType DEF RowPaths
    <2> HIDE DEF p
    <2>8. ASSUME NEW d \in Procs PROVE RowsBehind(d)'
      <3> SUFFICES ASSUME NEW i \in DOMAIN FileRows, i < row'[d]
                   PROVE  stored'[FileRows[i]] >= VisitsFor(rank[FileRows[i]])
        BY <2>1 DEF RowsBehind
      <3>1. CASE i < row[d]
        <4>1. stored[FileRows[i]] >= VisitsFor(rank[FileRows[i]])
          BY <3>1 DEF RowsBehind
        <4>2. QED BY <4>1, <2>3, <2>4, <2>7
      <3>2. CASE ~(i < row[d])
        <4>1. d = c /\ i = row[c]
          BY <2>1, <3>2
        <4>2. QED BY <4>1, <2>5 DEF p
      <3>3. QED BY <3>1, <3>2
    <2>9. MarkedIsComplete'
      <3> SUFFICES ASSUME marked, NEW q \in RowPaths PROVE stored'[q] >= VisitsFor(rank[q])
        BY <2>1 DEF MarkedIsComplete
      <3>1. stored[q] >= VisitsFor(rank[q])
        BY DEF MarkedIsComplete
      <3>2. VisitsFor(rank[q]) \in Nat
        BY VisitsForType
      <3>3. QED BY <3>1, <3>2, <2>3, <2>4
    <2>10. \A d \in Procs : (stage[d] = "mark" => row[d] = Len(FileRows) + 1)'
      BY <2>1
    <2>11. QED BY <2>1, <2>3, <2>6, <2>8, <2>9, <2>10
  <1>4. ASSUME NEW c \in Procs, Imported(c) PROVE ImportInv'
    BY <1>4 DEF Imported, tables, RowsBehind, MarkedIsComplete
  <1>5. ASSUME NEW c \in Procs, Mark(c) PROVE ImportInv'
    <2>1. stage[c] = "mark" /\ UNCHANGED <<rank, stored, row, inserted>>
      BY <1>5 DEF Mark
    <2>2. \A p \in RowPaths : stored[p] >= VisitsFor(rank[p])
      <3> SUFFICES ASSUME NEW i \in DOMAIN FileRows
                   PROVE  stored[FileRows[i]] >= VisitsFor(rank[FileRows[i]])
        BY DEF RowPaths
      <3>1. i < row[c]
        BY <2>1
      <3>2. QED BY <3>1 DEF RowsBehind
    <2>3. MarkedIsComplete'
      BY <2>1, <2>2 DEF MarkedIsComplete
    <2>4. QED BY <1>5, <2>3 DEF Mark, RowsBehind
  <1>6. ASSUME NEW c \in Procs, Fail(c) PROVE ImportInv'
    BY <1>6 DEF Fail, RowsBehind, MarkedIsComplete
  <1>7. ASSUME NEW c \in Procs, InsertVisit(c) PROVE ImportInv'
    BY <1>7 DEF InsertVisit, RowsBehind, MarkedIsComplete
  <1>8. CASE UNCHANGED importVars
    BY <1>8 DEF importVars, tables, RowsBehind, MarkedIsComplete
  <1>9. QED BY <1>1, <1>2, <1>3, <1>4, <1>5, <1>6, <1>7, <1>8 DEF ImportNext

\* The mark is the last transaction of an import, and every row came before it:
\* no failure, and no invocation beside it, makes a store claim an import it
\* does not hold.
THEOREM MarkMeansComplete == ImportSpec => []MarkedIsComplete
  <1>1. ImportInv => MarkedIsComplete
    BY DEF ImportInv
  <1>2. QED BY InvInitially, InvKept, <1>1, PTL DEF ImportSpec
-----------------------------------------------------------------------------
(* Types.                                                                      *)

LEMMA ImportTypeNext == ImportTypeOK /\ [ImportNext]_importVars => ImportTypeOK'
  <1> SUFFICES ASSUME ImportTypeOK, [ImportNext]_importVars PROVE ImportTypeOK'
    OBVIOUS
  <1> USE ImportAssumption DEF ImportTypeOK, Goto
  <1>1. ASSUME NEW c \in Procs, NEW m \in Modes, Read(c, m) PROVE ImportTypeOK'
    BY <1>1 DEF Read, tables
  <1>2. ASSUME NEW c \in Procs, Check(c) PROVE ImportTypeOK'
    BY <1>2 DEF Check, tables
  <1>3. ASSUME NEW c \in Procs, CommitRow(c) PROVE ImportTypeOK'
    <2> DEFINE p == FileRows[row[c]]
    <2>1. row[c] \in DOMAIN FileRows /\ row[c] + 1 \in 1..(Len(FileRows) + 1)
      BY <1>3 DEF CommitRow
    <2>2. p \in RowPaths
      BY <2>1 DEF RowPaths
    <2>3. stored' = [stored EXCEPT ![p] = @ + inserted[c]]
      BY <1>3 DEF CommitRow, RowPath
    <2> HIDE DEF p
    <2>4. stored' \in [RowPaths -> Nat]
      BY <2>2, <2>3
    <2>5. QED BY <1>3, <2>1, <2>4 DEF CommitRow
  <1>4. ASSUME NEW c \in Procs, Imported(c) PROVE ImportTypeOK'
    BY <1>4 DEF Imported, tables
  <1>5. ASSUME NEW c \in Procs, Mark(c) PROVE ImportTypeOK'
    BY <1>5 DEF Mark
  <1>6. ASSUME NEW c \in Procs, Fail(c) PROVE ImportTypeOK'
    BY <1>6 DEF Fail, Running
  <1>7. ASSUME NEW c \in Procs, InsertVisit(c) PROVE ImportTypeOK'
    BY <1>7 DEF InsertVisit
  <1>8. CASE UNCHANGED importVars
    BY <1>8 DEF importVars, tables
  <1>9. QED BY <1>1, <1>2, <1>3, <1>4, <1>5, <1>6, <1>7, <1>8 DEF ImportNext

\* An invocation's row stays within the file, and the compatible one never gets
\* to the mark or its check.
THEOREM ImportTypeCorrect == ImportSpec => []ImportTypeOK
  <1>1. ImportInit => ImportTypeOK
    <2>1. 1 \in 1..(Len(FileRows) + 1) /\ 0 \in 0..MaxFailures
      BY ImportAssumption
    <2>2. ImportInit => row \in [Procs -> 1..(Len(FileRows) + 1)] /\ failures \in 0..MaxFailures
      BY <2>1 DEF ImportInit
    <2>3. ImportInit => stored \in [RowPaths -> Nat] /\ inserted \in [Procs -> Nat]
      BY DEF ImportInit
    <2>4. QED BY <2>2, <2>3 DEF ImportInit, ImportTypeOK
  <1>2. QED BY ImportTypeNext, <1>1, PTL DEF ImportSpec
-----------------------------------------------------------------------------
(* Every row is accounted for.                                               *)

\* The row of an invocation moves only when it commits one.
LEMMA RowMoves ==
    ASSUME ImportInv, [ImportNext]_importVars
    PROVE  UNCHANGED <<stored, rank, row>> \/ \E c \in Procs : CommitRow(c)
  BY DEF ImportNext, importVars, tables, Read, Check, InsertVisit, Imported, Mark, Fail

LEMMA RowsAccountedNext == ImportInv /\ RowsAccounted /\ [ImportNext]_importVars => RowsAccounted'
  <1> SUFFICES ASSUME ImportInv, RowsAccounted, [ImportNext]_importVars PROVE RowsAccounted'
    OBVIOUS
  <1>1. ASSUME NEW c \in Procs, CommitRow(c) PROVE RowsAccounted'
    <2> SUFFICES ASSUME NEW i \in DOMAIN FileRows
                 PROVE  stored'[FileRows[i]] = VisitsFor(rank[FileRows[i]])
                                               * Cardinality({d \in Procs : row'[d] > i})
      BY <1>1, RowCommitted DEF RowsAccounted
    <2> DEFINE n == row[c]
               v == VisitsFor(rank[FileRows[i]])
               past == {d \in Procs : row[d] > i}
               pastThen == {d \in Procs : row'[d] > i}
    <2>1. /\ n \in DOMAIN FileRows /\ n \in Int /\ i \in Int
          /\ row \in [Procs -> Int] /\ row' = [row EXCEPT ![c] = n + 1]
      BY <1>1, RowCommitted, ImportAssumption DEF ImportInv
    <2>2. stored[FileRows[i]] = v * Cardinality(past)
      BY DEF RowsAccounted
    <2>3. FileRows[i] \in RowPaths /\ v \in Nat
      <3>1. FileRows[i] \in RowPaths
        BY DEF RowPaths
      <3>2. QED BY <3>1, VisitsForType DEF ImportInv
    <2>4. IsFiniteSet(past) /\ Cardinality(past) \in Nat
      BY ImportAssumption, FS_Subset, FS_CardinalityType
    <2>5. CASE i = n
      <3>1. c \notin past /\ pastThen = past \cup {c}
        BY <2>1, <2>5
      <3>2. Cardinality(pastThen) = Cardinality(past) + 1
        BY <2>4, <3>1, FS_AddElement
      <3>3. stored'[FileRows[i]] = stored[FileRows[i]] + v
        BY <1>1, <2>3, <2>5, RowCommitted DEF ImportInv
      <3> HIDE DEF n, v, past, pastThen
      <3>4. v * (Cardinality(past) + 1) = v * Cardinality(past) + v
        BY <2>3, <2>4
      <3>5. stored'[FileRows[i]] = v * Cardinality(pastThen)
        BY <2>2, <3>2, <3>3, <3>4
      <3>6. QED BY <3>5 DEF v, pastThen
    <2>6. CASE i # n
      <3>1. pastThen = past
        BY <2>1, <2>6
      <3>2. FileRows[n] # FileRows[i]
        BY <2>1, <2>6, ImportAssumption
      <3>3. stored'[FileRows[i]] = stored[FileRows[i]]
        BY <1>1, <2>3, <3>2, RowCommitted DEF ImportInv
      <3>4. QED BY <2>2, <3>1, <3>3
    <2>7. QED BY <2>5, <2>6
  <1>2. CASE UNCHANGED <<stored, rank, row>>
    BY <1>2 DEF RowsAccounted
  <1>3. QED BY <1>1, <1>2, RowMoves

\* A death between two inserts, or a writer beside it, tears no row and loses
\* none: the visits of a row are there as often as an invocation came past it.
THEOREM EveryRowAccounted == ImportSpec => []RowsAccounted
  <1>1. ImportInit => RowsAccounted
    <2> SUFFICES ASSUME ImportInit, NEW i \in DOMAIN FileRows
                 PROVE  stored[FileRows[i]] = VisitsFor(rank[FileRows[i]])
                                              * Cardinality({c \in Procs : row[c] > i})
      BY DEF RowsAccounted
    <2>1. i \in Nat /\ i >= 1 /\ FileRows[i] \in RowPaths
      BY ImportAssumption DEF RowPaths
    <2>2. {c \in Procs : row[c] > i} = {} /\ stored[FileRows[i]] = 0
      BY <2>1 DEF ImportInit
    <2>3. VisitsFor(rank[FileRows[i]]) \in Nat
      BY <2>1, InvInitially, VisitsForType DEF ImportInv
    <2>4. Cardinality({c \in Procs : row[c] > i}) = 0
      BY <2>2, FS_EmptySet
    <2> DEFINE v == VisitsFor(rank[FileRows[i]])
    <2> HIDE DEF v
    <2>5. v \in Nat => v * 0 = 0
      OBVIOUS
    <2>6. QED BY <2>2, <2>3, <2>4, <2>5 DEF v
  <1>2. QED BY <1>1, InvInitially, InvKept, RowsAccountedNext, PTL DEF ImportSpec
-----------------------------------------------------------------------------
(* Plain imports, one after the other and none of them killed.                *)

\* The rows behind the cursor of an import have their visits and the others
\* none, before the first import nothing has, and after it everything.
Plain ==
    /\ \A c \in Procs : Running(c) => mode[c] = "import-zoxide"
    /\ \A c, d \in Procs : Running(c) /\ Running(d) => c = d
    /\ \A c \in Procs : stage[c] \in {"rows", "mark"} => ~marked
    /\ \A c \in Procs : stage[c] \in {"idle", "check"} => row[c] = 1
    /\ marked => \A p \in RowPaths : stored[p] = VisitsFor(rank[p])
    /\ ~marked /\ (\A c \in Procs : stage[c] \notin {"rows", "mark"}) => \A p \in RowPaths : stored[p] = 0
    /\ \A c \in Procs : stage[c] \in {"rows", "mark"} =>
          \A i \in DOMAIN FileRows :
              stored[FileRows[i]] = IF i < row[c] THEN VisitsFor(rank[FileRows[i]]) ELSE 0

PlainInv == disturbed \in BOOLEAN /\ (~disturbed => Plain)

LEMMA PlainInit == ImportInit => PlainInv
  BY DEF ImportInit, PlainInv, Plain, Running

LEMMA PlainRow ==
    ASSUME ImportInv, Plain, NEW c \in Procs, CommitRow(c)
    PROVE  Plain'
  <1> DEFINE n == row[c]
             p == FileRows[n]
  <1>1. /\ n \in DOMAIN FileRows /\ p \in RowPaths
        /\ VisitsFor(rank[p]) \in Nat \ {0}
        /\ stored' = [stored EXCEPT ![p] = @ + VisitsFor(rank[p])]
        /\ row' = [row EXCEPT ![c] = @ + 1]
    BY RowCommitted
  <1>2. stage[c] = "rows" /\ UNCHANGED <<rank, marked, stage, mode>>
    BY RowCommitted
  <1>3. /\ stored \in [RowPaths -> Nat] /\ row \in [Procs -> 1..(Len(FileRows) + 1)]
        /\ stage \in [Procs -> {"idle", "check", "rows", "mark", "ended"}]
    BY DEF ImportInv
  <1>4. Running(c) /\ ~marked
    BY <1>2 DEF Running, Plain
  <1>5. \A d \in Procs : stage[d] \in {"check", "rows", "mark"} => d = c
    BY <1>4 DEF Running, Plain
  <1>6. ASSUME NEW d \in Procs, stage[d] \in {"rows", "mark"}, NEW i \in DOMAIN FileRows
        PROVE  stored'[FileRows[i]] = IF i < row'[d] THEN VisitsFor(rank[FileRows[i]]) ELSE 0
    <2>1. d = c
      BY <1>5, <1>6
    <2>2. /\ stored[FileRows[i]] = IF i < n THEN VisitsFor(rank[FileRows[i]]) ELSE 0
          /\ stored[p] = IF n < n THEN VisitsFor(rank[p]) ELSE 0
      BY <1>1, <1>2 DEF Plain
    <2>3. i \in Int /\ n \in Int /\ row'[c] = n + 1
      BY <1>1, <1>3, ImportAssumption
    <2>4. CASE i = n
      <3>1. stored[p] = 0
        BY <2>2, <2>3
      <3>2. stored'[p] = VisitsFor(rank[p])
        BY <1>1, <1>3, <3>1
      <3>3. QED BY <2>1, <2>3, <2>4, <3>2
    <2>5. CASE i # n
      <3>1. FileRows[i] # p
        BY <1>1, <2>5, ImportAssumption
      <3>2. FileRows[i] \in RowPaths
        BY DEF RowPaths
      <3>3. stored'[FileRows[i]] = stored[FileRows[i]]
        BY <1>1, <1>3, <3>1, <3>2
      <3>4. i < n <=> i < n + 1
        BY <2>3, <2>5
      <3>5. QED BY <2>1, <2>2, <2>3, <3>3, <3>4
    <2>6. QED BY <2>4, <2>5
  <1>7. \A d \in Procs : stage[d] \in {"idle", "check"} => row'[d] = 1
    BY <1>1, <1>2, <1>3 DEF Plain
  <1> HIDE DEF n, p
  <1>8. QED BY <1>2, <1>4, <1>6, <1>7 DEF Plain, Running

\* What was disturbed stays so.
LEMMA DisturbedNext ==
    ASSUME ImportTypeOK, [ImportNext]_importVars
    PROVE  disturbed' \in BOOLEAN /\ (disturbed => disturbed')
  <1>1. ASSUME NEW c \in Procs, NEW m \in Modes, Read(c, m)
        PROVE  disturbed' \in BOOLEAN /\ (disturbed => disturbed')
    <2>1. disturbed' = (disturbed \/ m # "import-zoxide" \/ \E d \in Procs : Running(d))
      BY <1>1 DEF Read, tables
    <2>2. QED BY <2>1
  <1>2. CASE UNCHANGED disturbed
    BY <1>2 DEF ImportTypeOK
  <1>3. ASSUME NEW c \in Procs, Fail(c) PROVE disturbed' = TRUE
    BY <1>3 DEF Fail
  <1>4. QED BY <1>1, <1>2, <1>3 DEF ImportNext, Check, InsertVisit, CommitRow, Imported, Mark, importVars

LEMMA PlainNext == ImportTypeOK /\ ImportInv /\ PlainInv /\ [ImportNext]_importVars => PlainInv'
  <1> SUFFICES ASSUME ImportTypeOK, ImportInv, PlainInv, [ImportNext]_importVars, ~disturbed' PROVE Plain'
    BY DisturbedNext DEF PlainInv
  <1>1. ~disturbed /\ Plain
    BY DisturbedNext DEF PlainInv
  <1>2. /\ stage \in [Procs -> {"idle", "check", "rows", "mark", "ended"}]
        /\ mode \in [Procs -> Modes \cup {"none"}]
    BY DEF ImportTypeOK
  <1>3. ASSUME NEW c \in Procs, NEW m \in Modes, Read(c, m) PROVE Plain'
    <2>1. stage[c] = "idle" /\ mode' = [mode EXCEPT ![c] = m] /\ UNCHANGED <<rank, stored, marked, row>>
      BY <1>3 DEF Read, tables
    <2>2. m = "import-zoxide" /\ \A d \in Procs : stage[d] \notin {"check", "rows", "mark"}
      <3>1. disturbed' = (disturbed \/ m # "import-zoxide" \/ \E d \in Procs : Running(d))
        BY <1>3 DEF Read, tables
      <3>2. QED BY <3>1 DEF Running
    <2>3. stage' = [stage EXCEPT ![c] = IF db # "good" THEN "ended" ELSE "check"]
      BY <1>3, <2>2 DEF Read, tables, Goto
    <2>4. mode'[c] = m /\ \A d \in Procs : d # c => stage'[d] = stage[d]
      BY <1>2, <2>1, <2>3
    <2>5. stage'[c] \in {"ended", "check"}
      BY <1>2, <2>3
    <2>6. \A d \in Procs : stage'[d] \notin {"rows", "mark"} /\ (stage'[d] \in {"check", "rows", "mark"} => d = c)
      BY <2>2, <2>4, <2>5
    <2>7. \A d \in Procs : stage'[d] \in {"idle", "check"} => row[d] = 1
      BY <1>1, <2>1, <2>4 DEF Plain
    <2>8. \A d \in Procs : stage[d] \notin {"rows", "mark"}
      BY <2>2
    <2>9. /\ marked => \A p \in RowPaths : stored[p] = VisitsFor(rank[p])
          /\ ~marked => \A p \in RowPaths : stored[p] = 0
      BY <1>1, <2>8 DEF Plain
    <2>10. QED BY <2>1, <2>2, <2>4, <2>6, <2>7, <2>9 DEF Plain, Running
  <1>4. ASSUME NEW c \in Procs, Check(c) PROVE Plain'
    <2>1. /\ stage[c] = "check" /\ mode[c] = "import-zoxide" /\ row[c] = 1
          /\ \A d \in Procs : Running(d) => d = c
          /\ stage' = [stage EXCEPT ![c] = IF marked THEN "ended" ELSE "rows"]
          /\ UNCHANGED <<rank, stored, marked, row, mode>>
      BY <1>1, <1>4 DEF Check, tables, Goto, Plain, Running
    <2>2. ~marked => \A i \in DOMAIN FileRows : stored[FileRows[i]] = 0 /\ ~(i < 1)
      <3>1. \A d \in Procs : stage[d] \notin {"rows", "mark"}
        BY <2>1 DEF Running
      <3>2. \A i \in DOMAIN FileRows : FileRows[i] \in RowPaths /\ ~(i < 1)
        BY ImportAssumption DEF RowPaths
      <3>3. QED BY <1>1, <3>1, <3>2 DEF Plain
    <2>3. QED BY <1>1, <1>2, <2>1, <2>2 DEF Plain, Running
  <1>5. ASSUME NEW c \in Procs, CommitRow(c) PROVE Plain'
    BY <1>1, <1>5, PlainRow
  <1>6. ASSUME NEW c \in Procs, Imported(c) PROVE Plain'
    <2>1. /\ stage[c] = "rows" /\ mode[c] = "import-zoxide"
          /\ stage' = [stage EXCEPT ![c] = "mark"]
          /\ UNCHANGED <<rank, stored, marked, row, mode>>
      BY <1>1, <1>6 DEF Imported, tables, Goto, Plain, Running
    <2>2. QED BY <1>1, <1>2, <2>1 DEF Plain, Running
  <1>7. ASSUME NEW c \in Procs, Mark(c) PROVE Plain'
    <2>1. /\ stage[c] = "mark" /\ marked' = TRUE /\ row[c] = Len(FileRows) + 1
          /\ \A d \in Procs : Running(d) => d = c
          /\ stage' = [stage EXCEPT ![c] = "ended"]
          /\ UNCHANGED <<rank, stored, row, mode>>
      BY <1>1, <1>7 DEF Mark, Goto, Plain, Running, ImportInv
    <2>2. ASSUME NEW q \in RowPaths PROVE stored[q] = VisitsFor(rank[q])
      <3>1. PICK i \in DOMAIN FileRows : q = FileRows[i]
        BY DEF RowPaths
      <3>2. i < row[c]
        BY <2>1, ImportAssumption
      <3>3. QED BY <1>1, <2>1, <3>1, <3>2 DEF Plain
    <2>3. QED BY <1>1, <1>2, <2>1, <2>2 DEF Plain, Running
  <1>8. ASSUME NEW c \in Procs, Fail(c) PROVE Plain'
    BY <1>8 DEF Fail
  <1>9. ASSUME NEW c \in Procs, InsertVisit(c) PROVE Plain'
    BY <1>1, <1>9 DEF InsertVisit, Plain, Running
  <1>10. CASE UNCHANGED importVars
    BY <1>1, <1>10 DEF importVars, tables, Plain, Running
  <1>11. QED BY <1>3, <1>4, <1>5, <1>6, <1>7, <1>8, <1>9, <1>10 DEF ImportNext

\* Half a visit, or the largest number there is.
LEMMA VisitsForRounds ==
    ASSUME NEW r \in Int
    PROVE  IF r < 10 THEN VisitsFor(r) = 1
           ELSE \/ 10 * VisitsFor(r) - r \in -5..5
                \/ r > 10 * U32Max /\ VisitsFor(r) = U32Max
  <1>1. U32Max \in Nat \ {0}
    BY ImportAssumption
  <1>2. QED BY <1>1 DEF VisitsFor

\* The command may be repeated as often as one likes: plain imports that follow
\* one another leave every directory with the visits zoxide had.
THEOREM ImportsRepeat == ImportSpec => []RepeatsAreHarmless
  <1>1. ImportInv /\ PlainInv => RepeatsAreHarmless
    <2> SUFFICES ASSUME ImportInv, Plain, marked PROVE AsZoxide
      BY DEF PlainInv, RepeatsAreHarmless
    <2>1. \A p \in RowPaths : rank[p] \in Int /\ stored[p] = VisitsFor(rank[p])
      BY DEF Plain, ImportInv
    <2>2. QED BY <2>1, VisitsForRounds DEF AsZoxide
  <1>2. QED BY <1>1, InvInitially, InvKept, PlainInit, PlainNext, ImportTypeCorrect, PTL DEF ImportSpec
=============================================================================
