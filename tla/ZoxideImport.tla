----------------------------- MODULE ZoxideImport -----------------------------
(* Importing zoxide's database: `wadachi import-zoxide`, with and without     *)
(* --force, and `wadachi zoxide import`, as processes over one store.  The    *)
(* check of the mark, each row and the mark are separate transactions, a row  *)
(* one of as many inserts as it has visits.  A process may be killed, or      *)
(* refused by a busy store, before any statement.                             *)
EXTENDS Integers, Sequences, FiniteSets

CONSTANTS
    Procs,          \* the invocations
    Modes,          \* how they are invoked, of "import-zoxide", "force", "compat"
    Overlap,        \* whether one may begin before another has ended
    FileRows,       \* the paths of db.zo, in the order of the file
    Ranks,          \* the ranks a row may have, in tenths
    U32Max,         \* the largest number of visits of one row
    MaxFailures     \* how many invocations may die

ASSUME ImportAssumption ==
    /\ IsFiniteSet(Procs)
    /\ FileRows \in Seq(STRING)
    /\ \A i, j \in DOMAIN FileRows : FileRows[i] = FileRows[j] => i = j
    /\ Ranks \subseteq Int /\ U32Max \in Nat \ {0}
    /\ Modes \subseteq {"import-zoxide", "force", "compat"}
    /\ Overlap \in BOOLEAN /\ MaxFailures \in Nat

RowPaths == {FileRows[i] : i \in DOMAIN FileRows}

VARIABLES
    db,         \* db.zo: "absent", "refused" (not one parse accepts) or "good"
    rank,       \* the ranks of its rows
    stored,     \* the visits in the store, as any reader sees them
    inserted,   \* the visits in the open transaction of each invocation
    marked,     \* the row of `imports`
    stage, mode,\* where each invocation is, and how it was invoked
    row,        \* the row each one imports next
    failures,
    disturbed   \* an invocation died, met another one, or was not a plain one

tables == <<stored, inserted, marked>>
importVars == <<db, rank, tables, stage, mode, row, failures, disturbed>>

\* visits_for: round(rank), at least one.
VisitsFor(r) == IF r < 10 THEN 1
                ELSE IF (r + 5) \div 10 < U32Max THEN (r + 5) \div 10 ELSE U32Max

Running(c) == stage[c] \in {"check", "rows", "mark"}

Goto(c, label) == stage' = [stage EXCEPT ![c] = label]

\* SQLite has one writer at a time, from its first insert until it commits or
\* is rolled back.
MayWrite(c) == \A d \in Procs \ {c} : inserted[d] = 0

ImportTypeOK ==
    /\ db \in {"absent", "refused", "good"}
    /\ rank \in [RowPaths -> Ranks]
    /\ stored \in [RowPaths -> Nat] /\ inserted \in [Procs -> Nat]
    /\ marked \in BOOLEAN
    /\ stage \in [Procs -> {"idle", "check", "rows", "mark", "ended"}]
    /\ mode \in [Procs -> Modes \cup {"none"}]
    /\ row \in [Procs -> 1..(Len(FileRows) + 1)]
    /\ failures \in 0..MaxFailures /\ disturbed \in BOOLEAN
    /\ \A c \in Procs : stage[c] \in {"check", "mark"} => mode[c] # "compat"

ImportInit ==
    /\ db \in {"absent", "refused", "good"}
    /\ rank \in [RowPaths -> Ranks]
    /\ stored = [p \in RowPaths |-> 0]
    /\ inserted = [c \in Procs |-> 0]
    /\ marked = FALSE
    /\ stage = [c \in Procs |-> "idle"]
    /\ mode = [c \in Procs |-> "none"]
    /\ row = [c \in Procs |-> 1]
    /\ failures = 0 /\ disturbed = FALSE

\* The whole file is read and parsed first: one that is missing or malformed
\* ends the invocation before the store is opened.
Read(c, m) ==
    /\ stage[c] = "idle"
    /\ Overlap \/ \A d \in Procs : ~Running(d)
    /\ mode' = [mode EXCEPT ![c] = m]
    /\ Goto(c, IF db # "good" THEN "ended" ELSE IF m = "compat" THEN "rows" ELSE "check")
    /\ disturbed' = (disturbed \/ m # "import-zoxide" \/ \E d \in Procs : Running(d))
    /\ UNCHANGED <<db, rank, tables, row, failures>>

\* (Mistaken variant: the mark is set where it is checked.)
CheckAndMark(c) ==
    /\ stage[c] = "check"
    /\ Goto(c, IF marked /\ mode[c] # "force" THEN "ended" ELSE "rows")
    /\ marked' = TRUE
    /\ UNCHANGED <<db, rank, stored, inserted, mode, row, failures, disturbed>>

\* (Mistaken variant: every invocation imports.)
CheckIgnored(c) ==
    /\ stage[c] = "check"
    /\ Goto(c, "rows")
    /\ UNCHANGED <<db, rank, tables, mode, row, failures, disturbed>>

\* import_done.
Check(c) ==
    /\ stage[c] = "check"
    /\ Goto(c, IF marked /\ mode[c] # "force" THEN "ended" ELSE "rows")
    /\ UNCHANGED <<db, rank, tables, mode, row, failures, disturbed>>

\* The row an invocation is at, and how many visits it has.
RowPath(c) == FileRows[row[c]]
RowVisits(c) == VisitsFor(rank[RowPath(c)])

\* One insert of record_visits_at; the first takes the write lock.
InsertVisit(c) ==
    /\ stage[c] = "rows" /\ row[c] <= Len(FileRows)
    /\ MayWrite(c) /\ inserted[c] < RowVisits(c)
    /\ inserted' = [inserted EXCEPT ![c] = @ + 1]
    /\ UNCHANGED <<db, rank, stored, marked, stage, mode, row, failures, disturbed>>

\* The commit at its end, and on to the next row.
CommitRow(c) ==
    /\ stage[c] = "rows" /\ row[c] <= Len(FileRows)
    /\ inserted[c] = RowVisits(c)
    /\ stored' = [stored EXCEPT ![RowPath(c)] = @ + inserted[c]]
    /\ inserted' = [inserted EXCEPT ![c] = 0]
    /\ row' = [row EXCEPT ![c] = @ + 1]
    /\ UNCHANGED <<db, rank, marked, stage, mode, failures, disturbed>>

\* (Mistaken variant: every import goes on to the mark.)
ImportedMarks(c) ==
    /\ stage[c] = "rows" /\ row[c] > Len(FileRows)
    /\ Goto(c, "mark")
    /\ UNCHANGED <<db, rank, tables, mode, row, failures, disturbed>>

\* The end of `import`; the compatible command leaves no mark.
Imported(c) ==
    /\ stage[c] = "rows" /\ row[c] > Len(FileRows)
    /\ Goto(c, IF mode[c] = "compat" THEN "ended" ELSE "mark")
    /\ UNCHANGED <<db, rank, tables, mode, row, failures, disturbed>>

\* mark_import.
Mark(c) ==
    /\ stage[c] = "mark" /\ MayWrite(c)
    /\ marked' = TRUE
    /\ Goto(c, "ended")
    /\ UNCHANGED <<db, rank, stored, inserted, mode, row, failures, disturbed>>

\* (Mistaken variant: a transaction that is left is committed, or there is none
\* and each insert counts by itself.)
FailCommits(c) ==
    /\ Running(c) /\ failures < MaxFailures
    /\ stored' = IF inserted[c] = 0 THEN stored
                 ELSE [stored EXCEPT ![RowPath(c)] = @ + inserted[c]]
    /\ inserted' = [inserted EXCEPT ![c] = 0]
    /\ failures' = failures + 1
    /\ disturbed' = TRUE
    /\ Goto(c, "ended")
    /\ UNCHANGED <<db, rank, marked, mode, row>>

\* Killed, or a statement fails and the error is returned: the open transaction
\* is rolled back, by its guard or by who opens the store next.
Fail(c) ==
    /\ Running(c) /\ failures < MaxFailures
    /\ inserted' = [inserted EXCEPT ![c] = 0]
    /\ failures' = failures + 1
    /\ disturbed' = TRUE
    /\ Goto(c, "ended")
    /\ UNCHANGED <<db, rank, stored, marked, mode, row>>

ImportNext == \E c \in Procs :
    \/ \E m \in Modes : Read(c, m)
    \/ Check(c) \/ InsertVisit(c) \/ CommitRow(c) \/ Imported(c) \/ Mark(c) \/ Fail(c)

ImportSpec == ImportInit /\ [][ImportNext]_importVars
-----------------------------------------------------------------------------
\* A store that says the import is done has every row of the file, whatever
\* died and whatever ran beside it.
MarkedIsComplete == marked => \A p \in RowPaths : stored[p] >= VisitsFor(rank[p])

\* Whatever was killed between two inserts, a reader of the store finds a row as
\* often as invocations have come past it, each time with all its visits: none is
\* torn, none is lost to a writer beside it.
RowsAccounted ==
    \A i \in DOMAIN FileRows :
        LET past == {c \in Procs : row[c] > i}
        IN  stored[FileRows[i]] = VisitsFor(rank[FileRows[i]]) * Cardinality(past)

\* What zoxide would score: each directory has within half a visit of its rank,
\* and at least one; a rank that no row can hold, all that a row can.
AsZoxide ==
    \A p \in RowPaths :
        IF rank[p] < 10 THEN stored[p] = 1
        ELSE \/ 10 * stored[p] - rank[p] \in -5..5
             \/ rank[p] > 10 * U32Max /\ stored[p] = U32Max

Imports == \E c \in Procs : Running(c)

\* The command may be run again and again: as long as the plain ones come one
\* after the other and none dies, the mark keeps the visits what zoxide had.
RepeatsAreHarmless == marked /\ ~Imports /\ ~disturbed => AsZoxide

\* "an entry imported as `round(rank)` visits at `last_accessed` reproduces
\* zoxide's score up to that rounding": once the import is done and nobody
\* imports, whatever came before.
ScoreReproduced == marked /\ ~Imports => AsZoxide
=============================================================================
