------------------------------ MODULE SqliteStore ------------------------------
(* DirFrecencyDb: many processes, each with its own connection, on one WAL    *)
(* database.  A statement, or the one transaction of record_visits_at, takes  *)
(* effect at once or, when the database is busy, not at all.  `entries` runs  *)
(* two SELECTs, each on the snapshot of its own moment.                       *)
EXTENDS DirStore

VARIABLES
    between,    \* the connections between the two SELECTs of `entries`
    seen,       \* the visits the first SELECT has returned
    always,     \* paths that were candidates ever since the call began
    visitedAll, \* paths that had visits ever since the call began
    ever        \* paths that were candidates at some time since it began

readVars == <<between, seen>>
sqlVars  == <<vars, readVars, always, visitedAll, ever>>

\* What can be ranked at all.
Candidates(v, d) == {p \in Paths : v[p] > 0} \cup d

SqlTypeOK ==
    /\ TypeOK
    /\ between \subseteq Clients
    /\ seen \in [Clients -> [Paths -> 0..MaxVisits]]
    /\ always \in [Clients -> SUBSET Paths]
    /\ visitedAll \in [Clients -> SUBSET Paths]
    /\ ever \in [Clients -> SUBSET Paths]

\* No call of `entries` is under way.
NoCalls ==
    /\ between = {}
    /\ seen = [c \in Clients |-> visits]
    /\ always = [c \in Clients |-> {}]
    /\ visitedAll = [c \in Clients |-> {}]
    /\ ever = [c \in Clients |-> {}]

SqlInit == Init /\ NoCalls

\* What the auxiliary variables keep of a write, for the calls under way.
Watch ==
    /\ always' = [c \in Clients |->
          IF c \in between THEN always[c] \cap Candidates(visits', discovered') ELSE always[c]]
    /\ visitedAll' = [c \in Clients |->
          IF c \in between THEN visitedAll[c] \cap {p \in Paths : visits'[p] > 0}
                           ELSE visitedAll[c]]
    /\ ever' = [c \in Clients |->
          IF c \in between THEN ever[c] \cup Candidates(visits', discovered') ELSE ever[c]]
    /\ UNCHANGED readVars

\* INSERT INTO visits.
InsertVisit(p) == Record(p) /\ Watch

\* record_visits_at: n inserts in one transaction, seen together by the others.
InsertVisits(p) ==
    /\ \E n \in 0..MaxVisits :
          visits' = [visits EXCEPT ![p] = IF @ + n < MaxVisits THEN @ + n ELSE MaxVisits]
    /\ UNCHANGED <<discovered, reply>>
    /\ Watch

\* (Mistaken variant: takes back one visit.)
DeleteOneVisit(p) ==
    visits' = [visits EXCEPT ![p] = @ - 1] /\ UNCHANGED <<discovered, reply>> /\ Watch

\* DELETE FROM visits.
DeleteVisits(p) == Forget(p) /\ Watch

\* INSERT OR IGNORE INTO discovered.
InsertDiscovered(p) == RecordDiscovered(p) /\ Watch

\* DELETE FROM discovered, for the path and its subtree.
DeleteDiscovered(p) == RemoveDiscovered(p) /\ Watch

\* SELECT path, timestamp FROM visits.
SelectVisits(c) ==
    /\ c \notin between
    /\ between' = between \cup {c}
    /\ seen' = [seen EXCEPT ![c] = visits]
    /\ always' = [always EXCEPT ![c] = Candidates(visits, discovered)]
    /\ visitedAll' = [visitedAll EXCEPT ![c] = {p \in Paths : visits[p] > 0}]
    /\ ever' = [ever EXCEPT ![c] = Candidates(visits, discovered)]
    /\ UNCHANGED vars

\* (Mistaken variant: the discovered rows are checked against the visits of the
\* database and not against the rows already returned.)
SelectDiscoveredUnvisited(c) ==
    /\ c \in between
    /\ between' = between \ {c}
    /\ reply' = [reply EXCEPT ![c] = Visited(seen[c]) \cup Floored(visits, discovered)]
    /\ UNCHANGED <<visits, discovered, seen, always, visitedAll, ever>>

\* (Mistaken variant: every discovered row is a floored candidate.)
SelectEveryDiscovered(c) ==
    /\ c \in between
    /\ between' = between \ {c}
    /\ reply' = [reply EXCEPT ![c] = {e \in Visited(seen[c]) : e.path \notin discovered}
                                     \cup Floored([p \in Paths |-> 0], discovered)]
    /\ UNCHANGED <<visits, discovered, seen, always, visitedAll, ever>>

\* SELECT path FROM discovered, less the paths of the first SELECT.
SelectDiscovered(c) ==
    /\ c \in between
    /\ between' = between \ {c}
    /\ reply' = [reply EXCEPT ![c] = EntriesOf(seen[c], discovered)]
    /\ UNCHANGED <<visits, discovered, seen, always, visitedAll, ever>>

SqlNext ==
    \/ \E p \in Paths : InsertVisit(p) \/ InsertVisits(p) \/ DeleteVisits(p)
                        \/ InsertDiscovered(p) \/ DeleteDiscovered(p)
    \/ \E c \in Clients : SelectVisits(c) \/ SelectDiscovered(c)

SqlSpec == SqlInit /\ [][SqlNext]_sqlVars
-----------------------------------------------------------------------------
Returned(c) == {e.path : e \in reply[c]}

\* However the writers come between the two SELECTs: no directory is listed
\* twice, as a visited and as a discovered one.
OneEntryPerPath == \A c \in Clients : \A e, f \in reply[c] : e.path = f.path => e = f

\* A directory that had visits throughout the call is ranked by them, never by
\* the floor of a discovered one.
VisitedNeverFloored ==
    \A c \in Clients \ between : \A p \in visitedAll[c] :
        \E e \in reply[c] : e.path = p /\ ~e.discovered_only

\* Whatever is returned was a candidate at some time during the call.
NothingInvented == \A c \in Clients \ between : Returned(c) \subseteq ever[c]

\* "Load every candidate directory": one that was a candidate all along is
\* returned.
CandidatesAllReturned == \A c \in Clients \ between : always[c] \subseteq Returned(c)
=============================================================================
