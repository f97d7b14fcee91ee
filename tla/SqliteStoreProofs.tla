--------------------------- MODULE SqliteStoreProofs ---------------------------
(* The rows `entries` returns, whatever other connections write between its   *)
(* two SELECTs, for any paths and any number of connections.                  *)
EXTENDS SqliteStore, TLAPS

\* What a call under way knows: the visits it has seen cover the paths that had
\* visits ever since, and everything it may still return is a candidate it met.
CallsKeep ==
    \A c \in between :
        /\ \A p \in visitedAll[c] : seen[c][p] > 0
        /\ \A p \in Paths : seen[c][p] > 0 => p \in ever[c]
        /\ discovered \subseteq ever[c]

SqlInv ==
    /\ SqlTypeOK
    /\ CallsKeep
    /\ OneEntryPerPath
    /\ VisitedNeverFloored
    /\ NothingInvented

\* A store in any state, with no call under way.
Quiet ==
    /\ visits \in [Paths -> 0..MaxVisits]
    /\ discovered \subseteq Paths
    /\ reply = [c \in Clients |-> {}]
    /\ NoCalls

\* The rows of a visit table and a discovered table, looked at one by one.
LEMMA EntriesShape ==
    ASSUME NEW v \in [Paths -> 0..MaxVisits], NEW d \in SUBSET Paths
    PROVE  /\ EntriesOf(v, d) \subseteq Entry
           /\ \A e, f \in EntriesOf(v, d) : e.path = f.path => e = f
           /\ \A p \in Paths : v[p] > 0 =>
                 \E e \in EntriesOf(v, d) : e.path = p /\ ~e.discovered_only
           /\ \A e \in EntriesOf(v, d) : e.path \in Paths /\ (v[e.path] > 0 \/ e.path \in d)
<1>1. \A e \in Visited(v) : /\ e.path \in Paths /\ v[e.path] > 0
                            /\ e = [path |-> e.path, visits |-> v[e.path], discovered_only |-> FALSE]
  BY DEF Visited
<1>2. \A e \in Floored(v, d) : /\ e.path \in d /\ v[e.path] = 0
                               /\ e = [path |-> e.path, visits |-> 0, discovered_only |-> TRUE]
  BY DEF Floored
<1>3. MaxVisits \in Nat BY StoreAssumption
<1>4. EntriesOf(v, d) \subseteq Entry
  <2>1. \A p \in Paths, n \in 0..MaxVisits, b \in BOOLEAN :
           [path |-> p, visits |-> n, discovered_only |-> b] \in Entry
    BY DEF Entry
  <2>2. \A e \in Visited(v) : v[e.path] \in 0..MaxVisits BY <1>1
  <2>3. \A e \in Visited(v) : e \in Entry BY <1>1, <2>1, <2>2
  <2>4. 0 \in 0..MaxVisits BY <1>3
  <2>5. \A e \in Floored(v, d) : e \in Entry BY <1>2, <2>1, <2>4
  <2> QED BY <2>3, <2>5 DEF EntriesOf
<1>5. \A e, f \in EntriesOf(v, d) : e.path = f.path => e = f
  <2> SUFFICES ASSUME NEW e \in EntriesOf(v, d), NEW f \in EntriesOf(v, d), e.path = f.path
               PROVE  e = f
    OBVIOUS
  <2>1. CASE e \in Visited(v) /\ f \in Visited(v) BY <2>1, <1>1
  <2>2. CASE e \in Floored(v, d) /\ f \in Floored(v, d) BY <2>2, <1>2
  <2>3. \A g \in Visited(v), h \in Floored(v, d) : g.path # h.path
    <3> SUFFICES ASSUME NEW g \in Visited(v), NEW h \in Floored(v, d), g.path = h.path
                 PROVE  FALSE
      OBVIOUS
    <3>1. g.path \in Paths /\ v[g.path] > 0 BY <1>1
    <3>2. v[g.path] = 0 BY <1>2
    <3> QED BY <3>1, <3>2
  <2>4. e \in Visited(v) \cup Floored(v, d) /\ f \in Visited(v) \cup Floored(v, d)
    BY DEF EntriesOf
  <2> QED BY <2>1, <2>2, <2>3, <2>4
<1>6. \A p \in Paths : v[p] > 0 => \E e \in EntriesOf(v, d) : e.path = p /\ ~e.discovered_only
  <2> SUFFICES ASSUME NEW p \in Paths, v[p] > 0
               PROVE  \E e \in EntriesOf(v, d) : e.path = p /\ ~e.discovered_only
    OBVIOUS
  <2> DEFINE row == [path |-> p, visits |-> v[p], discovered_only |-> FALSE]
  <2>1. row \in EntriesOf(v, d) BY DEF EntriesOf, Visited
  <2>2. row.path = p /\ ~row.discovered_only OBVIOUS
  <2> QED BY <2>1, <2>2
<1>7. \A e \in EntriesOf(v, d) : e.path \in Paths /\ (v[e.path] > 0 \/ e.path \in d)
  BY <1>1, <1>2 DEF EntriesOf
<1> QED BY <1>4, <1>5, <1>6, <1>7

\* A store in any state is one in which no call has gone wrong.
LEMMA QuietInv == Quiet => SqlInv
<1> SUFFICES ASSUME Quiet PROVE SqlInv OBVIOUS
<1> USE DEF Quiet, NoCalls
<1>1. SqlTypeOK BY DEF SqlTypeOK, TypeOK
<1>2. CallsKeep BY DEF CallsKeep
<1>3. OneEntryPerPath BY DEF OneEntryPerPath
<1>4. VisitedNeverFloored BY DEF VisitedNeverFloored
<1>5. NothingInvented BY DEF NothingInvented, Returned
<1> QED BY <1>1, <1>2, <1>3, <1>4, <1>5 DEF SqlInv

\* A write leaves what was returned alone, and the calls under way hear of it.
LEMMA WriteKeeps ==
    ASSUME SqlInv, Watch, reply' = reply,
           visits' \in [Paths -> 0..MaxVisits], discovered' \subseteq Paths
    PROVE  SqlInv'
<1> USE DEF SqlInv, Watch, readVars
<1>1. SqlTypeOK'
  <2>1. Candidates(visits', discovered') \subseteq Paths BY DEF Candidates
  <2> QED BY <2>1 DEF SqlTypeOK, TypeOK
<1>2. CallsKeep'
  <2> SUFFICES ASSUME NEW c \in between
               PROVE  /\ \A p \in visitedAll'[c] : seen[c][p] > 0
                      /\ \A p \in Paths : seen[c][p] > 0 => p \in ever'[c]
                      /\ discovered' \subseteq ever'[c]
    BY DEF CallsKeep
  <2>1. c \in Clients BY DEF SqlTypeOK
  <2>2. visitedAll'[c] \subseteq visitedAll[c] BY <2>1
  <2>3. ever'[c] = ever[c] \cup Candidates(visits', discovered') BY <2>1
  <2> QED BY <2>2, <2>3 DEF CallsKeep, Candidates
<1>3. OneEntryPerPath' BY DEF OneEntryPerPath
<1>4. \A c \in Clients \ between : visitedAll'[c] = visitedAll[c] /\ ever'[c] = ever[c]
  OBVIOUS
<1>5. VisitedNeverFloored' BY <1>4 DEF VisitedNeverFloored
<1>6. NothingInvented' BY <1>4 DEF NothingInvented, Returned
<1> QED BY <1>1, <1>2, <1>3, <1>5, <1>6

\* Every statement of a connection keeps the invariant.
LEMMA SqlStep == ASSUME SqlInv, [SqlNext]_sqlVars PROVE SqlInv'
<1> USE DEF SqlInv
<1>0. MaxVisits \in Nat \ {0} BY StoreAssumption
<1>1. ASSUME NEW p \in Paths, InsertVisit(p) PROVE SqlInv'
  <2>1. visits' \in [Paths -> 0..MaxVisits]
    BY <1>0, <1>1 DEF InsertVisit, Record, Bump, SqlTypeOK, TypeOK
  <2> QED BY <1>1, <2>1, WriteKeeps DEF InsertVisit, Record, SqlTypeOK, TypeOK
<1>2. ASSUME NEW p \in Paths, InsertVisits(p) PROVE SqlInv'
  <2>1. visits' \in [Paths -> 0..MaxVisits]
    BY <1>0, <1>2 DEF InsertVisits, SqlTypeOK, TypeOK
  <2> QED BY <1>2, <2>1, WriteKeeps DEF InsertVisits, SqlTypeOK, TypeOK
<1>3. ASSUME NEW p \in Paths, DeleteVisits(p) PROVE SqlInv'
  <2>1. visits' \in [Paths -> 0..MaxVisits]
    BY <1>0, <1>3 DEF DeleteVisits, Forget, SqlTypeOK, TypeOK
  <2> QED BY <1>3, <2>1, WriteKeeps DEF DeleteVisits, Forget, SqlTypeOK, TypeOK
<1>4. ASSUME NEW p \in Paths, InsertDiscovered(p) PROVE SqlInv'
  BY <1>4, WriteKeeps DEF InsertDiscovered, RecordDiscovered, SqlTypeOK, TypeOK
<1>5. ASSUME NEW p \in Paths, DeleteDiscovered(p) PROVE SqlInv'
  BY <1>5, WriteKeeps DEF DeleteDiscovered, RemoveDiscovered, SqlTypeOK, TypeOK
<1>6. ASSUME NEW c \in Clients, SelectVisits(c) PROVE SqlInv'
  <2> USE <1>6 DEF SelectVisits, vars
  <2>0. Candidates(visits, discovered) \in SUBSET Paths
    BY DEF Candidates, SqlTypeOK, TypeOK
  <2>1. SqlTypeOK' BY <2>0 DEF SqlTypeOK, TypeOK
  <2>2. CallsKeep'
    <3> SUFFICES ASSUME NEW d \in between'
                 PROVE  /\ \A p \in visitedAll'[d] : seen'[d][p] > 0
                        /\ \A p \in Paths : seen'[d][p] > 0 => p \in ever'[d]
                        /\ discovered \subseteq ever'[d]
      BY DEF CallsKeep
    <3>1. CASE d = c BY <3>1 DEF SqlTypeOK, Candidates
    <3>2. CASE d # c
      <4>1. d \in between /\ d \in Clients BY <3>2 DEF SqlTypeOK
      <4>2. /\ visitedAll'[d] = visitedAll[d] /\ seen'[d] = seen[d]
            /\ ever'[d] = ever[d]
        BY <3>2, <4>1 DEF SqlTypeOK
      <4> QED BY <4>1, <4>2 DEF CallsKeep
    <3> QED BY <3>1, <3>2
  <2>3. \A d \in Clients \ between' :
           d \notin between /\ visitedAll'[d] = visitedAll[d] /\ ever'[d] = ever[d]
    BY DEF SqlTypeOK
  <2>4. OneEntryPerPath' BY DEF OneEntryPerPath
  <2>5. VisitedNeverFloored' BY <2>3 DEF VisitedNeverFloored
  <2>6. NothingInvented' BY <2>3 DEF NothingInvented, Returned
  <2> QED BY <2>1, <2>2, <2>4, <2>5, <2>6
<1>7. ASSUME NEW c \in Clients, SelectDiscovered(c) PROVE SqlInv'
  <2> USE <1>7 DEF SelectDiscovered
  <2> DEFINE rows == EntriesOf(seen[c], discovered)
  <2>0. /\ seen[c] \in [Paths -> 0..MaxVisits] /\ discovered \in SUBSET Paths
        /\ visitedAll[c] \subseteq Paths
    BY DEF SqlTypeOK, TypeOK
  <2>1. /\ rows \subseteq Entry
        /\ \A e, f \in rows : e.path = f.path => e = f
        /\ \A p \in Paths : seen[c][p] > 0 => \E e \in rows : e.path = p /\ ~e.discovered_only
        /\ \A e \in rows : e.path \in Paths /\ (seen[c][e.path] > 0 \/ e.path \in discovered)
    BY <2>0, EntriesShape
  <2> HIDE DEF rows
  <2>2. reply'[c] = rows /\ \A d \in Clients \ {c} : reply'[d] = reply[d]
    BY DEF SqlTypeOK, TypeOK, rows
  <2>3. SqlTypeOK'
    <3>1. reply' \in [Clients -> SUBSET Entry] BY <2>1 DEF SqlTypeOK, TypeOK, rows
    <3> QED BY <3>1 DEF SqlTypeOK, TypeOK
  <2>4. CallsKeep' BY DEF CallsKeep
  <2>5. OneEntryPerPath'
    <3> SUFFICES ASSUME NEW d \in Clients
                 PROVE  \A e, f \in reply'[d] : e.path = f.path => e = f
      BY DEF OneEntryPerPath
    <3>1. CASE d = c BY <3>1, <2>1, <2>2
    <3>2. CASE d # c BY <3>2, <2>2 DEF OneEntryPerPath
    <3> QED BY <3>1, <3>2
  <2>6. VisitedNeverFloored'
    <3> SUFFICES ASSUME NEW d \in Clients \ between', NEW p \in visitedAll[d]
                 PROVE  \E e \in reply'[d] : e.path = p /\ ~e.discovered_only
      BY DEF VisitedNeverFloored
    <3>1. CASE d = c
      <4>1. seen[c][p] > 0 BY <3>1 DEF CallsKeep
      <4>2. p \in Paths BY <3>1, <2>0
      <4> QED BY <3>1, <4>1, <4>2, <2>1, <2>2
    <3>2. CASE d # c BY <3>2, <2>2 DEF VisitedNeverFloored
    <3> QED BY <3>1, <3>2
  <2>7. NothingInvented'
    <3> SUFFICES ASSUME NEW d \in Clients \ between', NEW e \in reply'[d]
                 PROVE  e.path \in ever[d]
      BY DEF NothingInvented, Returned
    <3>1. CASE d = c BY <3>1, <2>1, <2>2 DEF CallsKeep
    <3>2. CASE d # c BY <3>2, <2>2 DEF NothingInvented, Returned
    <3> QED BY <3>1, <3>2
  <2> QED BY <2>3, <2>4, <2>5, <2>6, <2>7
<1>8. ASSUME UNCHANGED sqlVars PROVE SqlInv'
  BY <1>8 DEF sqlVars, vars, readVars, SqlTypeOK, TypeOK, CallsKeep, OneEntryPerPath,
              VisitedNeverFloored, NothingInvented, Returned
<1> QED BY <1>1, <1>2, <1>3, <1>4, <1>5, <1>6, <1>7, <1>8 DEF SqlNext

\* A new, empty store.
LEMMA SqlInitInv == SqlInit => SqlInv
<1>1. SqlInit => Quiet BY StoreAssumption DEF SqlInit, Init, Quiet
<1> QED BY <1>1, QuietInv

LEMMA SqlInvHolds == SqlSpec => []SqlInv
BY SqlInitInv, SqlStep, PTL DEF SqlSpec

\* The tables, the snapshots of calls and their answers have their types.
THEOREM SqlTypeCorrect == SqlSpec => []SqlTypeOK
<1>1. SqlInv => SqlTypeOK BY DEF SqlInv
<1> QED BY <1>1, SqlInvHolds, PTL

\* No directory is listed twice, however the writers come between.
THEOREM SqlOneEntryPerPath == SqlSpec => []OneEntryPerPath
<1>1. SqlInv => OneEntryPerPath BY DEF SqlInv
<1> QED BY <1>1, SqlInvHolds, PTL

\* A directory with visits throughout the call is ranked by its visits.
THEOREM SqlVisitedNeverFloored == SqlSpec => []VisitedNeverFloored
<1>1. SqlInv => VisitedNeverFloored BY DEF SqlInv
<1> QED BY <1>1, SqlInvHolds, PTL

\* Nothing is returned that was not in the store during the call.
THEOREM SqlNothingInvented == SqlSpec => []NothingInvented
<1>1. SqlInv => NothingInvented BY DEF SqlInv
<1> QED BY <1>1, SqlInvHolds, PTL
=============================================================================
