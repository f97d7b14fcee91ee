---------------------------- MODULE MemStoreProofs ----------------------------
(* MemDirStore is linearizable: every step of its calls is one step of the   *)
(* abstract store or none, for any number of clients and paths.              *)
EXTENDS MemStore, TLAPS

\* A client that has copied the visits holds their mutex until it returns, so
\* its copy stays what they are.
Holding ==
    /\ \A c \in Clients : pc[c] \in {"in_visits", "return"} => visitsLock = c
    /\ \A c \in Clients :
          pc[c] \in {"want_discovered", "in_discovered"} /\ call[c].op = "entries"
             => visitsLock = c /\ seen[c] = visits

MemInv ==
    /\ pc \in [Clients -> {"idle", "want_visits", "in_visits", "want_discovered",
                           "in_discovered", "return"}]
    /\ call \in [Clients -> Calls \cup {NoCall}]
    /\ seen \in [Clients -> [Paths -> 0..MaxVisits]]
    /\ visits \in [Paths -> 0..MaxVisits]
    /\ Holding

LEMMA NoVisitsType == NoVisits \in [Paths -> 0..MaxVisits]
  BY MemAssumption DEF NoVisits

\* What a client's call can be, by its operation.
LEMMA CallShape ==
    ASSUME NEW k \in Calls \cup {NoCall}
    PROVE  /\ k.op = "record" => k \in [op : {"record"}, path : Paths, left : 1..MaxVisits]
           /\ k.op \in {"record", "forget"} \cup DiscoveredOps => k.path \in Paths
  <1>1. CASE k \in [op : {"record"}, path : Paths, left : 1..MaxVisits]
    BY <1>1
  <1>2. CASE k \in [op : {"forget"} \cup DiscoveredOps, path : Paths]
    <2>1. k.op \in {"forget"} \cup DiscoveredOps /\ k.path \in Paths
      BY <1>2
    <2>2. k.op # "record"
      BY <2>1 DEF DiscoveredOps
    <2>3. QED BY <2>1, <2>2
  <1>3. CASE k \in {Entries, NoCall}
    <2>1. k.op \in {"entries", "none"}
      BY <1>3 DEF Entries, NoCall
    <2>2. QED BY <2>1 DEF DiscoveredOps
  <1>4. QED BY <1>1, <1>2, <1>3 DEF Calls

LEMMA InitMem == MemInit => MemInv
  <1> SUFFICES ASSUME MemInit PROVE MemInv
    OBVIOUS
  <1>1. visits = [p \in Paths |-> 0]
    BY DEF MemInit, Store!Init
  <1>2. visits \in [Paths -> 0..MaxVisits]
    BY <1>1, MemAssumption
  <1>3. seen \in [Clients -> [Paths -> 0..MaxVisits]]
    BY NoVisitsType DEF MemInit
  <1>4. pc = [c \in Clients |-> "idle"] /\ call = [c \in Clients |-> NoCall]
    BY DEF MemInit
  <1>5. Holding
    BY <1>4 DEF Holding
  <1>6. QED BY <1>2, <1>3, <1>4, <1>5 DEF MemInv

LEMMA BumpType ==
    ASSUME visits \in [Paths -> 0..MaxVisits], NEW p \in Paths
    PROVE  Store!Bump(visits, p) \in [Paths -> 0..MaxVisits]
  <1>1. visits[p] \in 0..MaxVisits
    OBVIOUS
  <1>2. (IF visits[p] < MaxVisits THEN visits[p] + 1 ELSE visits[p]) \in 0..MaxVisits
    BY <1>1, MemAssumption
  <1>3. QED BY <1>2 DEF Store!Bump

LEMMA NextMem == MemInv /\ [MemNext]_memVars => MemInv'
  <1> SUFFICES ASSUME MemInv, [MemNext]_memVars PROVE MemInv'
    OBVIOUS
  <1> USE MemAssumption DEF MemInv, Holding
  <1>1. ASSUME NEW c \in Clients, Begin(c) PROVE MemInv'
    <2>1. PICK k \in Calls :
            /\ call' = [call EXCEPT ![c] = k]
            /\ pc' = [pc EXCEPT ![c] = IF k.op \in VisitOps THEN "want_visits"
                                                            ELSE "want_discovered"]
      BY <1>1 DEF Begin
    <2>2. pc[c] = "idle" /\ UNCHANGED <<visits, seen, visitsLock>>
      BY <1>1 DEF Begin, locks
    <2>3. call' \in [Clients -> Calls \cup {NoCall}]
      BY <2>1
    <2>4. pc' \in [Clients -> {"idle", "want_visits", "in_visits", "want_discovered",
                              "in_discovered", "return"}]
      BY <2>1
    <2>5. pc'[c] = "want_discovered" => call'[c].op # "entries"
      BY <2>1 DEF VisitOps
    <2>6. pc'[c] \in {"want_visits", "want_discovered"}
      BY <2>1
    <2>7. \A b \in Clients \ {c} : pc'[b] = pc[b] /\ call'[b] = call[b]
      BY <2>1
    <2>8. Holding'
      BY <2>2, <2>5, <2>6, <2>7
    <2>9. QED BY <2>2, <2>3, <2>4, <2>8
  <1>2. ASSUME NEW c \in Clients, LockVisits(c) PROVE MemInv'
    BY <1>2 DEF LockVisits
  <1>3. ASSUME NEW c \in Clients, PushVisit(c) PROVE MemInv'
    <2>2. call[c] \in [op : {"record"}, path : Paths, left : 1..MaxVisits]
      BY <1>3, CallShape DEF PushVisit
    <2>1. pc[c] = "in_visits" /\ visitsLock = c /\ visitsLock' = Nobody
          /\ UNCHANGED <<seen, reply>> /\ visits' \in [Paths -> 0..MaxVisits]
      BY <1>3, <2>2, BumpType DEF PushVisit
    <2>3. CASE call[c].left > 1
      <3>1. call' = [call EXCEPT ![c].left = @ - 1] /\ pc' = [pc EXCEPT ![c] = "want_visits"]
        BY <1>3, <2>3 DEF PushVisit
      <3>2. [call[c] EXCEPT !.left = @ - 1] \in [op : {"record"}, path : Paths, left : 1..MaxVisits]
        <4>1. call[c].left \in 1..MaxVisits /\ call[c].left - 1 \in 1..MaxVisits
          BY <2>2, <2>3
        <4>2. QED BY <2>2, <4>1
      <3>3. call' \in [Clients -> Calls \cup {NoCall}]
        BY <3>1, <3>2 DEF Calls
      <3>4. QED BY <2>1, <3>1, <3>3
    <2>4. CASE ~(call[c].left > 1)
      BY <1>3, <2>1, <2>4 DEF PushVisit, Idle
    <2>5. QED BY <2>3, <2>4
  <1>4. ASSUME NEW c \in Clients, Forget(c) PROVE MemInv'
    <2>1. call[c].path \in Paths
      BY <1>4, CallShape DEF Forget
    <2>2. visits' \in [Paths -> 0..MaxVisits]
      BY <1>4, <2>1 DEF Forget
    <2>3. QED BY <1>4, <2>2 DEF Forget, Idle
  <1>5. ASSUME NEW c \in Clients, CopyVisits(c) PROVE MemInv'
    BY <1>5 DEF CopyVisits, locks
  <1>6. ASSUME NEW c \in Clients, LockDiscovered(c) PROVE MemInv'
    BY <1>6 DEF LockDiscovered
  <1>7. ASSUME NEW c \in Clients, RecordDiscovered(c) \/ RemoveDiscovered(c) PROVE MemInv'
    BY <1>7 DEF RecordDiscovered, RemoveDiscovered, Idle
  <1>8. ASSUME NEW c \in Clients, CombineTables(c) PROVE MemInv'
    BY <1>8, NoVisitsType DEF CombineTables
  <1>9. ASSUME NEW c \in Clients, Return(c) PROVE MemInv'
    BY <1>9 DEF Return, Idle
  <1>10. CASE UNCHANGED memVars
    BY <1>10 DEF memVars, locks
  <1>11. QED BY <1>1, <1>2, <1>3, <1>4, <1>5, <1>6, <1>7, <1>8, <1>9, <1>10 DEF MemNext

LEMMA StepImplements == MemInv /\ [MemNext]_memVars => [Store!Next]_(Store!vars)
  <1> SUFFICES ASSUME MemInv, [MemNext]_memVars PROVE [Store!Next]_(Store!vars)
    OBVIOUS
  <1> USE DEF MemInv, Store!vars
  <1>1. ASSUME NEW c \in Clients,
               LockVisits(c) \/ CopyVisits(c) \/ LockDiscovered(c) \/ Return(c)
        PROVE  UNCHANGED Store!vars
    BY <1>1 DEF LockVisits, CopyVisits, LockDiscovered, Return
  <1>2. ASSUME NEW c \in Clients, PushVisit(c) PROVE \E p \in Paths : Store!Record(p)
    <2>1. call[c].path \in Paths
      BY <1>2, CallShape DEF PushVisit
    <2>2. visits' = Store!Bump(visits, call[c].path) /\ UNCHANGED <<discovered, reply>>
      BY <1>2 DEF PushVisit
    <2>3. Store!Record(call[c].path)
      BY <2>2 DEF Store!Record
    <2>4. QED BY <2>1, <2>3
  <1>3. ASSUME NEW c \in Clients, Forget(c) PROVE \E p \in Paths : Store!Forget(p)
    <2>1. call[c].path \in Paths
      BY <1>3, CallShape DEF Forget
    <2>2. QED BY <1>3, <2>1 DEF Forget, Store!Forget
  <1>4. ASSUME NEW c \in Clients, RecordDiscovered(c) \/ RemoveDiscovered(c)
        PROVE  \E p \in Paths : Store!RecordDiscovered(p) \/ Store!RemoveDiscovered(p)
    <2>1. call[c].path \in Paths
      BY <1>4, CallShape DEF RecordDiscovered, RemoveDiscovered, DiscoveredOps
    <2>2. CASE RecordDiscovered(c)
      BY <2>1, <2>2 DEF RecordDiscovered, Store!RecordDiscovered
    <2>3. CASE RemoveDiscovered(c)
      BY <2>1, <2>3 DEF RemoveDiscovered, Store!RemoveDiscovered,
                        Subtree, Store!Subtree, SameOrUnder, Store!SameOrUnder
    <2>4. QED BY <1>4, <2>2, <2>3
  <1>5. ASSUME NEW c \in Clients, CombineTables(c) PROVE Store!Entries(c)
    <2>1. seen[c] = visits
      BY <1>5 DEF CombineTables, Holding
    <2>2. QED BY <1>5, <2>1 DEF CombineTables, Store!Entries
  <1>6. ASSUME NEW c \in Clients, Begin(c) PROVE Store!Used(c)
    BY <1>6 DEF Begin, Store!Used
  <1>7. CASE UNCHANGED memVars
    BY <1>7 DEF memVars
  <1>8. QED BY <1>1, <1>2, <1>3, <1>4, <1>5, <1>6, <1>7 DEF MemNext, Store!Next

\* The mutexes of MemDirStore, the copy under the first and the read under the
\* second make `entries` one look at one moment: the code implements DirStore.
THEOREM MemStoreLinearizable == MemSpec => ImplementsDirStore
  <1>1. MemInit => Store!Init
    BY DEF MemInit
  <1>2. QED BY InitMem, NextMem, StepImplements, <1>1, PTL
            DEF MemSpec, ImplementsDirStore, Store!Spec
-----------------------------------------------------------------------------
(* Types.                                                                      *)

\* What the two tables make is a set of entries.
LEMMA RowsAreEntries ==
    ASSUME NEW v \in [Paths -> 0..MaxVisits], NEW d \in SUBSET Paths
    PROVE  Store!EntriesOf(v, d) \in SUBSET Store!Entry
  <1>1. 0 \in 0..MaxVisits
    BY MemAssumption
  <1>2. \A p \in Paths, n \in 0..MaxVisits, b \in BOOLEAN :
           [path |-> p, visits |-> n, discovered_only |-> b] \in Store!Entry
    BY DEF Store!Entry
  <1>3. Store!Visited(v) \subseteq Store!Entry
    BY <1>2 DEF Store!Visited
  <1>4. Store!Floored(v, d) \subseteq Store!Entry
    BY <1>1, <1>2 DEF Store!Floored
  <1>5. QED BY <1>3, <1>4 DEF Store!EntriesOf

\* What MemInv leaves open: the discovered rows, the answers and the locks.
MemRest ==
    /\ discovered \subseteq Paths
    /\ reply \in [Clients -> SUBSET Store!Entry]
    /\ visitsLock \in Clients \cup {Nobody} /\ discoveredLock \in Clients \cup {Nobody}

LEMMA NextRest == MemInv /\ MemRest /\ [MemNext]_memVars => MemRest'
  <1> SUFFICES ASSUME MemInv, MemRest, [MemNext]_memVars PROVE MemRest'
    OBVIOUS
  <1>1. ASSUME NEW c \in Clients,
               Begin(c) \/ LockVisits(c) \/ PushVisit(c) \/ Forget(c) \/ CopyVisits(c)
                  \/ LockDiscovered(c) \/ Return(c)
        PROVE  MemRest'
    BY <1>1 DEF MemRest, Begin, LockVisits, PushVisit, Forget, CopyVisits, LockDiscovered,
                Return, locks
  <1>2. ASSUME NEW c \in Clients, RecordDiscovered(c) PROVE MemRest'
    <2>1. call[c] \in Calls \cup {NoCall} /\ call[c].op = "record_discovered"
      BY <1>2 DEF MemInv, RecordDiscovered
    <2>2. call[c].path \in Paths
      BY <2>1, CallShape DEF DiscoveredOps
    <2>3. QED BY <1>2, <2>2 DEF MemRest, RecordDiscovered
  <1>3. ASSUME NEW c \in Clients, RemoveDiscovered(c) PROVE MemRest'
    BY <1>3 DEF MemRest, RemoveDiscovered
  <1>4. ASSUME NEW c \in Clients, CombineTables(c) PROVE MemRest'
    <2>1. Store!EntriesOf(seen[c], discovered) \in SUBSET Store!Entry
      BY RowsAreEntries DEF MemInv, MemRest
    <2>2. QED BY <1>4, <2>1 DEF MemRest, CombineTables
  <1>5. CASE UNCHANGED memVars
    BY <1>5 DEF MemRest, memVars, locks
  <1>6. QED BY <1>1, <1>2, <1>3, <1>4, <1>5 DEF MemNext

\* The tables, the answers, the mutexes and the calls have their types.
THEOREM MemTypeCorrect == MemSpec => []MemTypeOK
  <1>1. MemInit => MemRest
    BY DEF MemInit, Store!Init, MemRest
  <1>2. MemInv /\ MemRest => MemTypeOK
    BY DEF MemInv, MemRest, MemTypeOK
  <1>3. QED BY InitMem, NextMem, NextRest, <1>1, <1>2, PTL DEF MemSpec
=============================================================================
