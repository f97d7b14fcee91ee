------------------------------- MODULE MemStore -------------------------------
(* MemDirStore: the two tables behind two mutexes.  A call locks, does its    *)
(* work and unlocks; `entries` copies the visits, then locks the discovered   *)
(* set while it still holds the visits.                                       *)
EXTENDS PathTree

CONSTANTS
    Paths,
    Clients,
    MaxVisits,
    Nobody      \* no client

ASSUME MemAssumption ==
    /\ Paths \subseteq Seq(STRING) /\ Paths # {}
    /\ MaxVisits \in Nat \ {0}
    /\ Nobody \notin Clients

VARIABLES visits, discovered, reply,
    visitsLock, discoveredLock,  \* the client in each mutex, or Nobody
    pc,                          \* where each call is
    call,                        \* what each client asked for
    seen                         \* the visits `entries` has copied

locks == <<visitsLock, discoveredLock>>
memVars  == <<visits, discovered, reply, locks, pc, call, seen>>

Store == INSTANCE DirStore WITH
             Paths <- Paths, Clients <- Clients, MaxVisits <- MaxVisits,
             visits <- visits, discovered <- discovered, reply <- reply

VisitOps      == {"record", "forget", "entries"}
DiscoveredOps == {"record_discovered", "remove_discovered"}

\* A client that is not in a call, and one that asks for the entries.
NoCall  == [op |-> "none"]
Entries == [op |-> "entries"]

\* `left`: how many more visits record_visits_at has to push.
Calls == [op : {"record"}, path : Paths, left : 1..MaxVisits]
         \cup [op : {"forget"} \cup DiscoveredOps, path : Paths]
         \cup {Entries}

NoVisits == [p \in Paths |-> 0]

MemTypeOK ==
    /\ visits \in [Paths -> 0..MaxVisits]
    /\ discovered \subseteq Paths
    /\ reply \in [Clients -> SUBSET Store!Entry]
    /\ visitsLock \in Clients \cup {Nobody} /\ discoveredLock \in Clients \cup {Nobody}
    /\ pc \in [Clients -> {"idle", "want_visits", "in_visits", "want_discovered",
                           "in_discovered", "return"}]
    /\ call \in [Clients -> Calls \cup {NoCall}]
    /\ seen \in [Clients -> [Paths -> 0..MaxVisits]]

MemInit ==
    /\ Store!Init
    /\ visitsLock = Nobody /\ discoveredLock = Nobody
    /\ pc = [c \in Clients |-> "idle"]
    /\ call = [c \in Clients |-> NoCall]
    /\ seen = [c \in Clients |-> NoVisits]

\* A client calls, through with what an earlier call returned; record is
\* record_visits_at for one visit.
Begin(c) ==
    /\ pc[c] = "idle"
    /\ \E k \in Calls :
          /\ call' = [call EXCEPT ![c] = k]
          /\ pc' = [pc EXCEPT ![c] = IF k.op \in VisitOps THEN "want_visits"
                                                          ELSE "want_discovered"]
    /\ reply' = [reply EXCEPT ![c] = {}]
    /\ UNCHANGED <<visits, discovered, locks, seen>>

LockVisits(c) ==
    /\ pc[c] = "want_visits" /\ visitsLock = Nobody
    /\ visitsLock' = c
    /\ pc' = [pc EXCEPT ![c] = "in_visits"]
    /\ UNCHANGED <<visits, discovered, reply, discoveredLock, call, seen>>

\* The call is over.
Idle(c) ==
    /\ pc' = [pc EXCEPT ![c] = "idle"]
    /\ call' = [call EXCEPT ![c] = NoCall]

\* (Mistaken variant: 0..=n for 0..n.)
PushVisitOnceMore(c) ==
    /\ pc[c] = "in_visits" /\ call[c].op = "record"
    /\ visits' = Store!Bump(visits, call[c].path)
    /\ visitsLock' = Nobody
    /\ IF call[c].left > 0
       THEN /\ call' = [call EXCEPT ![c].left = @ - 1]
            /\ pc' = [pc EXCEPT ![c] = "want_visits"]
       ELSE Idle(c)
    /\ UNCHANGED <<discovered, reply, discoveredLock, seen>>

\* record_at: one push, under a lock of its own.
PushVisit(c) ==
    /\ pc[c] = "in_visits" /\ call[c].op = "record"
    /\ visits' = Store!Bump(visits, call[c].path)
    /\ visitsLock' = Nobody
    /\ IF call[c].left > 1
       THEN /\ call' = [call EXCEPT ![c].left = @ - 1]
            /\ pc' = [pc EXCEPT ![c] = "want_visits"]
       ELSE Idle(c)
    /\ UNCHANGED <<discovered, reply, discoveredLock, seen>>

Forget(c) ==
    /\ pc[c] = "in_visits" /\ call[c].op = "forget"
    /\ visits' = [visits EXCEPT ![call[c].path] = 0]
    /\ visitsLock' = Nobody
    /\ Idle(c)
    /\ UNCHANGED <<discovered, reply, discoveredLock, seen>>

\* (Mistaken variant: the visits' guard is dropped once they are copied.)
CopyVisitsAndUnlock(c) ==
    /\ pc[c] = "in_visits" /\ call[c].op = "entries"
    /\ seen' = [seen EXCEPT ![c] = visits]
    /\ visitsLock' = Nobody
    /\ pc' = [pc EXCEPT ![c] = "want_discovered"]
    /\ UNCHANGED <<visits, discovered, reply, discoveredLock, call>>

\* entries, first half: the guard of the visits stays.
CopyVisits(c) ==
    /\ pc[c] = "in_visits" /\ call[c].op = "entries"
    /\ seen' = [seen EXCEPT ![c] = visits]
    /\ pc' = [pc EXCEPT ![c] = "want_discovered"]
    /\ UNCHANGED <<visits, discovered, reply, locks, call>>

LockDiscovered(c) ==
    /\ pc[c] = "want_discovered" /\ discoveredLock = Nobody
    /\ discoveredLock' = c
    /\ pc' = [pc EXCEPT ![c] = "in_discovered"]
    /\ UNCHANGED <<visits, discovered, reply, visitsLock, call, seen>>

RecordDiscovered(c) ==
    /\ pc[c] = "in_discovered" /\ call[c].op = "record_discovered"
    /\ discovered' = discovered \cup {call[c].path}
    /\ discoveredLock' = Nobody
    /\ Idle(c)
    /\ UNCHANGED <<visits, reply, visitsLock, seen>>

RemoveDiscovered(c) ==
    /\ pc[c] = "in_discovered" /\ call[c].op = "remove_discovered"
    /\ discovered' = discovered \ Subtree(discovered, call[c].path)
    /\ discoveredLock' = Nobody
    /\ Idle(c)
    /\ UNCHANGED <<visits, reply, visitsLock, seen>>

\* entries, second half; the visits' guard outlives it by a moment.
CombineTables(c) ==
    /\ pc[c] = "in_discovered" /\ call[c].op = "entries"
    /\ reply' = [reply EXCEPT ![c] = Store!EntriesOf(seen[c], discovered)]
    /\ discoveredLock' = Nobody
    /\ seen' = [seen EXCEPT ![c] = NoVisits]
    /\ pc' = [pc EXCEPT ![c] = "return"]
    /\ UNCHANGED <<visits, discovered, visitsLock, call>>

Return(c) ==
    /\ pc[c] = "return"
    /\ visitsLock' = Nobody
    /\ Idle(c)
    /\ UNCHANGED <<visits, discovered, reply, discoveredLock, seen>>

MemNext == \E c \in Clients :
    \/ Begin(c) \/ LockVisits(c) \/ PushVisit(c) \/ Forget(c) \/ CopyVisits(c)
    \/ LockDiscovered(c) \/ RecordDiscovered(c) \/ RemoveDiscovered(c)
    \/ CombineTables(c) \/ Return(c)

MemSpec == MemInit /\ [][MemNext]_memVars
-----------------------------------------------------------------------------
\* Every call takes effect at one moment, `entries` included: the two mutexes
\* make the store the abstract one, with record_visits_at as a series of
\* records.
ImplementsDirStore == Store!Spec
=============================================================================
