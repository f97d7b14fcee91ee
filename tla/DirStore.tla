------------------------------- MODULE DirStore -------------------------------
(* What a directory store promises (trait DirStore): visits and discovered    *)
(* rows are two separate tables, every operation takes effect at one moment   *)
(* between its call and its return, and `entries` shows both tables as they   *)
(* were at one such moment.                                                   *)
EXTENDS PathTree

CONSTANTS
    Paths,      \* the directories the store is asked about
    Clients,    \* the callers
    MaxVisits   \* visits are counted up to this bound: none, some, many

ASSUME StoreAssumption ==
    /\ Paths \subseteq Seq(STRING)
    /\ MaxVisits \in Nat \ {0}

VARIABLES
    visits,     \* how many visits each path has
    discovered, \* the paths the indexer has recorded
    reply       \* what `entries` returned to each client, until it goes on

vars == <<visits, discovered, reply>>

\* A DirEntry.
Entry == [path : Paths, visits : 0..MaxVisits, discovered_only : BOOLEAN]

\* The candidates of a visit table and a discovered table: a visited path once,
\* with its visits; a discovered one only if it has none.
Visited(v) == {[path |-> p, visits |-> v[p], discovered_only |-> FALSE] :
                  p \in {q \in Paths : v[q] > 0}}
Floored(v, d) == {[path |-> p, visits |-> 0, discovered_only |-> TRUE] :
                     p \in {q \in d : v[q] = 0}}
EntriesOf(v, d) == Visited(v) \cup Floored(v, d)

\* One more visit, as far as they are counted.
Bump(v, p) == [v EXCEPT ![p] = IF @ < MaxVisits THEN @ + 1 ELSE @]

TypeOK ==
    /\ visits \in [Paths -> 0..MaxVisits]
    /\ discovered \subseteq Paths
    /\ reply \in [Clients -> SUBSET Entry]

Init ==
    /\ visits = [p \in Paths |-> 0]
    /\ discovered = {}
    /\ reply = [c \in Clients |-> {}]

Record(p) == visits' = Bump(visits, p) /\ UNCHANGED <<discovered, reply>>

\* Never touches the discovered set.
Forget(p) == visits' = [visits EXCEPT ![p] = 0] /\ UNCHANGED <<discovered, reply>>

RecordDiscovered(p) ==
    discovered' = discovered \cup {p} /\ UNCHANGED <<visits, reply>>

\* Takes the subtree with it; never touches the visits.
RemoveDiscovered(p) ==
    discovered' = discovered \ Subtree(discovered, p) /\ UNCHANGED <<visits, reply>>

Entries(c) ==
    /\ reply' = [reply EXCEPT ![c] = EntriesOf(visits, discovered)]
    /\ UNCHANGED <<visits, discovered>>

\* A client is through with what it got.
Used(c) == reply' = [reply EXCEPT ![c] = {}] /\ UNCHANGED <<visits, discovered>>

Next ==
    \/ \E p \in Paths : Record(p) \/ Forget(p) \/ RecordDiscovered(p) \/ RemoveDiscovered(p)
    \/ \E c \in Clients : Entries(c) \/ Used(c)

Spec == Init /\ [][Next]_vars
=============================================================================
