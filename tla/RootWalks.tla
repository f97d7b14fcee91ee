------------------------------- MODULE RootWalks -------------------------------
(* What the indexer relies on when it walks its roots: the results appear one  *)
(* after the other, each root once, and the call returns when all have.        *)
EXTENDS Integers, Sequences

CONSTANT Roots

VARIABLES
    results,    \* the roots walked so far
    returned    \* whether the call has returned

vars == <<results, returned>>

Walked(r) == \E i \in 1..Len(results) : results[i] = r

Init == results = <<>> /\ returned = FALSE

Walk(r) ==
    /\ ~returned
    /\ ~Walked(r)
    /\ results' = Append(results, r)
    /\ UNCHANGED returned

Return ==
    /\ ~returned
    /\ \A r \in Roots : Walked(r)
    /\ returned' = TRUE
    /\ UNCHANGED results

Next == (\E r \in Roots : Walk(r)) \/ Return

Spec == Init /\ [][Next]_vars
=============================================================================
