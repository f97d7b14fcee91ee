------------------------------ MODULE PathTree ------------------------------
(* Directory paths as sequences of component names, and the relations the    *)
(* indexer and the stores decide by: component-wise prefixes, children,      *)
(* depth below a root.                                                       *)
EXTENDS Integers, Sequences

\* p is r or lies below it (component-wise: /code is not an ancestor of
\* /codebase).
SameOrUnder(p, r) ==
    /\ Len(r) <= Len(p)
    /\ \A i \in 1..Len(r) : p[i] = r[i]

StrictlyUnder(p, r) == SameOrUnder(p, r) /\ Len(r) < Len(p)

\* The paths of P directly inside directory d.
ChildrenIn(P, d) == {p \in P : SameOrUnder(p, d) /\ Len(p) = Len(d) + 1}

\* The rows of a store that hold r or something below it.
Subtree(P, r) == {p \in P : SameOrUnder(p, r)}

\* The last component, the only one a directory walk looks at.
FileName(p) == p[Len(p)]
=============================================================================
