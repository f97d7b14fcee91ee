------------------------------ MODULE PathRange ------------------------------
(* Which rows lie under a prefix, as the two stores decide it over strings:   *)
(* MemDirStore strips the prefix, DirFrecencyDb asks SQLite for a range of    *)
(* bytes.  A string is the sequence of its bytes.                             *)
EXTENDS PathTree, FiniteSets

Slash == 47     \* '/'
Zero  == 48     \* '0', the byte after it

\* SQLite's binary collation: the first byte that differs decides, and a string
\* comes before the longer ones it begins.
Less(s, t) ==
    \E k \in 1..Len(t) :
        /\ k <= Len(s) + 1
        /\ \A i \in 1..(k - 1) : s[i] = t[i]
        /\ k <= Len(s) => s[k] < t[k]

\* (Mistaken variant: path.starts_with(prefix).)
StartsWith(path, prefix) ==
    Len(prefix) <= Len(path) /\ \A i \in 1..Len(prefix) : path[i] = prefix[i]

\* path_is_same_or_under: equal, or a slash follows the stripped prefix.
PathIsSameOrUnder(path, prefix) ==
    \/ path = prefix
    \/ Len(prefix) < Len(path) /\ StartsWith(path, prefix) /\ path[Len(prefix) + 1] = Slash

\* (Mistaken variant: a range without its upper bound at '0'.)
UpToAnything(path, prefix) == path = prefix \/ ~Less(path, Append(prefix, Slash))

\* path = ?1 OR (path >= ?1 || '/' AND path < ?1 || '0')
InRange(path, prefix) ==
    \/ path = prefix
    \/ ~Less(path, Append(prefix, Slash)) /\ Less(path, Append(prefix, Zero))
-----------------------------------------------------------------------------
\* The spelling canonicalize() gives a path: absolute, no empty component, no
\* slash at the end but the root's.
Canonical(s) ==
    /\ s # <<>> /\ s[1] = Slash
    /\ \A i \in 2..Len(s) : s[i] = Slash => s[i - 1] # Slash /\ i < Len(s)

\* The components of a canonical path.
Components(s) ==
    LET slashes == {i \in DOMAIN s : s[i] = Slash}
        \* the bytes after the slash at i, up to the next one
        name(i) == LET ends == {j \in slashes : j > i} \cup {Len(s) + 1}
                   IN  SubSeq(s, i + 1, (CHOOSE j \in ends : \A k \in ends : j <= k) - 1)
        place(i) == Cardinality({j \in slashes : j <= i})
    IN  IF Len(s) = 1 THEN <<>>
        ELSE [n \in 1..Cardinality(slashes) |-> name(CHOOSE i \in slashes : place(i) = n)]
=============================================================================
