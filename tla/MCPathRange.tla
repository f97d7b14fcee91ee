----------------------------- MODULE MCPathRange -----------------------------
(* Every path against every prefix over a few bytes: '/', its neighbours and  *)
(* a letter.                                                                  *)
EXTENDS PathRange

CONSTANTS Bytes, MaxPathLen, MaxPrefixLen

ASSUME BytesAssumption ==
    /\ Bytes \subseteq Nat
    /\ MaxPathLen \in Nat /\ MaxPrefixLen \in Nat

BytesUpTo(n) == UNION {[1..k -> Bytes] : k \in 0..n}

VARIABLES path, prefix, mem, sqlite

RangeInit ==
    /\ path \in BytesUpTo(MaxPathLen) /\ prefix \in BytesUpTo(MaxPrefixLen)
    /\ mem = "unasked" /\ sqlite = "unasked"

\* Either store is asked whether the row lies under the prefix.
AskMem ==
    /\ mem = "unasked"
    /\ mem' = IF PathIsSameOrUnder(path, prefix) THEN "under" ELSE "outside"
    /\ UNCHANGED <<path, prefix, sqlite>>

AskSqlite ==
    /\ sqlite = "unasked"
    /\ sqlite' = IF InRange(path, prefix) THEN "under" ELSE "outside"
    /\ UNCHANGED <<path, prefix, mem>>

RangeNext == AskMem \/ AskSqlite

rangeVars == <<path, prefix, mem, sqlite>>

RangeSpec == RangeInit /\ [][RangeNext]_rangeVars

\* The two stores give the same rows for every string, canonical or not: the
\* test by byte range is the test by stripping.
StoresAgree == mem # "unasked" /\ sqlite # "unasked" => mem = sqlite

\* On canonical paths both are the component-wise relation the other modules
\* use (/code is not above /codebase), but for the prefix "/".
ComponentWise ==
    Canonical(path) /\ Canonical(prefix) /\ prefix # <<Slash>> =>
        \A answer \in {mem, sqlite} \ {"unasked"} :
            answer = "under" <=> SameOrUnder(Components(path), Components(prefix))
=============================================================================
