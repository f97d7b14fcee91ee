------------------------------- MODULE Matching -------------------------------
(* MatchProfile: how a needle matches a path.  A path is the sequence of its  *)
(* components, a name the sequence of its characters, case already folded.   *)
(* A needle is whether it was given at all and its fragments between slashes. *)
EXTENDS PathTree, SequencesExt

\* MatchKind, worst to best, and None.
None                == 0
SubstringAnywhere   == 1
ComponentPrefix     == 2
BasenameSubsequence == 3
BasenamePrefix      == 4
BasenameExact       == 5

\* str::contains.
Within(x, name) == \E i \in 0..(Len(name) - Len(x)) : SubSeq(name, i + 1, i + Len(x)) = x

\* Where a left to right scan of hay stands when each item has been met in
\* turn, each strictly after the one before; Lost when one is not met.
Lost == -1

ScanFrom(hay, cursor, item, Meets(_, _)) ==
    LET met == {i \in (cursor + 1)..Len(hay) : Meets(item, hay[i])}
    IN  IF cursor = Lost \/ met = {} THEN Lost ELSE Min(met)

Scan(items, hay, Meets(_, _)) ==
    FoldLeft(LAMBDA cursor, item : ScanFrom(hay, cursor, item, Meets), 0, items)

\* Every character of the needle, in order.
IsSubsequence(x, name) == Scan(x, name, LAMBDA a, b : a = b) # Lost

\* (Mistaken variant: the cursor stays on the ancestor a fragment was met at, so
\* that the next fragment may be met there again.)
LeadingCursorStays(leading, ancestors) ==
    FoldLeft(LAMBDA cursor, item :
                LET met == {i \in 1..Len(ancestors) : i >= cursor /\ Within(item, ancestors[i])}
                IN  IF cursor = Lost \/ met = {} THEN Lost ELSE Min(met),
             0, leading)

\* The position among the ancestors after the leading fragments.
LeadingCursor(leading, ancestors) == Scan(leading, ancestors, Within)

\* (Mistaken variant: a component prefix is tried before a basename prefix.)
KindOfComponentsFirst(last, leading, ancestors, basename) ==
    LET cursor == LeadingCursor(leading, ancestors)
        below  == (cursor + 1)..Len(ancestors)
    IN  IF cursor = Lost                                      THEN None
        ELSE IF last = basename                               THEN BasenameExact
        ELSE IF \E i \in below : IsPrefix(last, ancestors[i]) THEN ComponentPrefix
        ELSE IF IsPrefix(last, basename)                      THEN BasenamePrefix
        ELSE IF IsSubsequence(last, basename)                 THEN BasenameSubsequence
        ELSE IF leading = <<>> /\ \E i \in below : Within(last, ancestors[i])
             THEN SubstringAnywhere ELSE None

\* The kinds in the order they are tried: a component prefix comes before a
\* subsequence of the basename.
KindOf(last, leading, ancestors, basename) ==
    LET cursor == LeadingCursor(leading, ancestors)
        below  == (cursor + 1)..Len(ancestors)
    IN  IF cursor = Lost                                      THEN None
        ELSE IF last = basename                               THEN BasenameExact
        ELSE IF IsPrefix(last, basename)                      THEN BasenamePrefix
        ELSE IF \E i \in below : IsPrefix(last, ancestors[i]) THEN ComponentPrefix
        ELSE IF IsSubsequence(last, basename)                 THEN BasenameSubsequence
        ELSE IF leading = <<>> /\ \E i \in below : Within(last, ancestors[i])
             THEN SubstringAnywhere ELSE None

ClassifyRaw(needle, path) ==
    IF ~needle.given                THEN BasenameExact
    ELSE IF path = <<>>             THEN None
    ELSE IF needle.fragments = <<>> THEN BasenameExact
    ELSE KindOf(Last(needle.fragments), Front(needle.fragments), Front(path), FileName(path))

\* A match below the profile's floor is no match.
Classify(profile, needle, path) ==
    LET kind == ClassifyRaw(needle, path)
    IN  IF kind >= profile.require_at_least THEN kind ELSE None

\* Weights in tenths.
Anchored == [weight |-> <<1, 5, 10, 40, 80>>, require_at_least |-> ComponentPrefix]
SubstringLegacy == [weight |-> <<10, 10, 10, 10, 10>>, require_at_least |-> SubstringAnywhere]
=============================================================================
