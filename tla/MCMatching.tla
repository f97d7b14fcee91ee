------------------------------ MODULE MCMatching ------------------------------
(* What a match is by its documentation, as a search over every way to lay a  *)
(* needle on a path, and the needles and paths over a small alphabet.         *)
EXTENDS Matching

Strings(set, from, to) == UNION {[1..k -> set] : k \in from..to}

\* Letters, the longest name of a path and of a needle, components, fragments.
MatchQuestions(letters, nameLen, fragmentLen, depth, fragments) ==
    [needle : {[given |-> FALSE, fragments |-> <<>>]} \cup
              [given : {TRUE},
               fragments : Strings(Strings(letters, 1, fragmentLen), 0, fragments)],
     path   : Strings(Strings(letters, 1, nameLen), 0, depth)]

\* The ways to lay the items on distinct places of hay, in order.
Layouts(items, hay, Meets(_, _)) ==
    {e \in [DOMAIN items -> DOMAIN hay] :
        /\ \A i, j \in DOMAIN items : i < j => e[i] < e[j]
        /\ \A i \in DOMAIN items : Meets(items[i], hay[e[i]])}

\* What each kind of match means: some layout of the leading fragments on the
\* ancestors, and what the last fragment does below it.
Applies(k, needle, path) ==
    LET last      == Last(needle.fragments)
        leading   == Front(needle.fragments)
        ancestors == Front(path)
        basename  == FileName(path)
        ways      == Layouts(leading, ancestors, Within)
    IN  /\ ways # {}
        /\ CASE k = BasenameExact       -> last = basename
             [] k = BasenamePrefix      -> IsPrefix(last, basename)
             [] k = BasenameSubsequence -> Layouts(last, basename, LAMBDA a, b : a = b) # {}
             [] k = ComponentPrefix     ->
                   \E e \in ways, j \in DOMAIN ancestors :
                       /\ \A i \in DOMAIN leading : e[i] < j
                       /\ IsPrefix(last, ancestors[j])
             [] k = SubstringAnywhere   ->
                   leading = <<>> /\ \E i \in DOMAIN path : Within(last, path[i])

\* The kinds that apply to a question with something to lay out.
Kinds(q) ==
    IF q.needle.fragments = <<>> \/ q.path = <<>> THEN {}
    ELSE {k \in SubstringAnywhere..BasenameExact : Applies(k, q.needle, q.path)}
=============================================================================
