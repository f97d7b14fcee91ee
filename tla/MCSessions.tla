------------------------------ MODULE MCSessions ------------------------------
(* One shell, a directory, one in it, and the latter spelled through a         *)
(* symbolic link; what each argument matches is computed by the matchers.      *)
EXTENDS Sessions

M == INSTANCE Matching
K == INSTANCE Keywords

MCPaths    == {<<"a">>, <<"a", "x">>, <<"l", "x">>}
MCRealPath == [p \in MCPaths |-> IF p = <<"l", "x">> THEN <<"a", "x">> ELSE p]
MCHome     == <<"a">>
MCArgs     == {Nothing, Options, "x"}

\* Names as characters.
Code       == [a |-> 1, x |-> 2, l |-> 3]
Spelled(p) == [i \in DOMAIN p |-> <<Code[p[i]]>>]
Worded(p)  == [i \in DOMAIN p |-> <<K!Letter(Code[p[i]])>>]

\* An option is refused by the process that is asked.
MCMatchedBy == [arg \in MCArgs |->
    IF arg = Options THEN {}
    ELSE {p \in MCPaths :
             M!Classify(M!Anchored,
                        [given |-> arg # Nothing,
                         fragments |-> IF arg = Nothing THEN <<>> ELSE Spelled(<<arg>>)],
                        Spelled(p)) # M!None}]
MCNamedBy == [arg \in MCArgs |->
    IF arg = Options THEN {}
    ELSE {p \in MCPaths :
             K!MatchesAll(Worded(p), IF arg = Nothing THEN <<>> ELSE Worded(<<arg>>)) = "yes"}]
=============================================================================
