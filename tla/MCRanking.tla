------------------------------- MODULE MCRanking -------------------------------
(* Five directories, one below the other and beside it, under every shipped   *)
(* instance.                                                                  *)
EXTENDS Ranking

\* /wa, /wa/dd, /wa/dd/wad, /dwa/e, /wa/f
W == <<1, 2>>
Wa == <<W>>
WaDd == <<W, <<3, 3>>>>
WaDdWad == <<W, <<3, 3>>, <<1, 2, 3>>>>
DwaE == <<<<3, 1, 2>>, <<5>>>>
WaF == <<W, <<6>>>>

MCDirs      == {Wa, WaDd, WaDdWad, DwaE, WaF}
MCPathSize  == [p \in MCDirs |-> Total([i \in DOMAIN p |-> Len(p[i]) + 1])]
MCPathOrder == [p \in MCDirs |-> CASE p = DwaE -> 1 [] p = Wa -> 2 [] p = WaDd -> 3
                                   [] p = WaDdWad -> 4 [] p = WaF -> 5]

MCNow == 100000

\* A row with visits of the given ages, one that the indexer found if there are none.
Row(p, ages) == [path |-> p, visits |-> [i \in DOMAIN ages |-> MCNow - ages[i]],
                 discovered_only |-> ages = <<>>]

\* The rows of the given directories, in every order, with every choice of ages.
Rows(dirs, choices) ==
    UNION {{[i \in DOMAIN o |-> Row(o[i], f[o[i]])] : o \in SetToSeqs(S), f \in [S -> choices]} :
              S \in SUBSET dirs}

NoNeedle  == [given |-> FALSE, fragments |-> <<>>]
Needles   == {NoNeedle, [given |-> TRUE, fragments |-> <<W>>],
              [given |-> TRUE, fragments |-> <<W, <<3>>>>]}

Ask(dirs, choices, needles, s, limit) ==
    [entries : Rows(dirs, choices), needle : needles, spec : {s}, limit : {limit}]

\* phases.retain(no TopK).
Uncut(s) == [s EXCEPT !.phases = SelectSeq(@, LAMBDA p : p.kind # "TopK")]

MainDirs == {Wa, WaDd, WaDdWad, DwaE}
NowAndOld == {<<>>, <<0>>, <<60 * Day, 30 * Day>>}

\* Every shipped instance, its cut above or below the caller's limit, and two
\* pipelines that do not load the rows.
Shipped ==
    Ask(MainDirs, {<<>>, <<-12>>, <<3 * Day, Day>>}, Needles, SkimtabParity(3), 1)
    \cup Ask(MainDirs, NowAndOld, Needles, ZoxideParity(3), 2)
    \cup Ask(MainDirs, {<<>>, <<24, 0, 240>>, <<12>>}, Needles, PracaParity(3), 10)
    \cup Ask(MainDirs, {<<>>, <<999 * Day>>, <<Day>>}, Needles, SubstringLegacyParity(3), 3)
    \* `zoxide query` and the dry run of the import: no cut, no limit
    \cup Ask(MainDirs, {<<>>, <<0>>, <<30 * Day>>}, {NoNeedle}, Uncut(PracaParity(3)), 1000)
    \cup UNION {Ask({Wa}, NowAndOld, Needles, [SkimtabParity(3) EXCEPT !.phases = p], 3) :
                   p \in {<<>>, Tail(CanonicalPhases(3))}}

\* The fleet default over directories with one visit of more than three years ago
\* and directories without.
LongAgo == Ask({Wa, WaF}, {<<>>, <<1199 * Day>>}, {NoNeedle}, SkimtabParity(3), 3)

\* The shipped phases, with two of those that compute the score in each other's
\* place.
Misordered ==
    LET swapped(i, j) == [Scored EXCEPT ![i] = Scored[j], ![j] = Scored[i]]
    IN  UNION {Ask({Wa, DwaE}, NowAndOld, Needles,
                   [SkimtabParity(3) EXCEPT !.phases = swapped(i, j)], 3) :
                  i \in 2..4, j \in 2..4}
=============================================================================
