------------------------------ MODULE MCQuestions ------------------------------
(* The parts of the system that only compute, asked one question each: the     *)
(* ranking pipeline phase by phase, the subtree tests of both stores, and the  *)
(* pure functions, each against what it is documented to compute.              *)
EXTENDS MCRanking, MCMatching, MCPathRange, UsageRanking, ZoxideFormat, Keywords, Config

\* The pipelines that are asked are of the kinds the ranking's theorems are about.
ASSUME PipelinesAssumption ==
    \A q \in Questions : /\ InShape(q.spec.phases) \/ NeverLoads(q.spec.phases)
                         /\ CollapsesLast(q.spec.phases)

VARIABLES
    asked,      \* a question to a pure function, or Silent
    answer      \* what it returned, or Silent

Silent == [about |-> "nothing"]

pureVars == <<asked, answer>>

\* Three fragments over short names, or longer names.
FragmentsAsked == MatchQuestions({1, 2}, 2, 2, 3, 3)
NamesAsked     == MatchQuestions({1, 2}, 3, 2, 2, 2)

\* A history of up to four lines, some of them empty, without a time or later
\* than the clock.
FeedAsked ==
    [history : Strings([text : {"ls", "cd", "git", ""}, stamp : {<<>>, <<24>>, <<50>>}], 0, 4),
     opts : [mode : {"Frecency", "Recency"}, pin_most_recent : BOOLEAN]]

\* Files of up to seven bytes: the version, small lengths, one beyond any buffer
\* and no text, which wraps the offset.
FilesOf(version) == {<<version>> \o s : s \in Strings({0, 1, 2, UsizeMax}, 0, 6)}

FileAsked == {<<>>} \cup FilesOf(0) \cup FilesOf(SupportedVersion)

\* Rows to write and read back.
RowsAsked == Strings([path : Strings({1, 2}, 0, 2), rank : {0, 2}, last_accessed : {1, 9}], 0, 2)

\* Such rows are text, and the machine can address their file.
ASSUME RowsAskedAssumption == NotText \notin {1, 2} /\ UsizeMax >= 2 + 2 * (2 + 3)

\* A letter or two of one byte and one of two, a Kelvin sign (three bytes whose
\* lower case is the letter k) and an A with stroke, whose lower case is longer.
Kelvin  == [width |-> 3, lower |-> <<107>>]
Stroke  == [width |-> 2, lower |-> <<226, 177, 165>>]
Accent  == [width |-> 2, lower |-> <<195, 169>>]
Letters == {Letter(107), Accent}
KeywordsAsked ==
    [path : Strings(Strings(Letters \cup {Stroke}, 1, 2), 0, 2),
     keywords : Strings(Strings(Letters \cup {Kelvin, Stroke}, 1, 2), 0, 2)]

\* A branch of six directories below ~/code; from the n-th name on it may be
\* elsewhere, with a link in its place (~/code itself, for 0, or none, for 7).
Elsewhere == <<"srv">>

Branch(names, n) ==
    LET spelt(k) == Code \o SubSeq(names, 1, k)
        real(k) == IF k < n THEN spelt(k) ELSE Elsewhere \o SubSeq(names, n + 1, k)
    IN  [dirs  |-> {Home} \cup {real(k) : k \in 0..6},
         links |-> [p \in {spelt(k) : k \in {n} \cap 0..6} |-> Elsewhere]]

\* Every branch, of ordinary names down to the link if it has one.
TreesAsked(names) ==
    {Branch(s, 7) : s \in Strings(names, 6, 6)}
    \cup UNION {{Branch(s, n) : s \in {s \in Strings(names, 6, 6) : \A i \in 1..n : s[i] = "d"}} :
                  n \in {0, 1, 2, 4}}

\* Every combination of the variables, known names and unknown.
Unset == [tier |-> <<>>, db |-> <<>>, ranking |-> <<>>]
ConfigAsked ==
    [env : [tier : {<<>>, <<"bare">>, <<"discovered">>, <<"elsewhere">>},
            db : {<<>>, <<"/tmp/w.db">>},
            ranking : {<<>>, <<"praca-parity">>, <<"no-such">>}],
     tree : TreesAsked({"d"})]
    \cup [env : {Unset}, tree : TreesAsked({"d", ".d", "target"})]

FeedNow == 48

\* A function is called and returns.
Returns(about, q, a) ==
    /\ asked' = [about |-> about, q |-> q]
    /\ answer' = [about |-> about, a |-> a]

AskMatch(set) == \E q \in set : Returns("match", q, ClassifyRaw(q.needle, q.path))

AskFeed ==
    \E q \in FeedAsked :
        LET entries == Accumulate(q.history)
        IN  Returns("feed", q, [entries |-> entries, ranked |-> RankEntries(entries, q.opts, FeedNow)])

AskFile == \E q \in FileAsked : Returns("file", q, Parse(q))

AskRows == \E q \in RowsAsked : Returns("rows", q, Parse(Encode(q)))

AskKeywords == \E q \in KeywordsAsked : Returns("keywords", q, MatchesAll(q.path, q.keywords))

AskConfig ==
    \E q \in ConfigAsked :
        Returns("config", q, [active |-> Active(q.env, q.tree),
                           db_path |-> RuntimeDbPath(q.env), spec |-> RuntimeSpec(q.env)])

AskPure ==
    /\ asked = Silent
    /\ \/ AskMatch(FragmentsAsked) \/ AskMatch(NamesAsked) \/ AskFeed \/ AskFile \/ AskRows
       \/ AskKeywords \/ AskConfig

\* One question to one of the three: the others keep their initial state.
NothingAsked == path = <<>> /\ prefix = <<>> /\ mem = "unasked" /\ sqlite = "unasked"

QuestionsInit == Init /\ RangeInit /\ asked = Silent /\ answer = Silent

QuestionsNext ==
    \/ NothingAsked /\ asked = Silent /\ Next /\ UNCHANGED <<rangeVars, pureVars>>
    \/ outcome = "none" /\ asked = Silent /\ RangeNext /\ UNCHANGED <<vars, pureVars>>
    \/ outcome = "none" /\ NothingAsked /\ AskPure /\ UNCHANGED <<vars, rangeVars>>

QuestionsSpec == QuestionsInit /\ [][QuestionsNext]_<<vars, rangeVars, pureVars>>
-----------------------------------------------------------------------------
Answered(about) == answer # Silent /\ answer.about = about

\* The scans that classify_raw makes, which take the first component and the
\* first character that will do and never go back, find a match whenever any
\* layout of the needle is one, and report only a kind that applies.
ScansMissNothing ==
    Answered("match") /\ asked.q.needle.fragments # <<>> /\ asked.q.path # <<>> =>
        IF Kinds(asked.q) = {} THEN answer.a = None ELSE answer.a \in Kinds(asked.q)

\* "returning the *best* applicable MatchKind", of a ladder from worst to best.
BestKind == Answered("match") /\ Kinds(asked.q) # {} => answer.a = Max(Kinds(asked.q))

\* A history loses no occurrence on its way to the feed: each text has one entry
\* with all its times and its place, whatever is empty or has no time.
FeedIsExact == Answered("feed") => IsFeedOf(answer.a.entries, asked.q.history)

\* "pin_most_recent places the newest entry first unconditionally, and frecency
\* orders everything beneath it": no entry is lost or moved by the pin.
MuscleMemory ==
    Answered("feed") =>
        /\ ToSet(answer.a.ranked) = ToSet(answer.a.entries)
        /\ Len(answer.a.ranked) = Len(answer.a.entries)
        /\ IsRanked(answer.a.ranked, asked.q.opts, FeedNow)

\* parse takes exactly what encode writes, its "inverse": rows that are written
\* are read back, and a file that is cut short, goes on or claims more than it
\* has gives no row.
ExactlyTheFiles ==
    /\ Answered("rows") => answer.a.error = "none" /\ answer.a.rows = asked.q
    /\ Answered("file") /\ answer.a.error = "none" /\ asked.q # <<>> =>
          Encode(answer.a.rows) = asked.q

\* Keywords that keep their length in lower case match when they can be found one
\* after the other, the last in the file name; one that gets shorter may only
\* make the query miss a path or end in a panic.
KeywordsInOrder ==
    Answered("keywords") =>
        LET found == LaidOut(asked.q.path, asked.q.keywords)
                     /\ LastInName(asked.q.path, asked.q.keywords)
        IN  /\ KeepsWidth(asked.q.keywords) => answer.a = IF found THEN "yes" ELSE "no"
            /\ Shrinks(asked.q.keywords) /\ answer.a = "yes" => found

\* "every consumer converges on the same store with zero config": the indexer's
\* configuration and the facade of each cd agree on the database and the ranking,
\* whatever the tier.
OneStore ==
    Answered("config") =>
        /\ answer.a.active.db_path = answer.a.db_path
        /\ SpecOf(answer.a.active) = answer.a.spec

\* The directories none of whose names the default passes over.
Plain(tree) == {p \in tree.dirs : ToSet(p) \cap (IgnoredNames \cup HiddenNames) = {}}

\* "~/code at depth 6 already covers every service/org/repo workspace": whatever
\* the discovered tier indexes is indexed by the default, but for names that the
\* latter passes over.
CoversEveryWorkspace ==
    Answered("config") =>
        LET tree == asked.q.tree
        IN  \A p \in Plain(tree) :
                Indexed(Discovered(tree), p) => Indexed(PrescribedDefault(tree), p)

\* It does of what lies below a service/org directory that is one, and not a
\* link: all six levels are then walked, whatever ~/code is a link to.
DefaultCovers ==
    Answered("config") =>
        LET tree == asked.q.tree
            code == Resolved(tree, Code)
            orgs == {r \in Discovered(tree).roots :
                        StrictlyUnder(r.path, code) /\ Len(r.path) = Len(code) + 2}
        IN  \A r \in orgs, p \in Plain(tree) :
                Finds(Discovered(tree), r, p) => Indexed(PrescribedDefault(tree), p)
=============================================================================
