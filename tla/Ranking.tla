------------------------------- MODULE Ranking -------------------------------
(* apply_matched and top_n: the phases of a ranking spec run one after the   *)
(* other over a working set, and the caller takes what it asked for.         *)
(* Scores are integers, in units of 1/Scale before a match weights them and  *)
(* of 1/(10 * Scale) after; times are hours.  A quotient is rounded down, and *)
(* so is the number of half-lives of an age.                                  *)
EXTENDS Matching, Scores

CONSTANTS
    Dirs,       \* the paths that may be ranked
    PathSize,   \* the length of each path in bytes
    PathOrder,  \* the place of each path in Path's own order
    Now,        \* what env.now() answers
    Questions   \* [entries, needle, spec, limit]: what top_n is asked

ASSUME RankingAssumption ==
    /\ Now \in Int
    /\ \A p \in Dirs : p \in Seq(ToSet(p))
    /\ PathSize \in [Dirs -> Nat] /\ PathOrder \in [Dirs -> Nat]
    /\ \A p, q \in Dirs : PathOrder[p] = PathOrder[q] => p = q

\* What a spec holds whatever its phases, and the rows of a store: one for each
\* path, discovered_only unless it has visits.
Specs ==
    [decay : {"HyperbolicDays", "ExpHalfLife", "ZoxideLogBuckets"}, half_life : Int,
     freq_weight : Int, recency_weight : Int, indexed_epsilon : Int,
     combine : {"RecencySumPlusFreq", "FreqTimesLatestDecay"},
     matching : [weight : [SubstringAnywhere..BasenameExact -> Int],
                 require_at_least : SubstringAnywhere..BasenameExact],
     phases : Seq([kind : {"LoadEntries", "ComputeAge", "ApplyDecay", "Combine",
                           "FloorIndexed", "MatchNeedle", "SortDesc"}]
                  \cup [kind : {"CollapseDescendants"}, keep : Nat]
                  \cup [kind : {"TopK"}, n : Nat])]

ASSUME QuestionsAssumption ==
    \A q \in Questions :
        /\ q.spec \in Specs /\ q.limit \in Nat
        /\ q.entries \in Seq([path : Dirs, visits : Seq(Int), discovered_only : BOOLEAN])
        /\ \A i, j \in DOMAIN q.entries : q.entries[i].path = q.entries[j].path => i = j
        /\ \A e \in ToSet(q.entries) : e.visits = <<>> => e.discovered_only

VARIABLES
    question,   \* what was asked, or Unasked
    next,       \* the phase to run next
    loaded,     \* whether LoadEntries has run
    working,    \* the working set
    outcome,    \* "none" before a question, then "running", "error" or "ok"
    ranked      \* the answer: paths and scores, best first

vars == <<question, next, loaded, working, outcome, ranked>>

spec == question.spec

\* (Mistaken variant: the visit recorded last, not the one of least age.)
LatestDecayByRow(ages, decayed) == IF decayed = <<>> THEN 0 ELSE Last(decayed)

\* The decayed weight of the visit of least age, the first of several.
LatestDecay(ages, decayed) ==
    LET newest == {i \in DOMAIN ages : \A j \in DOMAIN ages : ages[i] <= ages[j]}
    IN  IF newest = {} \/ Min(newest) \notin DOMAIN decayed THEN 0 ELSE decayed[Min(newest)]

\* FrecencyRankingSpec::combine_score.
CombineScore(s, decayed, freq, latest) ==
    IF s.combine = "FreqTimesLatestDecay"
    THEN s.recency_weight * freq * latest
    ELSE s.recency_weight * Total(decayed) + s.freq_weight * freq * Scale

\* FrecencyRankingSpec::score_counted.
ScoreCounted(s, visits, age) ==
    CombineScore(s, <<Decay(s, age)>>, visits, Decay(s, age))

Loaded(e) == [path |-> e.path, discovered_only |-> e.discovered_only,
              freq |-> Len(e.visits), visits |-> e.visits,
              ages |-> <<>>, decayed |-> <<>>, score |-> 0]

\* The pipelines and instances that are shipped; n is 50 in the code.
Scored == << [kind |-> "LoadEntries"], [kind |-> "ComputeAge"], [kind |-> "ApplyDecay"],
             [kind |-> "Combine"], [kind |-> "FloorIndexed"], [kind |-> "MatchNeedle"],
             [kind |-> "SortDesc"] >>
Cut(n) == << [kind |-> "TopK", n |-> n] >>
CanonicalPhases(n) == Scored \o << [kind |-> "CollapseDescendants", keep |-> 0] >> \o Cut(n)

SkimtabParity(n) ==
    [decay |-> "HyperbolicDays", half_life |-> 0, freq_weight |-> 0, recency_weight |-> 1,
     combine |-> "RecencySumPlusFreq", indexed_epsilon |-> Scale \div 1000,
     matching |-> Anchored, phases |-> CanonicalPhases(n)]

ZoxideParity(n) ==
    [SkimtabParity(n) EXCEPT !.decay = "ExpHalfLife", !.half_life = 30 * Day, !.freq_weight = 1]

SubstringLegacyParity(n) ==
    [SkimtabParity(n) EXCEPT !.matching = SubstringLegacy, !.phases = Scored \o Cut(n)]

PracaParity(n) ==
    [SkimtabParity(n) EXCEPT !.decay = "ZoxideLogBuckets", !.combine = "FreqTimesLatestDecay"]
-----------------------------------------------------------------------------
Unasked == "unasked"

Init ==
    /\ question = Unasked
    /\ next = 1
    /\ loaded = FALSE /\ working = <<>>
    /\ outcome = "none"
    /\ ranked = <<>>

\* apply_matched is called, with the rows that `entries` returned.
Call ==
    /\ outcome = "none"
    /\ question' \in Questions
    /\ outcome' = "running"
    /\ UNCHANGED <<next, loaded, working, ranked>>

Phase(kind) ==
    /\ outcome = "running" /\ next <= Len(spec.phases)
    /\ spec.phases[next].kind = kind

\* The phase replaces the working set.
Yields(set) ==
    /\ working' = set /\ loaded' = TRUE
    /\ next' = next + 1
    /\ UNCHANGED <<question, outcome, ranked>>

\* A phase that needs the working set.
On(kind) == Phase(kind) /\ loaded

LoadEntries == Phase("LoadEntries") /\ Yields(Map(Loaded, question.entries))

ComputeAge ==
    /\ On("ComputeAge")
    /\ Yields(Map(LAMBDA a : [a EXCEPT !.ages = Map(LAMBDA t : Now - t, a.visits)], working))

ApplyDecay ==
    /\ On("ApplyDecay")
    /\ Yields(Map(LAMBDA a : [a EXCEPT !.decayed = Map(LAMBDA h : Decay(spec, h), a.ages)],
                  working))

Combine ==
    /\ On("Combine")
    /\ Yields(Map(LAMBDA a : [a EXCEPT !.score =
                      CombineScore(spec, a.decayed, a.freq, LatestDecay(a.ages, a.decayed))],
                  working))

FloorIndexed ==
    /\ On("FloorIndexed")
    /\ Yields(Map(LAMBDA a : IF a.discovered_only
                             THEN [a EXCEPT !.score = spec.indexed_epsilon] ELSE a,
                  working))

\* One row of the retain loop: dropped, or kept with its weight.
Weighted(kept, row) ==
    LET kind == Classify(spec.matching, question.needle, row.path)
    IN  IF kind = None THEN kept
        ELSE Append(kept, [row EXCEPT !.score = @ * spec.matching.weight[kind]])

\* Nothing without a needle.
MatchNeedle ==
    /\ On("MatchNeedle")
    /\ Yields(IF question.needle.given THEN FoldLeft(Weighted, <<>>, working) ELSE working)

\* (Mistaken variant: ties keep the order of the rows.)
PrecedesByScore(a, b) == a.score > b.score

\* By score; ties go to the shorter path, then by the order of paths.
Precedes(a, b) ==
    \/ a.score > b.score
    \/ a.score = b.score /\ PathSize[a.path] < PathSize[b.path]
    \/ a.score = b.score /\ PathSize[a.path] = PathSize[b.path]
       /\ PathOrder[a.path] < PathOrder[b.path]

SortDesc == On("SortDesc") /\ Yields(StableSort(working, Precedes))

\* (Mistaken variant: one more row than `keep`.)
IsFullOneLater(root, keep) == root.seen > keep

\* A root that has the rows it may keep below it.
IsFull(root, keep) == root.seen >= keep

\* One row of the retain loop: a root itself, or charged to the first root it
\* lies under.
Retain(kept, row, keep) ==
    LET above == {i \in DOMAIN kept.roots : SameOrUnder(row.path, kept.roots[i].path)}
        root  == Min(above)
    IN  IF above = {}
        THEN [rows  |-> Append(kept.rows, row),
              roots |-> Append(kept.roots, [path |-> row.path, seen |-> 0])]
        ELSE IF IsFull(kept.roots[root], keep) THEN kept
        ELSE [rows  |-> Append(kept.rows, row),
              roots |-> [kept.roots EXCEPT ![root].seen = @ + 1]]

Collapsed(seq, keep) ==
    FoldLeft(LAMBDA kept, row : Retain(kept, row, keep),
             [rows |-> <<>>, roots |-> <<>>], seq).rows

\* Nothing without a needle.
CollapseDescendants ==
    /\ On("CollapseDescendants")
    /\ Yields(IF question.needle.given THEN Collapsed(working, spec.phases[next].keep)
                                       ELSE working)

FirstOf(seq, n) == SubSeq(seq, 1, IF Len(seq) < n THEN Len(seq) ELSE n)

TopK == On("TopK") /\ Yields(FirstOf(working, spec.phases[next].n))

\* require: a phase before LoadEntries, or no LoadEntries at all.
Refuse ==
    /\ outcome = "running" /\ ~loaded
    /\ next <= Len(spec.phases) => spec.phases[next].kind # "LoadEntries"
    /\ outcome' = "error"
    /\ UNCHANGED <<question, next, loaded, working, ranked>>

\* (Mistaken variant: the caller's limit is left to the spec.)
AllOf(seq, limit) == seq

\* top_n's take(limit).
Taken(seq, limit) == FirstOf(seq, limit)

\* The end of the pipeline.
Take ==
    /\ outcome = "running" /\ loaded /\ next > Len(spec.phases)
    /\ ranked' = Taken(Map(LAMBDA a : [path |-> a.path, score |-> a.score], working),
                       question.limit)
    /\ outcome' = "ok"
    /\ UNCHANGED <<question, next, loaded, working>>

Next ==
    \/ Call \/ LoadEntries \/ ComputeAge \/ ApplyDecay \/ Combine \/ FloorIndexed \/ MatchNeedle
    \/ SortDesc \/ CollapseDescendants \/ TopK \/ Refuse \/ Take

Spec == Init /\ [][Next]_vars
-----------------------------------------------------------------------------
\* What a row is worth: its visits, none of them younger than now, or the floor,
\* times the weight that the spec gives to the kind `classify` answers, which is
\* not always the best that applies (BestKind in MCQuestions).
VisitScore(e) ==
    LET ages == Map(LAMBDA t : IF t > Now THEN 0 ELSE Now - t, e.visits)
        decayed == Map(LAMBDA h : Decay(spec, h), ages)
    IN  CombineScore(spec, decayed, Len(e.visits),
                     IF ages = <<>> THEN 0 ELSE Decay(spec, Min(ToSet(ages))))

Worth(e) ==
    (IF e.discovered_only THEN spec.indexed_epsilon ELSE VisitScore(e))
    * (IF question.needle.given
       THEN spec.matching.weight[Classify(spec.matching, question.needle, e.path)] ELSE 1)

\* The rows that match, scored.
Candidates ==
    {[path |-> e.path, score |-> Worth(e)] :
        e \in {e \in ToSet(question.entries) :
                  \/ ~question.needle.given
                  \/ Classify(spec.matching, question.needle, e.path) # None}}

Collapses == question.needle.given /\ \E i \in DOMAIN spec.phases :
                                        spec.phases[i].kind = "CollapseDescendants"

\* The most rows the pipeline and the caller let through.
Room == Min({question.limit} \cup {spec.phases[i].n : i \in
            {j \in DOMAIN spec.phases : spec.phases[j].kind = "TopK"}})

\* The pipelines of which the properties below are promised: the shipped phases in
\* their order, with the collapse and the cut or without ...
InShape(phases) ==
    /\ Len(phases) \in 7..9 /\ DOMAIN phases = 1..Len(phases)
    /\ phases[1].kind = "LoadEntries" /\ phases[2].kind = "ComputeAge"
    /\ phases[3].kind = "ApplyDecay" /\ phases[4].kind = "Combine"
    /\ phases[5].kind = "FloorIndexed" /\ phases[6].kind = "MatchNeedle"
    /\ phases[7].kind = "SortDesc"
    /\ Len(phases) > 7 => \/ phases[8].kind = "TopK"
                          \/ phases[8].kind = "CollapseDescendants" /\ phases[8].keep = 0
    /\ Len(phases) > 8 => phases[9].kind = "TopK"

\* ... a pipeline that is refused whole ...
NeverLoads(phases) == \A i \in DOMAIN phases : phases[i].kind # "LoadEntries"

\* ... and, for the flood, one that collapses after all but the cuts and keeps none.
CollapsesLast(phases) ==
    \A i \in DOMAIN phases : phases[i].kind = "CollapseDescendants" =>
        /\ phases[i].keep = 0
        /\ \A j \in DOMAIN phases : i < j => phases[j].kind = "TopK"

\* Whatever the order of the store's rows: the answer is what was asked for, each
\* row with its worth (a visit in the future as one now) and in order, and a
\* candidate that is not in it lies under a better row of it or is worse than all
\* the rows there was room for.
BestFirst ==
    outcome = "ok" =>
        /\ ToSet(ranked) \subseteq Candidates
        /\ Len(ranked) <= Room
        /\ \A i, j \in DOMAIN ranked : i < j => Precedes(ranked[i], ranked[j])
        /\ \A c \in Candidates \ ToSet(ranked) :
              \/ Len(ranked) = Room /\ \A i \in DOMAIN ranked : Precedes(ranked[i], c)
              \/ Collapses /\ \E i \in DOMAIN ranked :
                    Precedes(ranked[i], c) /\ StrictlyUnder(c.path, ranked[i].path)

\* One repository does not flood the answer: no row lies under a better one.
NoFlood ==
    outcome = "ok" /\ Collapses =>
        \A i, j \in DOMAIN ranked : i < j => ~SameOrUnder(ranked[j].path, ranked[i].path)

\* "an indexed-but-never-visited dir ... can never outrank a single real visit".
FloorNeverOutranks ==
    LET found(p) == \E e \in ToSet(question.entries) : e.path = p /\ e.discovered_only
    IN  outcome = "ok" =>
            \A i, j \in DOMAIN ranked :
                i < j /\ found(ranked[i].path) => found(ranked[j].path)

\* A log of visits and the counter with one timestamp get the same score under
\* the multiplicative combine, in whatever order the log's rows come.
CounterAgrees ==
    outcome = "ok" /\ spec.combine = "FreqTimesLatestDecay" /\ ~question.needle.given =>
        \A r \in ToSet(ranked) : \A e \in ToSet(question.entries) :
            e.path = r.path /\ ~e.discovered_only =>
                r.score = ScoreCounted(spec, Len(e.visits), Now - Max(ToSet(e.visits)))

\* "Every unimplemented or out-of-order phase surfaces here -- never a silent
\* wrong answer": a pipeline that is answered at all gives each row its worth.
NeverSilentlyWrong == outcome = "ok" => ToSet(ranked) \subseteq Candidates
=============================================================================
