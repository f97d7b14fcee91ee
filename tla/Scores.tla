-------------------------------- MODULE Scores --------------------------------
(* What both rankings are computed from: the decay curves (DecayKind), sums,   *)
(* and a stable sort.  Scores are integers in units of 1/Scale; times are      *)
(* hours.  A quotient is rounded down, and so is the number of half-lives.     *)
EXTENDS Integers, SequencesExt

CONSTANT Scale  \* units of a score of one

ASSUME ScaleAssumption == Scale \in Nat \ {0}

Day == 24

\* DecayKind::decay.
HyperbolicDays(age) == (Scale * Day) \div (Day + age)

ExpHalfLife(age, halfLife) ==
    LET life == IF halfLife <= 0 THEN Day ELSE halfLife
    IN  Scale \div 2^(age \div life)

ZoxideLogBuckets(age) ==
    CASE age < 1                      -> 4 * Scale
      [] age >= 1 /\ age < Day        -> 2 * Scale
      [] age >= Day /\ age < 7 * Day  -> Scale \div 2
      [] OTHER                        -> Scale \div 4

Curve(s, age) ==
    CASE s.decay = "HyperbolicDays"   -> HyperbolicDays(age)
      [] s.decay = "ExpHalfLife"      -> ExpHalfLife(age, s.half_life)
      [] s.decay = "ZoxideLogBuckets" -> ZoxideLogBuckets(age)

\* (Mistaken variant: without age_days.max(0.0).)
DecayUnclamped(s, age) == Curve(s, age)

\* A visit in the future, from a clock that was set back, counts as one now.
Decay(s, age) == Curve(s, IF age < 0 THEN 0 ELSE age)

Total(seq) == FoldLeft(LAMBDA sum, x : sum + x, 0, seq)

Map(f(_), seq) == [i \in DOMAIN seq |-> f(seq[i])]

\* sort_by: stable, so rows that neither precedes the other keep their order.
StableSort(seq, Precedes(_, _)) ==
    LET before(i, j) == \/ Precedes(seq[i], seq[j])
                        \/ i < j /\ ~Precedes(seq[j], seq[i])
        place(i)     == Cardinality({j \in DOMAIN seq \ {i} : before(j, i)}) + 1
    IN  [k \in DOMAIN seq |-> seq[CHOOSE i \in DOMAIN seq : place(i) = k]]
=============================================================================
