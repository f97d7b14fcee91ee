----------------------------- MODULE RankingProofs -----------------------------
(* What the ranking promises for every store, needle and pipeline of its kind: *)
(* one repository does not flood the answer, the answer is the best rows in    *)
(* order whatever the order of the store, and a log of visits ranks as the     *)
(* counter that stands for it.                                                 *)
EXTENDS Ranking, FiniteSetTheorems, SequenceTheorems, WellFoundedInduction, TLAPS

-----------------------------------------------------------------------------
(* Least elements, induction, and folds over sequences.                       *)

LEMMA LeastElement ==
    ASSUME NEW T, T \subseteq Nat, T # {}
    PROVE  \E x \in T : \A y \in T : x <= y
  <1> DEFINE Below == {ss \in Nat \X Nat : ss[1] < ss[2]}
  <1>1. IsWellFoundedOn(Below, Nat)
    BY NatLessThanWellFounded DEF OpToRel
  <1> HIDE DEF Below
  <1>2. PICK x \in T : \A y \in T : ~(<<y, x>> \in Below)
    BY <1>1, WFMin
  <1>3. \A y \in T : x <= y
    <2> SUFFICES ASSUME NEW y \in T, y < x PROVE FALSE
      OBVIOUS
    <2>1. <<y, x>> \in Nat \X Nat /\ <<y, x>>[1] < <<y, x>>[2]
      OBVIOUS
    <2>2. <<y, x>> \in Below
      BY <2>1 DEF Below
    <2>3. QED BY <1>2, <2>2
  <1>4. QED BY <1>3

\* A set of numbers that has 0 and the successor of each of its elements has
\* all: there is no least number outside it.
LEMMA Induction ==
    ASSUME NEW P, 0 \in P, \A n \in Nat : n \in P => n + 1 \in P
    PROVE  Nat \subseteq P
  <1> SUFFICES ASSUME Nat \ P # {} PROVE FALSE
    OBVIOUS
  <1> DEFINE T == Nat \ P
  <1>1. T \subseteq Nat /\ T # {}
    OBVIOUS
  <1>2. PICK x \in T : \A y \in T : x <= y
    <2> HIDE DEF T
    <2>1. QED BY <1>1, LeastElement
  <1>3. x - 1 \in Nat /\ x - 1 \in P
    BY <1>2
  <1>4. QED BY <1>2, <1>3

LEMMA MinOf ==
    ASSUME NEW T, T \subseteq Nat, T # {}
    PROVE  Min(T) \in T /\ \A y \in T : Min(T) <= y
  BY LeastElement DEF Min

LEMMA MaxOf ==
    ASSUME NEW T, NEW n \in Nat, T \subseteq 0..n, T # {}
    PROVE  Max(T) \in T /\ \A y \in T : y <= Max(T)
  <1> DEFINE D == {d \in 0..n : n - d \in T}
  <1>1. D \subseteq Nat
    OBVIOUS
  <1>2. D # {}
    <2>1. PICK t \in T : TRUE
      OBVIOUS
    <2>2. n - t \in 0..n /\ n - (n - t) = t
      OBVIOUS
    <2>3. QED BY <2>2
  <1>3. PICK d \in D : \A y \in D : d <= y
    <2> HIDE DEF D
    <2>1. QED BY <1>1, <1>2, LeastElement
  <1>4. n - d \in T
    BY <1>3
  <1>5. \A y \in T : n - d >= y
    <2> SUFFICES ASSUME NEW y \in T PROVE n - d >= y
      OBVIOUS
    <2>1. n - y \in 0..n /\ n - (n - y) = y
      OBVIOUS
    <2>2. n - y \in D
      BY <2>1
    <2>3. d <= n - y
      BY <1>3, <2>2
    <2>4. QED BY <2>3
  <1>6. \E x \in T : \A y \in T : x >= y
    BY <1>4, <1>5
  <1>7. Max(T) \in T /\ \A y \in T : Max(T) >= y
    BY <1>6 DEF Max
  <1>8. QED BY <1>7

LEMMA MaxOfInterval ==
    ASSUME NEW k \in Nat \ {0}
    PROVE  Max(1..k) = k /\ (1..k) \ {k} = 1..(k - 1)
  <1>1. 1..k \subseteq 0..k /\ k \in 1..k
    OBVIOUS
  <1>2. Max(1..k) \in 1..k /\ \A y \in 1..k : y <= Max(1..k)
    BY <1>1, MaxOf
  <1>3. QED BY <1>1, <1>2

LEMMA UpTo ==
    ASSUME NEW n \in Nat, NEW k \in Nat \ {0}, k <= n
    PROVE  1..k # {} /\ 1..k \subseteq 1..n
  OBVIOUS

\* h folds each set of 1..n from its least element to its greatest, by G.
IsFold(h, n, V, base, G) ==
    /\ h \in [SUBSET (1..n) -> V]
    /\ \A s \in SUBSET (1..n) :
          h[s] = IF s = {} THEN base ELSE G[<<Max(s), h[s \ {Max(s)}]>>]

\* The function by which a fold is defined exists, over the set of values V.
LEMMA FoldExists ==
    ASSUME NEW n \in Nat, NEW V, NEW base \in V, NEW G \in [(1..n) \X V -> V]
    PROVE  \E h : IsFold(h, n, V, base, G)
  <1> DEFINE P == {k \in Nat : k <= n => \E h : IsFold(h, k, V, base, G)}
  <1>1. 0 \in P
    <2> DEFINE h == [s \in SUBSET (1..0) |-> base]
    <2>1. h \in [SUBSET (1..0) -> V]
      OBVIOUS
    <2>2. \A s \in SUBSET (1..0) : s = {}
      OBVIOUS
    <2>3. IsFold(h, 0, V, base, G)
      BY <2>1, <2>2 DEF IsFold
    <2>4. QED BY <2>3
  <1>2. ASSUME NEW k \in Nat, k \in P PROVE k + 1 \in P
    <2> SUFFICES ASSUME k + 1 <= n
                 PROVE  \E h : IsFold(h, k + 1, V, base, G)
      OBVIOUS
    <2>0. PICK h : IsFold(h, k, V, base, G)
      BY <1>2
    <2>1. /\ h \in [SUBSET (1..k) -> V]
          /\ \A s \in SUBSET (1..k) :
                h[s] = IF s = {} THEN base ELSE G[<<Max(s), h[s \ {Max(s)}]>>]
      BY <2>0 DEF IsFold
    <2> HIDE DEF P
    <2> DEFINE m == k + 1
               g == [s \in SUBSET (1..m) |-> IF m \in s THEN G[<<m, h[s \ {m}]>>] ELSE h[s]]
    <2>2. \A s \in SUBSET (1..m) : s \ {m} \in SUBSET (1..k) /\ (m \notin s => s \in SUBSET (1..k))
      OBVIOUS
    <2>3. m \in 1..n
      OBVIOUS
    <2>4. g \in [SUBSET (1..m) -> V]
      <3> SUFFICES ASSUME NEW s \in SUBSET (1..m)
                   PROVE  (IF m \in s THEN G[<<m, h[s \ {m}]>>] ELSE h[s]) \in V
        OBVIOUS
      <3>1. CASE m \in s
        <4>1. h[s \ {m}] \in V
          BY <2>1, <2>2
        <4>2. <<m, h[s \ {m}]>> \in (1..n) \X V
          BY <2>3, <4>1
        <4>3. QED BY <3>1, <4>2
      <3>2. CASE m \notin s
        BY <2>1, <2>2, <3>2
      <3>3. QED BY <3>1, <3>2
    <2>5. ASSUME NEW s \in SUBSET (1..m)
          PROVE  g[s] = IF s = {} THEN base ELSE G[<<Max(s), g[s \ {Max(s)}]>>]
      <3>1. CASE m \in s
        <4>1. s \subseteq 0..m /\ s # {}
          BY <3>1
        <4>2. Max(s) = m
          <5>1. m \in Nat
            OBVIOUS
          <5> HIDE DEF m
          <5>2. Max(s) \in s /\ m <= Max(s)
            BY <4>1, <3>1, <5>1, MaxOf
          <5>3. Max(s) \in 1..m
            BY <5>2
          <5>4. QED BY <5>1, <5>2, <5>3
        <4>3. s \ {m} \in SUBSET (1..m) /\ m \notin s \ {m}
          OBVIOUS
        <4>4. g[s \ {m}] = h[s \ {m}]
          BY <4>3
        <4>5. g[s] = G[<<m, h[s \ {m}]>>]
          BY <3>1
        <4> HIDE DEF g, m
        <4>6. QED BY <4>1, <4>2, <4>4, <4>5
      <3>2. CASE m \notin s /\ s # {}
        <4>1. s \in SUBSET (1..k) /\ s \subseteq 0..k
          BY <2>2, <3>2
        <4>2. Max(s) \in s
          BY <3>2, <4>1, MaxOf
        <4>3. g[s] = h[s] /\ g[s \ {Max(s)}] = h[s \ {Max(s)}]
          BY <3>2
        <4>4. h[s] = G[<<Max(s), h[s \ {Max(s)}]>>]
          BY <2>1, <3>2, <4>1
        <4> HIDE DEF g
        <4>5. QED BY <3>2, <4>3, <4>4
      <3>3. CASE s = {}
        <4>1. m \notin s /\ {} \in SUBSET (1..k)
          BY <3>3
        <4>2. g[s] = h[s]
          BY <4>1
        <4>3. h[{}] = base
          BY <2>1, <4>1
        <4> HIDE DEF g
        <4>4. QED BY <3>3, <4>2, <4>3
      <3>4. QED BY <3>1, <3>2, <3>3
    <2> HIDE DEF g
    <2>6. IsFold(g, m, V, base, G)
      BY <2>4, <2>5 DEF IsFold
    <2>7. QED BY <2>6
  <1> HIDE DEF P
  <1>3. n \in P
    BY <1>1, <1>2, Induction
  <1>4. QED BY <1>3 DEF P
-----------------------------------------------------------------------------
(* Sorting: each item goes to the place after all those before it.            *)

\* R orders the numbers up to n.
IsOrder(R, n) ==
    /\ \A i, j \in 1..n : <<i, j>> \in R => <<j, i>> \notin R
    /\ \A i, j, k \in 1..n : <<i, j>> \in R /\ <<j, k>> \in R => <<i, k>> \in R
    /\ \A i, j \in 1..n : i # j => <<i, j>> \in R \/ <<j, i>> \in R

Before(R, n, i) == {j \in 1..n : <<j, i>> \in R}
Places(R, n) == [i \in 1..n |-> Cardinality(Before(R, n, i)) + 1]

LEMMA PlacesFollow ==
    ASSUME NEW n \in Nat, NEW R, IsOrder(R, n)
    PROVE  /\ Places(R, n) \in [1..n -> 1..n]
           /\ \A i, j \in 1..n : <<i, j>> \in R => Places(R, n)[i] < Places(R, n)[j]
  <1>1. IsFiniteSet(1..n) /\ Cardinality(1..n) = n
    BY FS_Interval
  <1>2. ASSUME NEW i \in 1..n
        PROVE  /\ IsFiniteSet(Before(R, n, i))
               /\ Cardinality(Before(R, n, i)) \in 0..(n - 1)
    <2> DEFINE B == Before(R, n, i)
    <2>1. B \in SUBSET (1..n) /\ i \notin B
      BY DEF Before, IsOrder
    <2> HIDE DEF B
    <2>2. IsFiniteSet(B) /\ Cardinality(B) <= n /\ Cardinality(B) \in Nat
      BY <1>1, <2>1, FS_Subset, FS_CardinalityType
    <2>3. Cardinality(B) # n
      BY <1>1, <2>1, FS_Subset
    <2>4. Cardinality(B) \in 0..(n - 1)
      BY <2>2, <2>3
    <2>5. QED BY <2>2, <2>4 DEF B
  <1>3. ASSUME NEW i \in 1..n, NEW j \in 1..n, <<i, j>> \in R
        PROVE  Cardinality(Before(R, n, i)) < Cardinality(Before(R, n, j))
    <2> DEFINE B == Before(R, n, i)
               D == Before(R, n, j)
    <2>1. B \in SUBSET D /\ i \in D /\ i \notin B
      BY <1>3 DEF Before, IsOrder
    <2>2. IsFiniteSet(D) /\ Cardinality(B) \in Nat /\ Cardinality(D) \in Nat
      BY <1>2
    <2> HIDE DEF B, D
    <2>3. Cardinality(B) <= Cardinality(D) /\ Cardinality(B) # Cardinality(D)
      BY <2>1, <2>2, FS_Subset
    <2>4. Cardinality(B) < Cardinality(D)
      BY <2>2, <2>3
    <2>5. QED BY <2>4 DEF B, D
  <1>4. ASSUME NEW i \in 1..n PROVE Places(R, n)[i] \in 1..n
    <2> DEFINE c == Cardinality(Before(R, n, i))
    <2>1. c \in 0..(n - 1)
      BY <1>2
    <2>2. Places(R, n)[i] = c + 1
      BY DEF Places
    <2> HIDE DEF c
    <2>3. QED BY <2>1, <2>2
  <1>5. Places(R, n) \in [1..n -> 1..n]
    <2> DEFINE place == Places(R, n)
    <2>1. place = [i \in 1..n |-> place[i]]
      BY DEF Places
    <2>2. \A i \in 1..n : place[i] \in 1..n
      BY <1>4
    <2> HIDE DEF place
    <2>3. place \in [1..n -> 1..n]
      BY <2>1, <2>2
    <2>4. QED BY <2>3 DEF place
  <1>6. ASSUME NEW i \in 1..n, NEW j \in 1..n, <<i, j>> \in R
        PROVE  Places(R, n)[i] < Places(R, n)[j]
    BY <1>2, <1>3, <1>6 DEF Places
  <1>7. QED BY <1>5, <1>6

\* t holds the items of s, each once, in the order R of their places in s.
IsArranged(t, s, R, n) ==
    \E from \in [1..n -> 1..n] :
        /\ t = [k \in 1..n |-> s[from[k]]]
        /\ \A i \in 1..n : \E k \in 1..n : from[k] = i
        /\ \A k, l \in 1..n : k < l => <<from[k], from[l]>> \in R

Placed(s, R, n) == [k \in 1..n |-> s[CHOOSE i \in 1..n : Places(R, n)[i] = k]]

LEMMA PlacedIsArranged ==
    ASSUME NEW n \in Nat, NEW R, IsOrder(R, n), NEW s
    PROVE  IsArranged(Placed(s, R, n), s, R, n)
  <1> DEFINE place == Places(R, n)
             from  == [k \in 1..n |-> CHOOSE i \in 1..n : place[i] = k]
  <1>1. place \in [1..n -> 1..n] /\ \A i, j \in 1..n : <<i, j>> \in R => place[i] < place[j]
    BY PlacesFollow
  <1> HIDE DEF place
  <1>2. ASSUME NEW i \in 1..n, NEW j \in 1..n, i # j PROVE place[i] # place[j]
    <2>1. <<i, j>> \in R \/ <<j, i>> \in R
      BY <1>2 DEF IsOrder
    <2>2. place[i] < place[j] \/ place[j] < place[i]
      BY <1>1, <2>1
    <2>3. place[i] \in Int /\ place[j] \in Int
      BY <1>1
    <2>4. QED BY <2>2, <2>3
  <1>3. place \in Injection(1..n, 1..n)
    BY <1>1, <1>2 DEF Injection, IsInjective
  <1>4. place \in Surjection(1..n, 1..n)
    BY <1>3, FS_Interval, FS_Injection
  <1>5. \A k \in 1..n : \E i \in 1..n : place[i] = k
    BY <1>4 DEF Surjection
  <1>6. \A k \in 1..n : from[k] \in 1..n /\ place[from[k]] = k
    BY <1>5
  <1>7. \A i \in 1..n : from[place[i]] = i
    BY <1>1, <1>2, <1>6
  <1>8. from \in [1..n -> 1..n]
    BY <1>6
  <1>9. \A k, l \in 1..n : k < l => <<from[k], from[l]>> \in R
    <2> SUFFICES ASSUME NEW k \in 1..n, NEW l \in 1..n, k < l PROVE <<from[k], from[l]>> \in R
      OBVIOUS
    <2> HIDE DEF from
    <2>1. from[k] \in 1..n /\ from[l] \in 1..n /\ place[from[k]] = k /\ place[from[l]] = l
      BY <1>6
    <2>2. from[k] # from[l] /\ ~(place[from[l]] < place[from[k]])
      BY <2>1
    <2>3. QED BY <1>1, <2>1, <2>2 DEF IsOrder
  <1>10. Placed(s, R, n) = [k \in 1..n |-> s[from[k]]]
    BY DEF Placed, place
  <1> HIDE DEF from
  <1>11. QED BY <1>1, <1>7, <1>8, <1>9, <1>10 DEF IsArranged, place
-----------------------------------------------------------------------------
(* Folds, step by step.                                                       *)

\* The values a fold goes through, each G of the one before.
IsRun(a, n, V, base, G) ==
    a \in [0..n -> V] /\ a[0] = base /\ \A k \in 1..n : a[k] = G[<<k, a[k - 1]>>]

RunsBy(iter, n, V, base, G) ==
    /\ base \in V /\ G \in [(1..n) \X V -> V]
    /\ iter[{}] = base
    /\ \A k \in 1..n : iter[1..(k - 1)] \in V => iter[1..k] = G[<<k, iter[1..(k - 1)]>>]

LEMMA RunAlong ==
    ASSUME NEW n \in Nat, NEW V, NEW base, NEW G, NEW iter, RunsBy(iter, n, V, base, G)
    PROVE  \E a : IsRun(a, n, V, base, G) /\ iter[1..n] = a[n]
  <1> DEFINE a == [k \in 0..n |-> iter[1..k]]
             P == {k \in Nat : k <= n => a[k] \in V}
  <1>1. a[0] = base /\ \A k \in 1..n : a[k - 1] \in V => a[k] = G[<<k, a[k - 1]>>]
    <2>1. 1..0 = {}
      OBVIOUS
    <2>2. \A k \in 1..n : a[k] = iter[1..k] /\ a[k - 1] = iter[1..(k - 1)]
      OBVIOUS
    <2>3. QED BY <2>1, <2>2 DEF RunsBy
  <1>2. a[n] = iter[1..n] /\ a = [k \in 0..n |-> a[k]]
    OBVIOUS
  <1> HIDE DEF a
  <1>0. base \in V /\ G \in [(1..n) \X V -> V]
    BY DEF RunsBy
  <1>3. 0 \in P
    BY <1>0, <1>1
  <1>4. ASSUME NEW k \in Nat, k \in P PROVE k + 1 \in P
    <2> SUFFICES ASSUME k + 1 <= n PROVE a[k + 1] \in V
      OBVIOUS
    <2>1. k + 1 \in 1..n /\ (k + 1) - 1 = k /\ a[k] \in V
      BY <1>4
    <2>2. a[k + 1] = G[<<k + 1, a[k]>>]
      BY <1>1, <2>1
    <2>3. QED BY <1>0, <2>1, <2>2
  <1>5. \A k \in Nat : k <= n => a[k] \in V
    <2> HIDE DEF P
    <2>1. Nat \subseteq P
      BY <1>3, <1>4, Induction
    <2>2. QED BY <2>1 DEF P
  <1>6. \A k \in 1..n : k - 1 \in Nat /\ k - 1 <= n
    OBVIOUS
  <1>7. \A k \in 0..n : a[k] \in V
    BY <1>5
  <1>8. IsRun(a, n, V, base, G)
    BY <1>1, <1>2, <1>5, <1>6, <1>7 DEF IsRun
  <1>9. QED BY <1>2, <1>8

FoldsDown(h, n, V, G) ==
    \A s \in SUBSET (1..n) : s # {} =>
        /\ Max(s) \in 1..n /\ h[s \ {Max(s)}] \in V
        /\ h[s] = G[<<Max(s), h[s \ {Max(s)}]>>]

\* A fold that takes items by G satisfies its own recursion and goes through a
\* run of G: what is left to show of a concrete fold is that its body is G's.
LEMMA FoldStep ==
    ASSUME NEW n \in Nat, NEW V, NEW base, NEW G, NEW h, IsFold(h, n, V, base, G)
    PROVE  FoldsDown(h, n, V, G)
  <1> SUFFICES ASSUME NEW s \in SUBSET (1..n), s # {}
               PROVE  /\ Max(s) \in 1..n /\ h[s \ {Max(s)}] \in V
                      /\ h[s] = G[<<Max(s), h[s \ {Max(s)}]>>]
    BY DEF FoldsDown
  <1>1. s \subseteq 0..n
    OBVIOUS
  <1>2. Max(s) \in s
    BY <1>1, MaxOf
  <1>3. QED BY <1>2 DEF IsFold

SumStep(s) == [p \in (1..Len(s)) \X Int |-> p[2] + s[p[1]]]

\* The sum of a sequence of integers is an integer.
LEMMA TotalType == ASSUME NEW s \in Seq(Int) PROVE Total(s) \in Int
  <1> DEFINE n == Len(s)
             V == Int
             base == 0
             G == SumStep(s)
             body(h) == [t \in SUBSET (DOMAIN s) |->
                            IF t = {} THEN 0 ELSE h[t \ {Max(t)}] + s[Max(t)]]
             iter == CHOOSE h : h = body(h)
  <1>1. n \in Nat /\ DOMAIN s = 1..n /\ \A k \in 1..n : s[k] \in Int
    OBVIOUS
  <1>2. Total(s) = iter[DOMAIN s]
    BY DEF Total, FoldLeft, MapThenFoldSet
  <1>3. G \in [(1..n) \X V -> V] /\ base \in V
    BY <1>1 DEF SumStep
  <1>4. \A k \in 1..n, c \in V : G[<<k, c>>] = c + s[k]
    BY DEF SumStep
  <1>5. PICK h : IsFold(h, n, V, base, G)
    <2> HIDE DEF n, V, base, G
    <2>1. QED BY <1>1, <1>3, FoldExists
  <1>6. h = body(h)
    <2>1. ASSUME NEW t \in SUBSET (1..n), t # {}
          PROVE  h[t] = h[t \ {Max(t)}] + s[Max(t)]
      <3> HIDE DEF n, V, base, G
      <3>1. FoldsDown(h, n, V, G)
        BY <1>1, <1>5, FoldStep
      <3>2. /\ Max(t) \in 1..n /\ h[t \ {Max(t)}] \in V
            /\ h[t] = G[<<Max(t), h[t \ {Max(t)}]>>]
        BY <2>1, <3>1 DEF FoldsDown
      <3>3. QED BY <1>4, <3>2
    <2>2. h[{}] = base /\ h = [t \in SUBSET (1..n) |-> h[t]]
      BY <1>5 DEF IsFold
    <2>3. QED BY <1>1, <2>1, <2>2
  <1>7. iter = body(iter)
    BY <1>6
  <1> HIDE DEF iter
  <1>8. iter[{}] = base
    BY <1>7
  <1>9. ASSUME NEW k \in 1..n, iter[1..(k - 1)] \in V
        PROVE  iter[1..k] = G[<<k, iter[1..(k - 1)]>>]
    <2>1. Max(1..k) = k /\ (1..k) \ {k} = 1..(k - 1) /\ 1..k # {} /\ 1..k \in SUBSET DOMAIN s
      <3> HIDE DEF n, V, base, G
      <3>1. n \in Nat /\ k \in Nat \ {0} /\ k <= n
        BY <1>1
      <3>2. 1..k # {} /\ 1..k \subseteq 1..n
        BY <3>1, UpTo
      <3>3. QED BY <1>1, <3>1, <3>2, MaxOfInterval
    <2>2. iter[1..k] = iter[(1..k) \ {Max(1..k)}] + s[Max(1..k)]
      BY <1>7, <2>1
    <2>3. QED BY <1>4, <1>9, <2>1, <2>2
  <1>10. RunsBy(iter, n, V, base, G)
    <2> HIDE DEF n, V, base, G
    <2>1. QED BY <1>3, <1>8, <1>9 DEF RunsBy
  <1> HIDE DEF n, V, base, G
  <1>11. PICK a : IsRun(a, n, V, base, G) /\ iter[1..n] = a[n]
    BY <1>1, <1>3, <1>10, RunAlong
  <1>12. a[n] \in V
    BY <1>1, <1>11 DEF IsRun
  <1>13. QED BY <1>1, <1>2, <1>11, <1>12 DEF V
-----------------------------------------------------------------------------
(* What the phases compute are integers.                                      *)

LEMMA PowerType == ASSUME NEW k \in Nat PROVE 2^k \in Nat \ {0}
  <1>1. IsFiniteSet(1..k) /\ Cardinality(1..k) = k
    BY FS_Interval
  <1>2. IsFiniteSet(SUBSET (1..k)) /\ Cardinality(SUBSET (1..k)) = 2^Cardinality(1..k)
    BY <1>1, FS_SUBSET
  <1>3. Cardinality(SUBSET (1..k)) \in Nat
    BY <1>2, FS_CardinalityType
  <1>4. SUBSET (1..k) # {}
    OBVIOUS
  <1>5. Cardinality(SUBSET (1..k)) # 0
    BY <1>2, <1>4, FS_EmptySet
  <1>6. QED BY <1>1, <1>2, <1>3, <1>5

LEMMA DecayType ==
    ASSUME NEW s \in Specs, NEW age \in Int
    PROVE  Decay(s, age) \in Int
  <1> DEFINE old == IF age < 0 THEN 0 ELSE age
  <1>1. old \in Nat
    OBVIOUS
  <1>2. Scale \in Nat \ {0}
    BY ScaleAssumption
  <1>3. /\ s.decay \in {"HyperbolicDays", "ExpHalfLife", "ZoxideLogBuckets"}
        /\ s.half_life \in Int
    BY DEF Specs
  <1> HIDE DEF old
  <1>4. HyperbolicDays(old) \in Int
    <2>1. Day + old \in Nat \ {0} /\ Scale * Day \in Int
      BY <1>1, <1>2 DEF Day
    <2>2. QED BY <2>1 DEF HyperbolicDays
  <1>5. ZoxideLogBuckets(old) \in Int
    <2>1. /\ 4 * Scale \in Int /\ 2 * Scale \in Int
          /\ Scale \div 2 \in Int /\ Scale \div 4 \in Int
      BY <1>2
    <2>2. (old < 1) \/ (old >= 1 /\ old < Day) \/ ~(old < 1 \/ (old >= 1 /\ old < Day))
      OBVIOUS
    <2>3. QED BY <1>1, <2>1 DEF ZoxideLogBuckets, Day
  <1>6. ExpHalfLife(old, s.half_life) \in Int
    <2> DEFINE life == IF s.half_life <= 0 THEN Day ELSE s.half_life
               k == old \div life
    <2>1. life \in Nat \ {0}
      BY <1>3 DEF Day
    <2> HIDE DEF life
    <2>2. k \in Nat
      BY <1>1, <2>1
    <2> HIDE DEF k
    <2>3. 2^k \in Nat \ {0}
      BY <2>2, PowerType
    <2> DEFINE d == 2^k
    <2>4. d \in Nat \ {0}
      BY <2>3
    <2> HIDE DEF d
    <2>5. Scale \div d \in Int
      BY <1>2, <2>4
    <2>6. ExpHalfLife(old, s.half_life) = Scale \div d
      BY DEF ExpHalfLife, life, k, d
    <2>7. QED BY <2>5, <2>6
  <1>7. Curve(s, old) \in Int
    BY <1>3, <1>4, <1>5, <1>6 DEF Curve
  <1>8. QED BY <1>7 DEF Decay, old

LEMMA CombineType ==
    ASSUME NEW s \in Specs, NEW decayed \in Seq(Int), NEW freq \in Nat, NEW latest \in Int
    PROVE  CombineScore(s, decayed, freq, latest) \in Int
  <1>1. s.recency_weight \in Int /\ s.freq_weight \in Int
    BY DEF Specs
  <1>2. Total(decayed) \in Int /\ Scale \in Int
    BY TotalType, ScaleAssumption
  <1> DEFINE t == Total(decayed)  r == s.recency_weight  f == s.freq_weight
  <1>3. t \in Int /\ r \in Int /\ f \in Int
    BY <1>1, <1>2
  <1>4. CombineScore(s, decayed, freq, latest) =
           IF s.combine = "FreqTimesLatestDecay" THEN r * freq * latest ELSE r * t + f * freq * Scale
    BY DEF CombineScore
  <1> HIDE DEF t, r, f
  <1>5. r * freq * latest \in Int /\ r * t + f * freq * Scale \in Int
    BY <1>2, <1>3
  <1>6. QED BY <1>4, <1>5

\* The least age, or 0 when there is none.
LEMMA LatestType ==
    ASSUME NEW ages \in Seq(Int), NEW decayed \in Seq(Int)
    PROVE  LatestDecay(ages, decayed) \in Int
  <1> DEFINE newest == {i \in DOMAIN ages : \A j \in DOMAIN ages : ages[i] <= ages[j]}
  <1>1. CASE newest = {} \/ Min(newest) \notin DOMAIN decayed
    BY <1>1 DEF LatestDecay
  <1>2. CASE Min(newest) \in DOMAIN decayed /\ newest # {}
    <2>1. LatestDecay(ages, decayed) = decayed[Min(newest)]
      BY <1>2 DEF LatestDecay
    <2> HIDE DEF newest
    <2>2. decayed[Min(newest)] \in Int
      BY <1>2
    <2>3. QED BY <2>1, <2>2
  <1>3. QED BY <1>1, <1>2

LEMMA ClassifyType ==
    ASSUME NEW profile, NEW needle, NEW dir
    PROVE  LET kind == Classify(profile, needle, dir)
           IN  kind \in Int /\ (kind # None => kind \in SubstringAnywhere..BasenameExact)
  <1>1. ClassifyRaw(needle, dir) \in {0, 1, 2, 3, 4, 5}
    BY DEF ClassifyRaw, KindOf, None, SubstringAnywhere, ComponentPrefix, BasenameSubsequence,
           BasenamePrefix, BasenameExact
  <1> DEFINE kind == Classify(profile, needle, dir)
  <1>2. kind \in {0, 1, 2, 3, 4, 5}
    BY <1>1 DEF Classify, None
  <1> HIDE DEF kind
  <1>3. kind \in Int /\ (kind # None => kind \in SubstringAnywhere..BasenameExact)
    BY <1>2 DEF None, SubstringAnywhere, BasenameExact
  <1>4. QED BY <1>3 DEF kind
-----------------------------------------------------------------------------
(* The working set is rows, whatever the phases.                              *)

Accs == [path : Dirs, discovered_only : BOOLEAN, freq : Nat, visits : Seq(Int),
         ages : Seq(Int), decayed : Seq(Int), score : Int]

LEMMA WeightedType ==
    ASSUME spec \in Specs, NEW kept \in Seq(Accs), NEW row \in Accs
    PROVE  Weighted(kept, row) \in Seq(Accs)
  <1> DEFINE kind == Classify(spec.matching, question.needle, row.path)
  <1>1. kind # None => kind \in SubstringAnywhere..BasenameExact
    BY ClassifyType
  <1>2. spec.matching.weight \in [SubstringAnywhere..BasenameExact -> Int]
    BY DEF Specs
  <1> DEFINE weight == spec.matching.weight
             more   == [row EXCEPT !.score = row.score * weight[kind]]
  <1>3. Weighted(kept, row) = IF kind = None THEN kept ELSE Append(kept, more)
    BY DEF Weighted
  <1> HIDE DEF kind, weight
  <1>4. kind # None => weight[kind] \in Int
    BY <1>1, <1>2 DEF weight
  <1>5. kind # None => more \in Accs
    <2> SUFFICES ASSUME kind # None PROVE more \in Accs
      OBVIOUS
    <2> DEFINE new == row.score * weight[kind]
    <2>1. row.score \in Int /\ weight[kind] \in Int
      BY <1>4 DEF Accs
    <2>2. new \in Int
      BY <2>1
    <2> HIDE DEF new
    <2>3. [row EXCEPT !.score = new] \in Accs
      BY <2>2 DEF Accs
    <2>4. QED BY <2>3 DEF new
  <1> HIDE DEF more
  <1>6. QED BY <1>3, <1>5

WeightedStep(s) == [p \in (1..Len(s)) \X Seq(Accs) |-> Weighted(p[2], s[p[1]])]

\* The rows that match, one after the other.
LEMMA WeightedRun ==
    ASSUME spec \in Specs, NEW s \in Seq(Accs)
    PROVE  \E a : /\ a \in [0..Len(s) -> Seq(Accs)] /\ a[0] = <<>>
                  /\ \A k \in 1..Len(s) : a[k] = Weighted(a[k - 1], s[k])
                  /\ FoldLeft(Weighted, <<>>, s) = a[Len(s)]
  <1> DEFINE n == Len(s)
             V == Seq(Accs)
             base == <<>>
             G == WeightedStep(s)
             body(h) == [t \in SUBSET (DOMAIN s) |->
                            IF t = {} THEN <<>> ELSE Weighted(h[t \ {Max(t)}], s[Max(t)])]
             iter == CHOOSE h : h = body(h)
  <1>1. n \in Nat /\ DOMAIN s = 1..n /\ \A k \in 1..n : s[k] \in Accs
    OBVIOUS
  <1>2. FoldLeft(Weighted, <<>>, s) = iter[DOMAIN s]
    BY DEF FoldLeft, MapThenFoldSet
  <1>3. G \in [(1..n) \X V -> V] /\ base \in V
    <2>1. \A p \in (1..n) \X V : Weighted(p[2], s[p[1]]) \in V
      BY <1>1, WeightedType
    <2>2. QED BY <2>1 DEF WeightedStep
  <1>4. \A k \in 1..n, c \in V : G[<<k, c>>] = Weighted(c, s[k])
    BY DEF WeightedStep
  <1>5. PICK h : IsFold(h, n, V, base, G)
    <2> HIDE DEF n, V, base, G
    <2>1. QED BY <1>1, <1>3, FoldExists
  <1>6. h = body(h)
    <2>1. ASSUME NEW t \in SUBSET (1..n), t # {}
          PROVE  h[t] = Weighted(h[t \ {Max(t)}], s[Max(t)])
      <3> HIDE DEF n, V, base, G
      <3>1. FoldsDown(h, n, V, G)
        BY <1>1, <1>5, FoldStep
      <3>2. /\ Max(t) \in 1..n /\ h[t \ {Max(t)}] \in V
            /\ h[t] = G[<<Max(t), h[t \ {Max(t)}]>>]
        BY <2>1, <3>1 DEF FoldsDown
      <3>3. QED BY <1>4, <3>2
    <2>2. h[{}] = base /\ h = [t \in SUBSET (1..n) |-> h[t]]
      BY <1>5 DEF IsFold
    <2>3. QED BY <1>1, <2>1, <2>2
  <1>7. iter = body(iter)
    BY <1>6
  <1> HIDE DEF iter
  <1>8. iter[{}] = base
    BY <1>7
  <1>9. ASSUME NEW k \in 1..n, iter[1..(k - 1)] \in V
        PROVE  iter[1..k] = G[<<k, iter[1..(k - 1)]>>]
    <2>1. Max(1..k) = k /\ (1..k) \ {k} = 1..(k - 1) /\ 1..k # {} /\ 1..k \in SUBSET DOMAIN s
      BY <1>1, MaxOfInterval
    <2>2. iter[1..k] = Weighted(iter[(1..k) \ {Max(1..k)}], s[Max(1..k)])
      BY <1>7, <2>1
    <2>3. QED BY <1>4, <1>9, <2>1, <2>2
  <1>10. RunsBy(iter, n, V, base, G)
    <2> HIDE DEF n, V, base, G
    <2>1. QED BY <1>3, <1>8, <1>9 DEF RunsBy
  <1> HIDE DEF n, V, base, G
  <1>11. PICK a : IsRun(a, n, V, base, G) /\ iter[1..n] = a[n]
    BY <1>1, <1>10, RunAlong
  <1>12. /\ a \in [0..n -> V] /\ a[0] = base
         /\ \A k \in 1..n : a[k] = G[<<k, a[k - 1]>>]
    BY <1>11 DEF IsRun
  <1>13. \A k \in 1..n : k - 1 \in 0..n /\ a[k - 1] \in V
    BY <1>1, <1>12
  <1>14. \A k \in 1..n : a[k] = Weighted(a[k - 1], s[k])
    BY <1>4, <1>12, <1>13
  <1>15. QED BY <1>1, <1>2, <1>11, <1>12, <1>14 DEF n, V, base

Kept == [rows : Seq(Accs), roots : Seq([path : Dirs, seen : Nat])]

LEMMA RetainType ==
    ASSUME NEW keep \in Nat, NEW kept \in Kept, NEW row \in Accs
    PROVE  Retain(kept, row, keep) \in Kept
  <1> DEFINE rows  == kept.rows
             roots == kept.roots
             above == {i \in DOMAIN roots : SameOrUnder(row.path, roots[i].path)}
             root  == Min(above)
             Roots == [path : Dirs, seen : Nat]
  <1>1. rows \in Seq(Accs) /\ roots \in Seq(Roots)
    BY DEF Kept
  <1>2. CASE above = {}
    <2>1. Retain(kept, row, keep) =
             [rows |-> Append(rows, row), roots |-> Append(roots, [path |-> row.path, seen |-> 0])]
      BY <1>2 DEF Retain
    <2>2. [path |-> row.path, seen |-> 0] \in Roots
      BY DEF Accs
    <2> HIDE DEF rows, roots, Roots
    <2>3. Append(rows, row) \in Seq(Accs) /\ Append(roots, [path |-> row.path, seen |-> 0]) \in Seq(Roots)
      BY <1>1, <2>2
    <2>4. QED BY <2>1, <2>3 DEF Kept, Roots
  <1>3. CASE above # {} /\ IsFull(roots[root], keep)
    BY <1>3 DEF Retain
  <1>4. CASE above # {} /\ ~IsFull(roots[root], keep)
    <2>1. above \subseteq Nat
      BY <1>1
    <2>2. root \in DOMAIN roots
      <3> DEFINE A == above
      <3>1. A \subseteq DOMAIN roots /\ root = Min(A)
        OBVIOUS
      <3> HIDE DEF A, root
      <3>2. root \in A
        BY <1>4, <2>1, <3>1, MinOf DEF A
      <3>3. QED BY <3>1, <3>2
    <2>3. Retain(kept, row, keep) =
             [rows |-> Append(rows, row), roots |-> [roots EXCEPT ![root].seen = roots[root].seen + 1]]
      BY <1>4 DEF Retain
    <2> DEFINE more == [roots[root] EXCEPT !.seen = roots[root].seen + 1]
    <2> DEFINE charged == [roots EXCEPT ![root].seen = roots[root].seen + 1]
    <2> HIDE DEF root, rows, roots, Roots
    <2>4. roots[root] \in Roots
      BY <1>1, <2>2
    <2>5. more \in Roots
      BY <2>4 DEF Roots
    <2>6. charged = [roots EXCEPT ![root] = more]
      BY <2>2
    <2> HIDE DEF more
    <2>7. charged \in Seq(Roots)
      BY <1>1, <2>2, <2>5, <2>6
    <2>8. Append(rows, row) \in Seq(Accs)
      BY <1>1
    <2>9. Retain(kept, row, keep) = [rows |-> Append(rows, row), roots |-> charged]
      BY <2>3
    <2> HIDE DEF charged
    <2>10. QED BY <2>7, <2>8, <2>9 DEF Kept, Roots
  <1>5. QED BY <1>2, <1>3, <1>4

RetainStep(s, keep) == [p \in (1..Len(s)) \X Kept |-> Retain(p[2], s[p[1]], keep)]

\* The rows and roots that are kept, one row after the other.
LEMMA RetainRun ==
    ASSUME NEW keep \in Nat, NEW s \in Seq(Accs)
    PROVE  \E a : /\ a \in [0..Len(s) -> Kept] /\ a[0] = [rows |-> <<>>, roots |-> <<>>]
                  /\ \A k \in 1..Len(s) : a[k] = Retain(a[k - 1], s[k], keep)
                  /\ Collapsed(s, keep) = a[Len(s)].rows
  <1> DEFINE n == Len(s)
             V == Kept
             base == [rows |-> <<>>, roots |-> <<>>]
             G == RetainStep(s, keep)
             body(h) == [t \in SUBSET (DOMAIN s) |->
                            IF t = {} THEN [rows |-> <<>>, roots |-> <<>>]
                            ELSE Retain(h[t \ {Max(t)}], s[Max(t)], keep)]
             iter == CHOOSE h : h = body(h)
  <1>1. n \in Nat /\ DOMAIN s = 1..n /\ \A k \in 1..n : s[k] \in Accs
    OBVIOUS
  <1>2. Collapsed(s, keep) = iter[DOMAIN s].rows
    BY DEF Collapsed, FoldLeft, MapThenFoldSet
  <1>3. G \in [(1..n) \X V -> V] /\ base \in V
    <2>1. \A p \in (1..n) \X V : Retain(p[2], s[p[1]], keep) \in V
      BY <1>1, RetainType
    <2>2. G \in [(1..n) \X V -> V]
      BY <2>1 DEF RetainStep
    <2>3. base \in V
      BY DEF Kept
    <2>4. QED BY <2>2, <2>3
  <1>4. \A k \in 1..n, c \in V : G[<<k, c>>] = Retain(c, s[k], keep)
    BY DEF RetainStep
  <1>5. PICK h : IsFold(h, n, V, base, G)
    <2> HIDE DEF n, V, base, G
    <2>1. QED BY <1>1, <1>3, FoldExists
  <1>6. h = body(h)
    <2>1. ASSUME NEW t \in SUBSET (1..n), t # {}
          PROVE  h[t] = Retain(h[t \ {Max(t)}], s[Max(t)], keep)
      <3> HIDE DEF n, V, base, G
      <3>1. FoldsDown(h, n, V, G)
        BY <1>1, <1>5, FoldStep
      <3>2. /\ Max(t) \in 1..n /\ h[t \ {Max(t)}] \in V
            /\ h[t] = G[<<Max(t), h[t \ {Max(t)}]>>]
        BY <2>1, <3>1 DEF FoldsDown
      <3>3. QED BY <1>4, <3>2
    <2>2. h[{}] = base /\ h = [t \in SUBSET (1..n) |-> h[t]]
      BY <1>5 DEF IsFold
    <2>3. QED BY <1>1, <2>1, <2>2
  <1>7. iter = body(iter)
    BY <1>6
  <1> HIDE DEF iter
  <1>8. iter[{}] = base
    BY <1>7
  <1>9. ASSUME NEW k \in 1..n, iter[1..(k - 1)] \in V
        PROVE  iter[1..k] = G[<<k, iter[1..(k - 1)]>>]
    <2>1. Max(1..k) = k /\ (1..k) \ {k} = 1..(k - 1) /\ 1..k # {} /\ 1..k \in SUBSET DOMAIN s
      BY <1>1, MaxOfInterval
    <2>2. iter[1..k] = Retain(iter[(1..k) \ {Max(1..k)}], s[Max(1..k)], keep)
      BY <1>7, <2>1
    <2>3. QED BY <1>4, <1>9, <2>1, <2>2
  <1>10. RunsBy(iter, n, V, base, G)
    <2> HIDE DEF n, V, base, G
    <2>1. QED BY <1>3, <1>8, <1>9 DEF RunsBy
  <1> HIDE DEF n, V, base, G
  <1>11. PICK a : IsRun(a, n, V, base, G) /\ iter[1..n] = a[n]
    BY <1>1, <1>10, RunAlong
  <1>12. /\ a \in [0..n -> V] /\ a[0] = base
         /\ \A k \in 1..n : a[k] = G[<<k, a[k - 1]>>]
    BY <1>11 DEF IsRun
  <1>13. \A k \in 1..n : k - 1 \in 0..n /\ a[k - 1] \in V
    BY <1>1, <1>12
  <1>14. \A k \in 1..n : a[k] = Retain(a[k - 1], s[k], keep)
    BY <1>4, <1>12, <1>13
  <1>15. QED BY <1>1, <1>2, <1>11, <1>12, <1>14 DEF n, V, base

RankingInv ==
    /\ next \in Nat \ {0} /\ loaded \in BOOLEAN
    /\ working \in Seq(Accs)
    /\ outcome \in {"none", "running", "error", "ok"}
    /\ outcome = "none" => next = 1 /\ ~loaded
    /\ outcome # "none" => question \in Questions

\* What is assumed of a question.
LEMMA QuestionIs ==
    ASSUME RankingInv, outcome # "none"
    PROVE  /\ spec \in Specs /\ question.limit \in Nat
           /\ question.entries \in Seq([path : Dirs, visits : Seq(Int), discovered_only : BOOLEAN])
           /\ \A i, j \in DOMAIN question.entries :
                 question.entries[i].path = question.entries[j].path => i = j
           /\ \A e \in ToSet(question.entries) : e.visits = <<>> => e.discovered_only
  BY QuestionsAssumption DEF RankingInv, spec

LEMMA MapType ==
    ASSUME NEW A, NEW B, NEW s \in Seq(A), NEW g \in [A -> B]
    PROVE  [i \in DOMAIN s |-> g[s[i]]] \in Seq(B)
  <1>1. Len(s) \in Nat /\ DOMAIN s = 1..Len(s) /\ \A i \in 1..Len(s) : s[i] \in A
    OBVIOUS
  <1>2. [i \in 1..Len(s) |-> g[s[i]]] \in [1..Len(s) -> B]
    BY <1>1
  <1>3. QED BY <1>1, <1>2

LEMMA LoadType ==
    ASSUME RankingInv, LoadEntries
    PROVE  working' = [i \in DOMAIN question.entries |-> Loaded(question.entries[i])]
           /\ working' \in Seq(Accs)
  <1> DEFINE E == [path : Dirs, visits : Seq(Int), discovered_only : BOOLEAN]
             g == [e \in E |-> Loaded(e)]
             s == question.entries
  <1>1. s \in Seq(E)
    BY QuestionIs DEF LoadEntries, Phase
  <1>2. ASSUME NEW e \in E PROVE Loaded(e) \in Accs
    <2>1. <<>> \in Seq(Int) /\ Len(e.visits) \in Nat
      OBVIOUS
    <2>2. QED BY <2>1 DEF Loaded, Accs
  <1>3. g \in [E -> Accs]
    BY <1>2
  <1>4. working' = [i \in DOMAIN s |-> Loaded(s[i])]
    BY DEF LoadEntries, Yields, Map
  <1> HIDE DEF E, s
  <1>5. [i \in DOMAIN s |-> Loaded(s[i])] = [i \in DOMAIN s |-> g[s[i]]]
    BY <1>1
  <1> HIDE DEF g
  <1>6. [i \in DOMAIN s |-> g[s[i]]] \in Seq(Accs)
    BY <1>1, <1>3, MapType
  <1>7. QED BY <1>4, <1>5, <1>6 DEF s

LEMMA AgeType ==
    ASSUME RankingInv, ComputeAge
    PROVE  /\ working' = [i \in DOMAIN working |-> [working[i] EXCEPT !.ages =
                             [v \in DOMAIN working[i].visits |-> Now - working[i].visits[v]]]]
           /\ working' \in Seq(Accs)
  <1> DEFINE g == [a \in Accs |-> [a EXCEPT !.ages =
                       [v \in DOMAIN a.visits |-> Now - a.visits[v]]]]
  <1>1. working \in Seq(Accs)
    BY DEF RankingInv
  <1>2. ASSUME NEW a \in Accs
        PROVE  [a EXCEPT !.ages = [v \in DOMAIN a.visits |-> Now - a.visits[v]]] \in Accs
    <2> DEFINE ages == [v \in DOMAIN a.visits |-> Now - a.visits[v]]
    <2>1. a.visits \in Seq(Int)
      BY DEF Accs
    <2>2. \A v \in DOMAIN a.visits : Now - a.visits[v] \in Int
      BY <2>1, RankingAssumption
    <2>3. ages \in Seq(Int)
      BY <2>1, <2>2
    <2> HIDE DEF ages
    <2>4. [a EXCEPT !.ages = ages] \in Accs
      BY <2>3 DEF Accs
    <2>5. QED BY <2>4 DEF ages
  <1>3. g \in [Accs -> Accs]
    BY <1>2
  <1>4. working' = [i \in DOMAIN working |-> [working[i] EXCEPT !.ages =
                       [v \in DOMAIN working[i].visits |-> Now - working[i].visits[v]]]]
    BY DEF ComputeAge, Yields, Map
  <1>5. working' = [i \in DOMAIN working |-> g[working[i]]]
    BY <1>1, <1>4
  <1> HIDE DEF g
  <1>6. [i \in DOMAIN working |-> g[working[i]]] \in Seq(Accs)
    BY <1>1, <1>3, MapType
  <1>7. QED BY <1>4, <1>5, <1>6

LEMMA DecayedType ==
    ASSUME RankingInv, ApplyDecay
    PROVE  /\ working' = [i \in DOMAIN working |-> [working[i] EXCEPT !.decayed =
                             [v \in DOMAIN working[i].ages |-> Decay(spec, working[i].ages[v])]]]
           /\ working' \in Seq(Accs)
  <1> DEFINE g == [a \in Accs |-> [a EXCEPT !.decayed =
                       [v \in DOMAIN a.ages |-> Decay(spec, a.ages[v])]]]
  <1>1. working \in Seq(Accs)
    BY DEF RankingInv
  <1>0. spec \in Specs
    BY QuestionIs DEF ApplyDecay, On, Phase
  <1>2. ASSUME NEW a \in Accs
        PROVE  [a EXCEPT !.decayed = [v \in DOMAIN a.ages |-> Decay(spec, a.ages[v])]] \in Accs
    <2> DEFINE decayed == [v \in DOMAIN a.ages |-> Decay(spec, a.ages[v])]
    <2>1. a.ages \in Seq(Int)
      BY DEF Accs
    <2>2. \A v \in DOMAIN a.ages : Decay(spec, a.ages[v]) \in Int
      BY <1>0, <2>1, DecayType
    <2>3. decayed \in Seq(Int)
      BY <2>1, <2>2
    <2> HIDE DEF decayed
    <2>4. [a EXCEPT !.decayed = decayed] \in Accs
      BY <2>3 DEF Accs
    <2>5. QED BY <2>4 DEF decayed
  <1>3. g \in [Accs -> Accs]
    BY <1>2
  <1>4. working' = [i \in DOMAIN working |-> [working[i] EXCEPT !.decayed =
                       [v \in DOMAIN working[i].ages |-> Decay(spec, working[i].ages[v])]]]
    BY DEF ApplyDecay, Yields, Map
  <1>5. working' = [i \in DOMAIN working |-> g[working[i]]]
    BY <1>1, <1>4
  <1> HIDE DEF g
  <1>6. [i \in DOMAIN working |-> g[working[i]]] \in Seq(Accs)
    BY <1>1, <1>3, MapType
  <1>7. QED BY <1>4, <1>5, <1>6

\* What Combine gives a row.
Combined(a) == CombineScore(spec, a.decayed, a.freq, LatestDecay(a.ages, a.decayed))

LEMMA CombinedType ==
    ASSUME RankingInv, Combine
    PROVE  /\ working' = [i \in DOMAIN working |-> [working[i] EXCEPT !.score = Combined(working[i])]]
           /\ working' \in Seq(Accs)
  <1> DEFINE g == [a \in Accs |-> [a EXCEPT !.score = Combined(a)]]
  <1>1. working \in Seq(Accs)
    BY DEF RankingInv
  <1>0. spec \in Specs
    BY QuestionIs DEF Combine, On, Phase
  <1>2. ASSUME NEW a \in Accs PROVE [a EXCEPT !.score = Combined(a)] \in Accs
    <2>1. a.ages \in Seq(Int) /\ a.decayed \in Seq(Int) /\ a.freq \in Nat
      BY DEF Accs
    <2>2. LatestDecay(a.ages, a.decayed) \in Int
      BY <2>1, LatestType
    <2>3. Combined(a) \in Int
      BY <1>0, <2>1, <2>2, CombineType DEF Combined
    <2>4. QED BY <2>3 DEF Accs
  <1>3. g \in [Accs -> Accs]
    BY <1>2
  <1>4. working' = [i \in DOMAIN working |-> [working[i] EXCEPT !.score = Combined(working[i])]]
    BY DEF Combine, Yields, Map, Combined
  <1>5. working' = [i \in DOMAIN working |-> g[working[i]]]
    BY <1>1, <1>4
  <1> HIDE DEF g
  <1>6. [i \in DOMAIN working |-> g[working[i]]] \in Seq(Accs)
    BY <1>1, <1>3, MapType
  <1>7. QED BY <1>4, <1>5, <1>6

LEMMA FloorType ==
    ASSUME RankingInv, FloorIndexed
    PROVE  /\ working' = [i \in DOMAIN working |->
                             IF working[i].discovered_only
                             THEN [working[i] EXCEPT !.score = spec.indexed_epsilon] ELSE working[i]]
           /\ working' \in Seq(Accs)
  <1> DEFINE g == [a \in Accs |-> IF a.discovered_only
                                  THEN [a EXCEPT !.score = spec.indexed_epsilon] ELSE a]
  <1>1. working \in Seq(Accs)
    BY DEF RankingInv
  <1>0. spec.indexed_epsilon \in Int
    BY QuestionIs DEF FloorIndexed, On, Phase, Specs
  <1>2. ASSUME NEW a \in Accs PROVE [a EXCEPT !.score = spec.indexed_epsilon] \in Accs
    BY <1>0 DEF Accs
  <1>3. g \in [Accs -> Accs]
    BY <1>2
  <1>4. working' = [i \in DOMAIN working |->
                       IF working[i].discovered_only
                       THEN [working[i] EXCEPT !.score = spec.indexed_epsilon] ELSE working[i]]
    BY DEF FloorIndexed, Yields, Map
  <1>5. working' = [i \in DOMAIN working |-> g[working[i]]]
    BY <1>1, <1>4
  <1> HIDE DEF g
  <1>6. [i \in DOMAIN working |-> g[working[i]]] \in Seq(Accs)
    BY <1>1, <1>3, MapType
  <1>7. QED BY <1>4, <1>5, <1>6

LEMMA WeighedType ==
    ASSUME RankingInv, MatchNeedle
    PROVE  /\ working' = IF question.needle.given THEN FoldLeft(Weighted, <<>>, working) ELSE working
           /\ working' \in Seq(Accs)
  <1>1. working \in Seq(Accs) /\ spec \in Specs
    BY QuestionIs DEF RankingInv, MatchNeedle, On, Phase
  <1>2. working' = IF question.needle.given THEN FoldLeft(Weighted, <<>>, working) ELSE working
    BY DEF MatchNeedle, Yields
  <1>3. PICK a : a \in [0..Len(working) -> Seq(Accs)] /\ FoldLeft(Weighted, <<>>, working) = a[Len(working)]
    BY <1>1, WeightedRun
  <1>4. a[Len(working)] \in Seq(Accs)
    BY <1>1, <1>3
  <1>5. QED BY <1>1, <1>2, <1>3, <1>4

\* Rows are ordered by score, then by path.
Scoring(a) == a.path \in Dirs /\ a.score \in Int

LEMMA PrecedesOrders ==
    ASSUME NEW a, NEW b, NEW c, Scoring(a), Scoring(b), Scoring(c)
    PROVE  /\ Precedes(a, b) => ~Precedes(b, a)
           /\ Precedes(a, b) /\ Precedes(b, c) => Precedes(a, c)
           /\ ~Precedes(a, b) /\ ~Precedes(b, a) => a.path = b.path /\ a.score = b.score
  <1> DEFINE sa == PathSize[a.path]  sb == PathSize[b.path]  sc == PathSize[c.path]
             oa == PathOrder[a.path]  ob == PathOrder[b.path]  oc == PathOrder[c.path]
             xa == a.score  xb == b.score  xc == c.score
  <1>1. sa \in Nat /\ sb \in Nat /\ sc \in Nat /\ oa \in Nat /\ ob \in Nat /\ oc \in Nat
    BY RankingAssumption DEF Scoring
  <1>2. xa \in Int /\ xb \in Int /\ xc \in Int
    BY DEF Scoring
  <1>3. oa = ob => a.path = b.path
    BY RankingAssumption DEF Scoring
  <1>4. /\ Precedes(a, b) <=> xa > xb \/ (xa = xb /\ sa < sb) \/ (xa = xb /\ sa = sb /\ oa < ob)
        /\ Precedes(b, a) <=> xb > xa \/ (xb = xa /\ sb < sa) \/ (xb = xa /\ sb = sa /\ ob < oa)
        /\ Precedes(b, c) <=> xb > xc \/ (xb = xc /\ sb < sc) \/ (xb = xc /\ sb = sc /\ ob < oc)
        /\ Precedes(a, c) <=> xa > xc \/ (xa = xc /\ sa < sc) \/ (xa = xc /\ sa = sc /\ oa < oc)
    BY DEF Precedes
  <1> HIDE DEF sa, sb, sc, oa, ob, oc, xa, xb, xc
  <1>5. Precedes(a, b) => ~Precedes(b, a)
    BY <1>1, <1>2, <1>4
  <1>6. Precedes(a, b) /\ Precedes(b, c) => Precedes(a, c)
    BY <1>1, <1>2, <1>4
  <1>7. ~Precedes(a, b) /\ ~Precedes(b, a) => oa = ob /\ xa = xb
    BY <1>1, <1>2, <1>4
  <1>8. QED BY <1>3, <1>5, <1>6, <1>7 DEF xa, xb

\* The sort's own order of the places of s.
RowOrder(s) ==
    {p \in (1..Len(s)) \X (1..Len(s)) :
        \/ Precedes(s[p[1]], s[p[2]])
        \/ p[1] < p[2] /\ ~Precedes(s[p[2]], s[p[1]])}

LEMMA RowOrderIsOrder ==
    ASSUME NEW s \in Seq(Accs)
    PROVE  IsOrder(RowOrder(s), Len(s))
  <1> DEFINE n == Len(s)
             R == RowOrder(s)
             P(i, j) == Precedes(s[i], s[j])
  <1>1. \A i \in 1..n : Scoring(s[i])
    <2>1. \A i \in 1..n : s[i] \in Accs
      OBVIOUS
    <2>2. \A a \in Accs : Scoring(a)
      BY DEF Scoring, Accs
    <2>3. QED BY <2>1, <2>2
  <1>2. \A i, j \in 1..n : <<i, j>> \in R <=> P(i, j) \/ (i < j /\ ~P(j, i))
    BY DEF RowOrder
  <1>3. \A i, j \in 1..n : P(i, j) => ~P(j, i)
    BY <1>1, PrecedesOrders
  <1>4. \A i, j, k \in 1..n : P(i, j) /\ P(j, k) => P(i, k)
    BY <1>1, PrecedesOrders
  <1>5. ASSUME NEW i \in 1..n, NEW j \in 1..n, NEW k \in 1..n, ~P(i, j), ~P(j, i)
        PROVE  (P(i, k) <=> P(j, k)) /\ (P(k, i) <=> P(k, j))
    <2>1. s[i].path = s[j].path /\ s[i].score = s[j].score
      BY <1>1, <1>5, PrecedesOrders
    <2>2. QED BY <2>1 DEF Precedes
  <1> HIDE DEF P, R
  <1>6. ASSUME NEW i \in 1..n, NEW j \in 1..n, <<i, j>> \in R PROVE <<j, i>> \notin R
    BY <1>2, <1>3, <1>6
  <1>7. ASSUME NEW i \in 1..n, NEW j \in 1..n, NEW k \in 1..n, <<i, j>> \in R, <<j, k>> \in R
        PROVE  <<i, k>> \in R
    <2>1. (P(i, j) \/ (i < j /\ ~P(j, i))) /\ (P(j, k) \/ (j < k /\ ~P(k, j)))
      BY <1>2, <1>7
    <2>2. CASE P(i, j) /\ P(j, k)
      BY <1>2, <1>4, <2>2
    <2>3. CASE P(i, j) /\ ~P(j, k) /\ ~P(k, j)
      BY <1>2, <1>5, <2>3
    <2>4. CASE ~P(i, j) /\ ~P(j, i) /\ P(j, k)
      BY <1>2, <1>5, <2>4
    <2>5. CASE ~P(i, j) /\ ~P(j, i) /\ ~P(j, k) /\ ~P(k, j)
      <3>1. i < j /\ j < k /\ ~P(k, i)
        BY <1>5, <2>1, <2>5
      <3>2. i < k
        BY <3>1
      <3>3. QED BY <1>2, <3>1, <3>2
    <2>6. QED BY <2>1, <2>2, <2>3, <2>4, <2>5
  <1>8. ASSUME NEW i \in 1..n, NEW j \in 1..n, i # j PROVE <<i, j>> \in R \/ <<j, i>> \in R
    <2>1. i < j \/ j < i
      BY <1>8
    <2>2. QED BY <1>2, <2>1
  <1>9. QED BY <1>6, <1>7, <1>8 DEF IsOrder, n, R

\* sort_by puts the rows in that order.
LEMMA SortArranges ==
    ASSUME NEW s \in Seq(Accs)
    PROVE  IsArranged(StableSort(s, Precedes), s, RowOrder(s), Len(s))
  <1> DEFINE n == Len(s)
             R == RowOrder(s)
             place(i) == Cardinality({j \in DOMAIN s \ {i} :
                            \/ Precedes(s[j], s[i])
                            \/ j < i /\ ~Precedes(s[i], s[j])}) + 1
  <1>1. n \in Nat /\ DOMAIN s = 1..n
    OBVIOUS
  <1>2. \A i \in 1..n : <<i, i>> \notin R
    BY RowOrderIsOrder DEF IsOrder
  <1>3. ASSUME NEW i \in 1..n PROVE place(i) = Places(R, n)[i]
    <2> DEFINE S == {j \in DOMAIN s \ {i} : Precedes(s[j], s[i]) \/ (j < i /\ ~Precedes(s[i], s[j]))}
    <2>1. \A j : j \in S <=> j \in 1..n /\ <<j, i>> \in R
      BY <1>1, <1>2 DEF RowOrder
    <2>2. S = Before(R, n, i)
      <3> HIDE DEF S, R, n
      <3>1. QED BY <2>1 DEF Before
    <2>3. Places(R, n)[i] = Cardinality(Before(R, n, i)) + 1
      BY DEF Places
    <2>4. place(i) = Cardinality(S) + 1
      OBVIOUS
    <2>5. QED BY <2>2, <2>3, <2>4
  <1> DEFINE sorts(k) == CHOOSE i \in 1..n : place(i) = k
             puts(k)  == CHOOSE i \in 1..n : Places(R, n)[i] = k
  <1>4. StableSort(s, Precedes) = [k \in 1..n |-> s[sorts(k)]]
    BY <1>1 DEF StableSort
  <1>5. \A k : sorts(k) = puts(k)
    <2> HIDE DEF place
    <2> SUFFICES ASSUME NEW k
                 PROVE  (CHOOSE i : i \in 1..n /\ place(i) = k) =
                        (CHOOSE i : i \in 1..n /\ Places(R, n)[i] = k)
      OBVIOUS
    <2>1. \A i : (i \in 1..n /\ place(i) = k) <=> (i \in 1..n /\ Places(R, n)[i] = k)
      BY <1>3
    <2>2. QED BY <2>1
  <1>6. Placed(s, R, n) = [k \in 1..n |-> s[puts(k)]]
    BY DEF Placed
  <1>7. IsOrder(R, n)
    BY RowOrderIsOrder
  <1> HIDE DEF sorts, puts, n, R
  <1>8. StableSort(s, Precedes) = Placed(s, R, n)
    BY <1>4, <1>5, <1>6
  <1>9. IsArranged(Placed(s, R, n), s, R, n)
    BY <1>1, <1>7, PlacedIsArranged
  <1>10. QED BY <1>8, <1>9 DEF n, R

LEMMA SortedType ==
    ASSUME RankingInv, SortDesc
    PROVE  /\ working' = StableSort(working, Precedes)
           /\ working' \in Seq(Accs)
  <1>1. working \in Seq(Accs)
    BY DEF RankingInv
  <1>2. working' = StableSort(working, Precedes)
    BY DEF SortDesc, Yields
  <1> DEFINE n == Len(working)
  <1>3. PICK from \in [1..n -> 1..n] : StableSort(working, Precedes) = [k \in 1..n |-> working[from[k]]]
    BY <1>1, SortArranges DEF IsArranged
  <1>4. n \in Nat /\ \A k \in 1..n : working[from[k]] \in Accs
    BY <1>1, <1>3
  <1> HIDE DEF n
  <1>5. [k \in 1..n |-> working[from[k]]] \in Seq(Accs)
    BY <1>4
  <1>6. QED BY <1>2, <1>3, <1>5

LEMMA FirstType ==
    ASSUME NEW S, NEW s \in Seq(S), NEW n \in Nat
    PROVE  LET m == IF Len(s) < n THEN Len(s) ELSE n
           IN  /\ FirstOf(s, n) \in Seq(S) /\ Len(FirstOf(s, n)) = m /\ m \in Nat /\ m <= Len(s)
               /\ \A i \in 1..m : FirstOf(s, n)[i] = s[i]
  BY DEF FirstOf

LEMMA PhaseIs ==
    ASSUME RankingInv, outcome # "none", NEW i \in DOMAIN spec.phases
    PROVE  /\ spec.phases \in Seq([kind : {"LoadEntries", "ComputeAge", "ApplyDecay", "Combine",
                                          "FloorIndexed", "MatchNeedle", "SortDesc"}]
                                  \cup [kind : {"CollapseDescendants"}, keep : Nat]
                                  \cup [kind : {"TopK"}, n : Nat])
           /\ spec.phases[i].kind = "CollapseDescendants" => spec.phases[i].keep \in Nat
           /\ spec.phases[i].kind = "TopK" => spec.phases[i].n \in Nat
  <1> DEFINE Plain == [kind : {"LoadEntries", "ComputeAge", "ApplyDecay", "Combine",
                              "FloorIndexed", "MatchNeedle", "SortDesc"}]
             Collapse == [kind : {"CollapseDescendants"}, keep : Nat]
             Top == [kind : {"TopK"}, n : Nat]
             T == Plain \cup Collapse \cup Top
  <1>1. spec.phases \in Seq(T)
    BY QuestionIs DEF Specs
  <1>2. \A p \in Plain : p.kind # "CollapseDescendants" /\ p.kind # "TopK"
    OBVIOUS
  <1>3. \A p \in Collapse : p.keep \in Nat /\ p.kind # "TopK"
    OBVIOUS
  <1>4. \A p \in Top : p.n \in Nat /\ p.kind # "CollapseDescendants"
    OBVIOUS
  <1> HIDE DEF Plain, Collapse, Top
  <1>5. spec.phases[i] \in Plain \cup Collapse \cup Top
    BY <1>1
  <1>6. QED BY <1>1, <1>2, <1>3, <1>4, <1>5 DEF Plain, Collapse, Top

LEMMA CollapsedType ==
    ASSUME RankingInv, CollapseDescendants
    PROVE  /\ next \in DOMAIN spec.phases /\ spec.phases[next].keep \in Nat
           /\ working' = IF question.needle.given THEN Collapsed(working, spec.phases[next].keep)
                         ELSE working
           /\ working' \in Seq(Accs)
  <1>1. working \in Seq(Accs)
    BY DEF RankingInv
  <1>2. outcome # "none" /\ spec.phases[next].kind = "CollapseDescendants" /\ next <= Len(spec.phases)
    BY DEF CollapseDescendants, On, Phase
  <1>3. next \in DOMAIN spec.phases
    BY <1>2, QuestionIs DEF RankingInv, Specs
  <1> DEFINE keep == spec.phases[next].keep
  <1>4. keep \in Nat
    BY <1>2, <1>3, PhaseIs
  <1>5. working' = IF question.needle.given THEN Collapsed(working, keep) ELSE working
    BY DEF CollapseDescendants, Yields
  <1> HIDE DEF keep
  <1>6. PICK a : a \in [0..Len(working) -> Kept] /\ Collapsed(working, keep) = a[Len(working)].rows
    BY <1>1, <1>4, RetainRun
  <1>7. a[Len(working)] \in Kept
    BY <1>1, <1>6
  <1>8. a[Len(working)].rows \in Seq(Accs)
    BY <1>7 DEF Kept
  <1>9. QED BY <1>1, <1>3, <1>4, <1>5, <1>6, <1>8 DEF keep

LEMMA CutType ==
    ASSUME RankingInv, TopK
    PROVE  /\ next \in DOMAIN spec.phases /\ spec.phases[next].n \in Nat
           /\ working' = FirstOf(working, spec.phases[next].n)
           /\ working' \in Seq(Accs)
  <1>1. working \in Seq(Accs)
    BY DEF RankingInv
  <1>2. outcome # "none" /\ spec.phases[next].kind = "TopK" /\ next <= Len(spec.phases)
    BY DEF TopK, On, Phase
  <1>3. next \in DOMAIN spec.phases
    BY <1>2, QuestionIs DEF RankingInv, Specs
  <1>4. spec.phases[next].n \in Nat
    BY <1>2, <1>3, PhaseIs
  <1>5. working' = FirstOf(working, spec.phases[next].n)
    BY DEF TopK, Yields
  <1>6. QED BY <1>1, <1>3, <1>4, <1>5, FirstType

\* Whatever the phases and their order, the working set stays rows.
LEMMA RankingStep == RankingInv /\ [Next]_vars => RankingInv'
  <1> SUFFICES ASSUME RankingInv, [Next]_vars PROVE RankingInv'
    OBVIOUS
  <1>0. next + 1 \in Nat \ {0}
    BY DEF RankingInv
  <1>1. CASE UNCHANGED vars
    BY <1>1 DEF RankingInv, vars
  <1>2. CASE Call
    BY <1>2 DEF Call, RankingInv
  <1>3. ASSUME outcome = "running", working' \in Seq(Accs), loaded' = TRUE, next' = next + 1,
               UNCHANGED <<question, outcome>>
        PROVE  RankingInv'
    BY <1>0, <1>3 DEF RankingInv
  <1>4. CASE LoadEntries
    BY <1>3, <1>4, LoadType DEF LoadEntries, Phase, Yields
  <1>5. CASE ComputeAge
    BY <1>3, <1>5, AgeType DEF ComputeAge, On, Phase, Yields
  <1>6. CASE ApplyDecay
    BY <1>3, <1>6, DecayedType DEF ApplyDecay, On, Phase, Yields
  <1>7. CASE Combine
    BY <1>3, <1>7, CombinedType DEF Combine, On, Phase, Yields
  <1>8. CASE FloorIndexed
    BY <1>3, <1>8, FloorType DEF FloorIndexed, On, Phase, Yields
  <1>9. CASE MatchNeedle
    BY <1>3, <1>9, WeighedType DEF MatchNeedle, On, Phase, Yields
  <1>10. CASE SortDesc
    BY <1>3, <1>10, SortedType DEF SortDesc, On, Phase, Yields
  <1>11. CASE CollapseDescendants
    BY <1>3, <1>11, CollapsedType DEF CollapseDescendants, On, Phase, Yields
  <1>12. CASE TopK
    BY <1>3, <1>12, CutType DEF TopK, On, Phase, Yields
  <1>13. CASE Refuse
    BY <1>13 DEF Refuse, RankingInv
  <1>14. CASE Take
    BY <1>14 DEF Take, RankingInv
  <1>15. QED BY <1>1, <1>2, <1>4, <1>5, <1>6, <1>7, <1>8, <1>9, <1>10, <1>11, <1>12, <1>13, <1>14
         DEF Next

LEMMA RankingStart == Init => RankingInv
  <1> SUFFICES ASSUME Init PROVE RankingInv
    OBVIOUS
  <1>1. next = 1 /\ loaded = FALSE /\ working = <<>> /\ outcome = "none"
    BY DEF Init
  <1>2. <<>> \in Seq(Accs) /\ 1 \in Nat \ {0}
    OBVIOUS
  <1>3. loaded \in BOOLEAN /\ ~loaded
    BY <1>1
  <1>4. next \in Nat \ {0} /\ working \in Seq(Accs)
    BY <1>1, <1>2
  <1>5. outcome # "running" /\ outcome = "none" /\ outcome \in {"none", "running", "error", "ok"}
    BY <1>1
  <1>6. QED BY <1>1, <1>3, <1>4, <1>5 DEF RankingInv
-----------------------------------------------------------------------------
(* One repository does not flood the answer.                                  *)

\* No row lies under an earlier one.
Apart(s) == \A i, j \in DOMAIN s : i < j => ~SameOrUnder(s[j].path, s[i].path)

\* What the retain loop has when it keeps nothing below a root: its roots are
\* the rows.
Trimmed(kept) ==
    /\ kept \in Kept /\ Len(kept.rows) = Len(kept.roots)
    /\ \A i \in 1..Len(kept.roots) :
          kept.roots[i].path = kept.rows[i].path /\ kept.roots[i].seen = 0
    /\ Apart(kept.rows)

LEMMA RetainTrims ==
    ASSUME NEW kept, NEW row \in Accs, Trimmed(kept)
    PROVE  Trimmed(Retain(kept, row, 0))
  <1> DEFINE rows  == kept.rows
             roots == kept.roots
             n     == Len(roots)
             above == {i \in DOMAIN roots : SameOrUnder(row.path, roots[i].path)}
             root  == Min(above)
             more  == [path |-> row.path, seen |-> 0]
  <1>1. /\ rows \in Seq(Accs) /\ roots \in Seq([path : Dirs, seen : Nat])
        /\ kept \in Kept
    BY DEF Trimmed, Kept
  <1>2. n \in Nat /\ DOMAIN roots = 1..n /\ DOMAIN rows = 1..n /\ Len(rows) = n
    BY <1>1 DEF Trimmed
  <1>3. \A i \in 1..n : roots[i].path = rows[i].path /\ roots[i].seen = 0
    BY DEF Trimmed
  <1>4. CASE above # {}
    <2>1. above \subseteq Nat
      BY <1>2
    <2>2. root \in above
      <3> DEFINE A == above
      <3> HIDE DEF A
      <3>1. A # {} /\ A \subseteq Nat /\ root = Min(A)
        BY <1>4, <2>1 DEF A
      <3>2. Min(A) \in A
        BY <3>1, MinOf
      <3>3. QED BY <3>1, <3>2 DEF A
    <2>3. roots[root].seen = 0
      BY <1>2, <1>3, <2>2
    <2>4. Retain(kept, row, 0) = kept
      BY <1>4, <2>3 DEF Retain, IsFull
    <2>5. QED BY <2>4
  <1>5. CASE above = {}
    <2> DEFINE rows2 == Append(rows, row)
               roots2 == Append(roots, more)
    <2>1. Retain(kept, row, 0) = [rows |-> rows2, roots |-> roots2]
      BY <1>5 DEF Retain
    <2>2. \A i \in 1..n : ~SameOrUnder(row.path, rows[i].path)
      BY <1>2, <1>3, <1>5
    <2>3. Apart(rows)
      BY DEF Trimmed
    <2>4. [rows |-> rows2, roots |-> roots2] \in Kept
      BY <2>1, <1>1, RetainType
    <2> HIDE DEF rows, roots, n, more
    <2>5. /\ Len(rows2) = n + 1 /\ DOMAIN rows2 = 1..(n + 1) /\ rows2[n + 1] = row
          /\ \A i \in 1..n : rows2[i] = rows[i]
      BY <1>1, <1>2
    <2>6. /\ Len(roots2) = n + 1 /\ roots2[n + 1] = more
          /\ \A i \in 1..n : roots2[i] = roots[i]
      BY <1>1, <1>2 DEF n
    <2>7. \A i \in 1..(n + 1) : i \in 1..n \/ i = n + 1
      BY <1>2
    <2>8. more.path = row.path /\ more.seen = 0
      BY DEF more
    <2> HIDE DEF rows2, roots2
    <2>9. \A i \in 1..(n + 1) : roots2[i].path = rows2[i].path /\ roots2[i].seen = 0
      BY <1>3, <2>5, <2>6, <2>7, <2>8
    <2>10. Apart(rows2)
      <3> SUFFICES ASSUME NEW i \in 1..(n + 1), NEW j \in 1..(n + 1), i < j
                   PROVE  ~SameOrUnder(rows2[j].path, rows2[i].path)
        BY <2>5 DEF Apart
      <3>1. i \in 1..n
        BY <1>2
      <3>2. CASE j = n + 1
        BY <2>2, <2>5, <3>1, <3>2
      <3>3. CASE j \in 1..n
        BY <1>2, <2>3, <2>5, <3>1, <3>3 DEF Apart
      <3>4. QED BY <2>7, <3>2, <3>3
    <2>11. QED BY <2>1, <2>4, <2>5, <2>6, <2>9, <2>10 DEF Trimmed
  <1>6. QED BY <1>4, <1>5

\* Collapsing with keep 0 leaves no row under an earlier one.
LEMMA CollapsedApart ==
    ASSUME NEW s \in Seq(Accs)
    PROVE  Apart(Collapsed(s, 0))
  <1> DEFINE n == Len(s)
  <1>1. PICK a : /\ a \in [0..n -> Kept] /\ a[0] = [rows |-> <<>>, roots |-> <<>>]
                 /\ \A k \in 1..n : a[k] = Retain(a[k - 1], s[k], 0)
                 /\ Collapsed(s, 0) = a[n].rows
    BY RetainRun
  <1> DEFINE P == {k \in Nat : k <= n => Trimmed(a[k])}
  <1>2. 0 \in P
    <2>1. a[0] \in Kept /\ a[0].rows = <<>> /\ a[0].roots = <<>>
      BY <1>1
    <2>2. Trimmed(a[0])
      BY <2>1 DEF Trimmed, Apart
    <2>3. QED BY <2>2
  <1>3. ASSUME NEW k \in Nat, k \in P PROVE k + 1 \in P
    <2> SUFFICES ASSUME k + 1 <= n PROVE Trimmed(a[k + 1])
      OBVIOUS
    <2>1. k + 1 \in 1..n /\ (k + 1) - 1 = k /\ Trimmed(a[k]) /\ s[k + 1] \in Accs
      BY <1>3
    <2>2. a[k + 1] = Retain(a[k], s[k + 1], 0)
      BY <1>1, <2>1
    <2>3. QED BY <2>1, <2>2, RetainTrims
  <1>4. n \in Nat /\ n <= n
    OBVIOUS
  <1> HIDE DEF P, n
  <1>5. n \in P
    BY <1>2, <1>3, <1>4, Induction
  <1>6. Trimmed(a[n])
    BY <1>4, <1>5 DEF P
  <1>7. QED BY <1>1, <1>6 DEF Trimmed

LEMMA FirstApart ==
    ASSUME NEW S, NEW s \in Seq(S), NEW n \in Nat, Apart(s)
    PROVE  Apart(FirstOf(s, n))
  <1> DEFINE m == IF Len(s) < n THEN Len(s) ELSE n
             t == FirstOf(s, n)
  <1>1. /\ t \in Seq(S) /\ Len(t) = m /\ m \in Nat /\ m <= Len(s)
        /\ \A i \in 1..m : t[i] = s[i]
    BY FirstType
  <1>2. DOMAIN t = 1..m /\ \A i \in 1..m : i \in DOMAIN s
    BY <1>1
  <1> HIDE DEF m, t
  <1>3. Apart(t)
    BY <1>1, <1>2 DEF Apart
  <1>4. QED BY <1>3 DEF t

\* A collapse is behind the next phase.
Collapsing == \E i \in DOMAIN spec.phases :
                  i < next /\ spec.phases[i].kind = "CollapseDescendants"

FloodInv ==
    /\ RankingInv
    /\ outcome = "running" /\ question.needle.given /\ Collapsing => Apart(working)
    /\ outcome = "ok" /\ Collapses => Apart(ranked)

LEMMA FloodStep ==
    ASSUME \A q \in Questions : CollapsesLast(q.spec.phases), FloodInv, [Next]_vars
    PROVE  FloodInv'
  <1>0. RankingInv /\ RankingInv'
    BY RankingStep DEF FloodInv
  <1>1. CASE UNCHANGED vars
    BY <1>0, <1>1 DEF FloodInv, vars, Collapsing, Collapses, spec
  <1>2. CASE Call
    <2>1. next' = 1 /\ outcome' = "running"
      BY <1>2 DEF Call, FloodInv, RankingInv
    <2>2. CASE ~Collapsing'
      BY <1>0, <2>1, <2>2 DEF FloodInv
    <2>3. CASE Collapsing'
      <3>1. PICK i \in DOMAIN spec'.phases : i < 1
        BY <2>1, <2>3 DEF Collapsing
      <3>2. spec'.phases \in Seq([kind : {"LoadEntries", "ComputeAge", "ApplyDecay", "Combine",
                                          "FloorIndexed", "MatchNeedle", "SortDesc"}]
                                  \cup [kind : {"CollapseDescendants"}, keep : Nat]
                                  \cup [kind : {"TopK"}, n : Nat])
        BY <1>2, QuestionsAssumption DEF Call, spec, Specs
      <3>3. QED BY <3>1, <3>2
    <2>4. QED BY <2>2, <2>3
  <1>3. ASSUME outcome = "running", next' = next + 1, UNCHANGED <<question, outcome>>,
               next \in DOMAIN spec.phases,
               question.needle.given /\ Collapsing /\ Apart(working) /\ spec.phases[next].kind = "TopK"
                   => Apart(working'),
               question.needle.given /\ spec.phases[next].kind = "CollapseDescendants"
                   /\ spec.phases[next].keep = 0 => Apart(working')
        PROVE  FloodInv'
    <2>1. CollapsesLast(spec.phases)
      BY <1>0, <1>3 DEF spec, RankingInv
    <2>2. spec' = spec
      BY <1>3 DEF spec
    <2>3. outcome' # "ok"
      BY <1>3
    <2>4. ASSUME question.needle.given, Collapsing' PROVE Apart(working')
      <3>1. PICK i \in DOMAIN spec.phases : i < next + 1 /\ spec.phases[i].kind = "CollapseDescendants"
        BY <1>3, <2>2, <2>4 DEF Collapsing
      <3>2. i \in Int /\ next \in Int
        BY <1>0, <1>3, PhaseIs DEF RankingInv
      <3>3. CASE i = next
        BY <1>3, <2>1, <2>4, <3>1, <3>3 DEF CollapsesLast
      <3>4. CASE i < next
        <4>1. Collapsing /\ spec.phases[next].kind = "TopK"
          BY <1>3, <2>1, <3>1, <3>4 DEF CollapsesLast, Collapsing
        <4>2. Apart(working)
          BY <1>3, <2>4, <4>1 DEF FloodInv
        <4>3. QED BY <1>3, <2>4, <4>1, <4>2
      <3>5. QED BY <3>1, <3>2, <3>3, <3>4
    <2>5. question' = question
      BY <1>3
    <2>6. QED BY <1>0, <2>3, <2>4, <2>5 DEF FloodInv
  <1>4. ASSUME NEW kind, Phase(kind) \/ On(kind) PROVE next \in DOMAIN spec.phases /\ outcome = "running"
                                                     /\ spec.phases[next].kind = kind
    <2>1. outcome = "running" /\ next <= Len(spec.phases) /\ spec.phases[next].kind = kind
      BY <1>4 DEF On, Phase
    <2>2. QED BY <1>0, <2>1, QuestionIs DEF RankingInv, Specs
  <1>5. CASE LoadEntries \/ ComputeAge \/ ApplyDecay \/ Combine \/ FloorIndexed \/ MatchNeedle \/ SortDesc
    <2>1. /\ next' = next + 1 /\ UNCHANGED <<question, outcome>>
          /\ \E kind \in {"LoadEntries", "ComputeAge", "ApplyDecay", "Combine", "FloorIndexed",
                          "MatchNeedle", "SortDesc"} : Phase(kind) \/ On(kind)
      BY <1>5 DEF LoadEntries, ComputeAge, ApplyDecay, Combine, FloorIndexed, MatchNeedle, SortDesc,
         Yields
    <2>2. QED BY <1>3, <1>4, <2>1
  <1>6. CASE CollapseDescendants
    <2>1. /\ next' = next + 1 /\ UNCHANGED <<question, outcome>> /\ On("CollapseDescendants")
      BY <1>6 DEF CollapseDescendants, Yields
    <2>2. working \in Seq(Accs)
      BY <1>0 DEF RankingInv
    <2>3. question.needle.given /\ spec.phases[next].keep = 0 => Apart(working')
      BY <1>0, <1>6, <2>2, CollapsedType, CollapsedApart
    <2>4. QED BY <1>3, <1>4, <2>1, <2>3
  <1>7. CASE TopK
    <2>1. /\ next' = next + 1 /\ UNCHANGED <<question, outcome>> /\ On("TopK")
      BY <1>7 DEF TopK, Yields
    <2>2. working \in Seq(Accs)
      BY <1>0 DEF RankingInv
    <2>3. Apart(working) => Apart(working')
      BY <1>0, <1>7, <2>2, CutType, FirstApart
    <2>4. QED BY <1>3, <1>4, <2>1, <2>3
  <1>8. CASE Refuse
    <2>1. outcome' = "error"
      BY <1>8 DEF Refuse
    <2>2. QED BY <1>0, <2>1 DEF FloodInv
  <1>9. CASE Take
    <2>1. outcome = "running" /\ next > Len(spec.phases) /\ outcome' = "ok" /\ question' = question
      BY <1>9 DEF Take
    <2> DEFINE t == [i \in DOMAIN working |-> [path |-> working[i].path, score |-> working[i].score]]
    <2>2. ranked' = FirstOf(t, question.limit)
      BY <1>9 DEF Take, Taken, Map
    <2>3. working \in Seq(Accs) /\ question.limit \in Nat
      BY <1>0, <2>1, QuestionIs DEF RankingInv
    <2>4. ASSUME Collapses' PROVE Apart(working)
      <3>1. question.needle.given /\ \E i \in DOMAIN spec.phases :
                                         spec.phases[i].kind = "CollapseDescendants"
        BY <2>1, <2>4 DEF Collapses, spec
      <3>2. next \in Nat /\ \A i \in DOMAIN spec.phases : i <= Len(spec.phases) /\ i \in Nat
                         /\ Len(spec.phases) \in Nat
        BY <1>0, <2>1, PhaseIs DEF RankingInv
      <3>3. Collapsing
        BY <2>1, <3>1, <3>2 DEF Collapsing
      <3>4. QED BY <2>1, <3>1, <3>3 DEF FloodInv
    <2>5. t \in Seq([path : Dirs, score : Int])
      <3>1. \A i \in DOMAIN working : working[i] \in Accs
        BY <2>3
      <3>2. \A i \in DOMAIN working : t[i] \in [path : Dirs, score : Int]
        BY <3>1 DEF Accs
      <3>3. DOMAIN working = 1..Len(working) /\ Len(working) \in Nat
        BY <2>3
      <3>4. t = [i \in 1..Len(working) |-> t[i]]
        BY <3>3
      <3> HIDE DEF t
      <3>5. QED BY <3>2, <3>3, <3>4
    <2>6. Apart(working) => Apart(t)
      BY DEF Apart
    <2> HIDE DEF t
    <2>7. Collapses' => Apart(ranked')
      BY <2>2, <2>3, <2>4, <2>5, <2>6, FirstApart
    <2>8. QED BY <1>0, <2>1, <2>7 DEF FloodInv
  <1>10. QED BY <1>1, <1>2, <1>5, <1>6, <1>7, <1>8, <1>9 DEF Next

\* Whatever the rows, the needle and the limit: under a spec whose collapse comes
\* last no row of the answer lies under a better one.
THEOREM NoFloodAtLast ==
    ASSUME \A q \in Questions : CollapsesLast(q.spec.phases)
    PROVE  Spec => []NoFlood
  <1>1. Init => FloodInv
    BY RankingStart DEF Init, FloodInv
  <1>2. FloodInv /\ [Next]_vars => FloodInv'
    BY FloodStep
  <1>3. FloodInv => NoFlood
    BY DEF FloodInv, NoFlood, Apart
  <1>4. QED BY <1>1, <1>2, <1>3, PTL DEF Spec
-----------------------------------------------------------------------------
(* The answer is the best first.                                              *)

\* What ComputeAge and ApplyDecay give the row of a store's row.
AgesOf(e) == [v \in DOMAIN e.visits |-> Now - e.visits[v]]
DecayedOf(e) == [v \in DOMAIN e.visits |-> Decay(spec, Now - e.visits[v])]

Clamped(h) == IF h < 0 THEN 0 ELSE h

LEMMA DecayClamps ==
    ASSUME NEW s, NEW h \in Int
    PROVE  Decay(s, Clamped(h)) = Decay(s, h)
  BY DEF Decay, Clamped

\* A sequence of integers that is not empty has a least one.
LEMMA LeastOfSeq ==
    ASSUME NEW s \in Seq(Int), s # <<>>
    PROVE  \E i \in DOMAIN s : \A j \in DOMAIN s : s[i] <= s[j]
  <1> DEFINE n == Len(s)
             IsLeast(k, i) == i \in 1..k /\ \A j \in 1..k : s[i] <= s[j]
             P == {k \in Nat : k + 1 <= n => \E i : IsLeast(k + 1, i)}
  <1>1. n \in Nat \ {0} /\ DOMAIN s = 1..n /\ \A i \in 1..n : s[i] \in Int
    OBVIOUS
  <1> HIDE DEF n
  <1>2. 0 \in P
    <2>1. n >= 1 /\ s[1] \in Int /\ \A j \in 1..(0 + 1) : j = 1
      BY <1>1
    <2>2. IsLeast(0 + 1, 1)
      BY <2>1
    <2> HIDE DEF IsLeast
    <2>3. QED BY <2>2
  <1>3. ASSUME NEW k \in Nat, k \in P PROVE k + 1 \in P
    <2> DEFINE l == k + 1  m == (k + 1) + 1
    <2>1. SUFFICES ASSUME m <= n PROVE \E i : IsLeast(m, i)
      <3> HIDE DEF IsLeast
      <3>1. QED OBVIOUS
    <2>2. PICK i : IsLeast(l, i)
      <3> HIDE DEF IsLeast
      <3>1. l <= n
        BY <1>1, <2>1
      <3>2. QED BY <1>3, <3>1
    <2>3. i \in 1..l /\ \A j \in 1..l : s[i] <= s[j]
      BY <2>2
    <2>4. m \in 1..n /\ i \in 1..m /\ m \in 1..m /\ \A j \in 1..m : j \in 1..l \/ j = m
      BY <1>1, <2>1, <2>3
    <2>5. s[i] \in Int /\ s[m] \in Int /\ \A j \in 1..l : s[j] \in Int
      BY <1>1, <2>1, <2>3, <2>4
    <2> HIDE DEF m, l
    <2>6. CASE s[i] <= s[m]
      <3>1. IsLeast(m, i)
        BY <2>3, <2>4, <2>6
      <3> HIDE DEF IsLeast
      <3>2. QED BY <3>1
    <2>7. CASE s[m] < s[i]
      <3>1. \A j \in 1..m : s[m] <= s[j]
        BY <2>3, <2>4, <2>5, <2>7
      <3>2. IsLeast(m, m)
        BY <2>4, <3>1
      <3> HIDE DEF IsLeast
      <3>3. QED BY <3>2
    <2>8. QED BY <2>5, <2>6, <2>7
  <1> HIDE DEF P
  <1>4. n - 1 \in Nat /\ n - 1 \in P /\ (n - 1) + 1 = n
    <2>1. Nat \subseteq P
      BY <1>2, <1>3, Induction
    <2>2. n - 1 \in Nat /\ (n - 1) + 1 = n
      BY <1>1
    <2>3. QED BY <2>1, <2>2
  <1>5. \E i : IsLeast(n, i)
    <2> HIDE DEF IsLeast
    <2>1. QED BY <1>1, <1>4 DEF P
  <1>6. QED BY <1>1, <1>5

\* The decayed weight that Combine multiplies by is that of the least age.
LEMMA LatestIs ==
    ASSUME NEW ages \in Seq(Int), NEW decayed \in Seq(Int), ages # <<>>,
           DOMAIN decayed = DOMAIN ages
    PROVE  \E i \in DOMAIN ages : /\ \A j \in DOMAIN ages : ages[i] <= ages[j]
                                  /\ LatestDecay(ages, decayed) = decayed[i]
  <1> DEFINE newest == {i \in DOMAIN ages : \A j \in DOMAIN ages : ages[i] <= ages[j]}
             A == newest
  <1>1. A # {} /\ A \subseteq DOMAIN ages
    BY LeastOfSeq
  <1>2. A \subseteq Nat
    OBVIOUS
  <1>3. LatestDecay(ages, decayed) = IF A = {} \/ Min(A) \notin DOMAIN decayed THEN 0 ELSE decayed[Min(A)]
    BY DEF LatestDecay
  <1>4. \A i \in A : \A j \in DOMAIN ages : ages[i] <= ages[j]
    OBVIOUS
  <1> HIDE DEF newest, A
  <1>5. Min(A) \in A
    BY <1>1, <1>2, MinOf
  <1>6. QED BY <1>1, <1>3, <1>4, <1>5

Entries == [path : Dirs, visits : Seq(Int), discovered_only : BOOLEAN]

\* Combine gives a visited row what its visits are worth.
LEMMA CombinedIsWorth ==
    ASSUME spec \in Specs, NEW e \in Entries, e.visits # <<>>
    PROVE  CombineScore(spec, DecayedOf(e), Len(e.visits), LatestDecay(AgesOf(e), DecayedOf(e)))
              = VisitScore(e)
  <1> DEFINE visits  == e.visits
             ages    == AgesOf(e)
             decayed == DecayedOf(e)
             now     == [v \in DOMAIN visits |-> IF visits[v] > Now THEN 0 ELSE Now - visits[v]]
             soon    == [v \in DOMAIN now |-> Decay(spec, now[v])]
  <1>1. /\ visits \in Seq(Int) /\ visits # <<>> /\ Now \in Int
        /\ DOMAIN visits = 1..Len(visits) /\ Len(visits) \in Nat \ {0}
        /\ \A v \in DOMAIN visits : visits[v] \in Int
    BY RankingAssumption DEF Entries
  <1>2. /\ ages = [v \in DOMAIN visits |-> Now - visits[v]]
        /\ decayed = [v \in DOMAIN visits |-> Decay(spec, Now - visits[v])]
    BY DEF AgesOf, DecayedOf
  <1>3. VisitScore(e) = CombineScore(spec, soon, Len(visits),
                            IF now = <<>> THEN 0 ELSE Decay(spec, Min(ToSet(now))))
    BY DEF VisitScore, Map
  <1> HIDE DEF visits, ages, decayed
  <1>4. \A v \in DOMAIN visits : Now - visits[v] \in Int /\ now[v] = Clamped(Now - visits[v]) /\ now[v] \in Nat
    BY <1>1 DEF Clamped
  <1>5. DOMAIN now = DOMAIN visits /\ now # <<>>
    BY <1>1
  <1>6. \A v \in DOMAIN visits : Decay(spec, now[v]) = Decay(spec, Now - visits[v])
    <2> HIDE DEF now
    <2>1. QED BY <1>4, DecayClamps
  <1>7. soon = decayed
    BY <1>2, <1>5, <1>6
  <1>8. ages \in Seq(Int) /\ ages # <<>> /\ DOMAIN ages = DOMAIN visits
        /\ \A v \in DOMAIN visits : ages[v] = Now - visits[v]
    <2>1. \A v \in DOMAIN visits : Now - visits[v] \in Int
      BY <1>1
    <2>2. ages \in Seq(Int) /\ DOMAIN ages = DOMAIN visits
      BY <1>1, <1>2, <2>1
    <2>3. ages # <<>>
      BY <1>1, <2>2
    <2>4. QED BY <1>2, <2>2, <2>3
  <1>9. decayed \in Seq(Int) /\ DOMAIN decayed = DOMAIN ages
        /\ \A v \in DOMAIN visits : decayed[v] = Decay(spec, Now - visits[v])
    <2>1. \A v \in DOMAIN visits : Decay(spec, Now - visits[v]) \in Int
      BY <1>4, DecayType
    <2>2. QED BY <1>1, <1>2, <2>1
  <1>10. PICK i \in DOMAIN ages : /\ \A j \in DOMAIN ages : ages[i] <= ages[j]
                                  /\ LatestDecay(ages, decayed) = decayed[i]
    BY <1>8, <1>9, LatestIs
  <1> DEFINE N == ToSet(now)
  <1>11. N \subseteq Nat /\ now[i] \in N /\ \A x \in N : now[i] <= x
    <2>1. N = {now[v] : v \in DOMAIN now}
      BY DEF ToSet
    <2>2. \A v \in DOMAIN visits : now[i] <= now[v]
      <3> SUFFICES ASSUME NEW v \in DOMAIN visits PROVE now[i] <= now[v]
        OBVIOUS
      <3>1. ages[i] <= ages[v] /\ ages[i] \in Int /\ ages[v] \in Int
        BY <1>4, <1>8, <1>10
      <3>2. now[i] = Clamped(ages[i]) /\ now[v] = Clamped(ages[v])
        BY <1>4, <1>8, <1>10
      <3> HIDE DEF now
      <3>3. QED BY <3>1, <3>2 DEF Clamped
    <2> HIDE DEF now, N
    <2>3. QED BY <1>4, <1>5, <1>8, <1>10, <2>1, <2>2
  <1> HIDE DEF N, now, soon
  <1>12. Min(N) = now[i]
    <2>1. Min(N) \in N /\ \A y \in N : Min(N) <= y
      BY <1>11, MinOf
    <2>2. Min(N) \in Nat /\ now[i] \in Nat /\ Min(N) <= now[i] /\ now[i] <= Min(N)
      BY <1>11, <2>1
    <2>3. QED BY <2>2
  <1>13. Decay(spec, Min(N)) = LatestDecay(ages, decayed)
    BY <1>6, <1>8, <1>9, <1>10, <1>12
  <1>14. QED BY <1>3, <1>5, <1>7, <1>13 DEF N, visits, ages, decayed

\* What a row of the working set is before phase k of the shipped pipelines, of
\* the store's row e.
IsRowOf(a, e, k) ==
    /\ a.path = e.path /\ a.discovered_only = e.discovered_only
    /\ a.freq = Len(e.visits) /\ a.visits = e.visits
    /\ k > 2 => a.ages = AgesOf(e)
    /\ k > 3 => a.decayed = DecayedOf(e)
    /\ k > 4 /\ ~e.discovered_only => a.score = VisitScore(e)
    /\ k > 5 /\ e.discovered_only => a.score = spec.indexed_epsilon

AreRowsAt(k) ==
    /\ DOMAIN working = DOMAIN question.entries
    /\ \A i \in DOMAIN working : IsRowOf(working[i], question.entries[i], k)

\* A phase that changes every row by itself.
LEMMA RowsFollow ==
    ASSUME RankingInv, NEW k, AreRowsAt(k), UNCHANGED question,
           DOMAIN working' = DOMAIN working,
           \A i \in DOMAIN working : IsRowOf(working[i], question.entries[i], k)
                                        => IsRowOf(working'[i], question.entries[i], k + 1)
    PROVE  AreRowsAt(k + 1)'
  <1>1. spec' = spec
    BY DEF spec
  <1>2. \A e : VisitScore(e)' = VisitScore(e)
    BY <1>1 DEF VisitScore, Map
  <1>3. \A e : DecayedOf(e)' = DecayedOf(e) /\ AgesOf(e)' = AgesOf(e)
    BY <1>1 DEF DecayedOf, AgesOf
  <1>4. \A a, e, l : IsRowOf(a, e, l)' <=> IsRowOf(a, e, l)
    BY <1>1, <1>2, <1>3 DEF IsRowOf
  <1>5. QED BY <1>4 DEF AreRowsAt

LEMMA RowsLoaded ==
    ASSUME RankingInv, LoadEntries
    PROVE  AreRowsAt(2)'
  <1>1. working' = [i \in DOMAIN question.entries |-> Loaded(question.entries[i])]
    BY LoadType
  <1>2. question' = question
    BY DEF LoadEntries, Yields
  <1>3. \A e : IsRowOf(Loaded(e), e, 2)'
    BY DEF IsRowOf, Loaded
  <1>4. QED BY <1>1, <1>2, <1>3 DEF AreRowsAt

LEMMA RowsAged ==
    ASSUME RankingInv, ComputeAge, AreRowsAt(2)
    PROVE  AreRowsAt(3)'
  <1> DEFINE aged(a) == [a EXCEPT !.ages = [v \in DOMAIN a.visits |-> Now - a.visits[v]]]
  <1>1. working' = [i \in DOMAIN working |-> aged(working[i])] /\ working \in Seq(Accs)
    BY AgeType DEF RankingInv
  <1>2. question' = question
    BY DEF ComputeAge, Yields
  <1>3. ASSUME NEW a \in Accs, NEW e, IsRowOf(a, e, 2) PROVE IsRowOf(aged(a), e, 2 + 1)
    BY <1>3 DEF IsRowOf, AgesOf, Accs
  <1> HIDE DEF aged
  <1>4. \A i \in DOMAIN working : working[i] \in Accs
    BY <1>1
  <1>5. AreRowsAt(2 + 1)'
    BY <1>1, <1>2, <1>3, <1>4, RowsFollow
  <1>6. 2 + 1 = 3
    OBVIOUS
  <1>7. QED BY <1>5, <1>6

LEMMA RowsDecayed ==
    ASSUME RankingInv, ApplyDecay, AreRowsAt(3)
    PROVE  AreRowsAt(4)'
  <1> DEFINE decayed(a) == [a EXCEPT !.decayed = [v \in DOMAIN a.ages |-> Decay(spec, a.ages[v])]]
  <1>1. working' = [i \in DOMAIN working |-> decayed(working[i])] /\ working \in Seq(Accs)
    BY DecayedType DEF RankingInv
  <1>2. question' = question
    BY DEF ApplyDecay, Yields
  <1>3. ASSUME NEW a \in Accs, NEW e, IsRowOf(a, e, 3) PROVE IsRowOf(decayed(a), e, 3 + 1)
    <2>1. a.ages = AgesOf(e)
      BY <1>3 DEF IsRowOf
    <2>2. [v \in DOMAIN a.ages |-> Decay(spec, a.ages[v])] = DecayedOf(e)
      BY <2>1 DEF AgesOf, DecayedOf
    <2>3. decayed(a) = [a EXCEPT !.decayed = DecayedOf(e)]
      BY <2>2
    <2> HIDE DEF decayed
    <2>4. QED BY <1>3, <2>3 DEF IsRowOf, Accs
  <1> HIDE DEF decayed
  <1>4. \A i \in DOMAIN working : working[i] \in Accs
    BY <1>1
  <1>5. AreRowsAt(3 + 1)'
    BY <1>1, <1>2, <1>3, <1>4, RowsFollow
  <1>6. 3 + 1 = 4
    OBVIOUS
  <1>7. QED BY <1>5, <1>6

LEMMA RowsCombined ==
    ASSUME RankingInv, Combine, AreRowsAt(4)
    PROVE  AreRowsAt(5)'
  <1> DEFINE combined(a) == [a EXCEPT !.score = Combined(a)]
             entries == question.entries
  <1>1. working' = [i \in DOMAIN working |-> combined(working[i])] /\ working \in Seq(Accs)
    BY CombinedType DEF RankingInv
  <1>2. question' = question /\ outcome # "none"
    BY DEF Combine, On, Phase, Yields
  <1>3. ASSUME NEW a \in Accs, NEW e \in Entries, e.visits = <<>> => e.discovered_only,
               IsRowOf(a, e, 4)
        PROVE  IsRowOf(combined(a), e, 4 + 1)
    <2>1. a.ages = AgesOf(e) /\ a.decayed = DecayedOf(e) /\ a.freq = Len(e.visits)
      BY <1>3 DEF IsRowOf
    <2>2. spec \in Specs
      BY <1>2, QuestionIs
    <2>3. ~e.discovered_only => Combined(a) = VisitScore(e)
      BY <1>3, <2>1, <2>2, CombinedIsWorth DEF Combined
    <2> DEFINE c == Combined(a)
    <2>4. combined(a) = [a EXCEPT !.score = c] /\ (~e.discovered_only => c = VisitScore(e))
      BY <2>3
    <2> HIDE DEF combined, c
    <2>5. QED BY <1>3, <2>4 DEF IsRowOf, Accs
  <1> HIDE DEF combined
  <1>4. \A i \in DOMAIN working : /\ working[i] \in Accs /\ entries[i] \in Entries
                                  /\ entries[i].visits = <<>> => entries[i].discovered_only
    <2>1. DOMAIN working = DOMAIN entries
      BY DEF AreRowsAt
    <2>2. entries \in Seq(Entries) /\ \A e \in ToSet(entries) : e.visits = <<>> => e.discovered_only
      BY <1>2, QuestionIs DEF Entries
    <2>3. \A i \in DOMAIN entries : entries[i] \in ToSet(entries)
      BY DEF ToSet
    <2> HIDE DEF entries
    <2>4. QED BY <1>1, <2>1, <2>2, <2>3
  <1>5. AreRowsAt(4 + 1)'
    BY <1>1, <1>2, <1>3, <1>4, RowsFollow
  <1>6. 4 + 1 = 5
    OBVIOUS
  <1>7. QED BY <1>5, <1>6

LEMMA RowsFloored ==
    ASSUME RankingInv, FloorIndexed, AreRowsAt(5)
    PROVE  AreRowsAt(6)'
  <1> DEFINE floored(a) == IF a.discovered_only THEN [a EXCEPT !.score = spec.indexed_epsilon] ELSE a
  <1>1. working' = [i \in DOMAIN working |-> floored(working[i])] /\ working \in Seq(Accs)
    BY FloorType DEF RankingInv
  <1>2. question' = question
    BY DEF FloorIndexed, Yields
  <1>3. ASSUME NEW a \in Accs, NEW e, IsRowOf(a, e, 5) PROVE IsRowOf(floored(a), e, 5 + 1)
    BY <1>3 DEF IsRowOf, Accs
  <1> HIDE DEF floored
  <1>4. \A i \in DOMAIN working : working[i] \in Accs
    BY <1>1
  <1>5. AreRowsAt(5 + 1)'
    BY <1>1, <1>2, <1>3, <1>4, RowsFollow
  <1>6. 5 + 1 = 6
    OBVIOUS
  <1>7. QED BY <1>5, <1>6

View(a) == [path |-> a.path, score |-> a.score]
Distinct(w) == \A i, j \in DOMAIN w : w[i].path = w[j].path => i = j

\* The rows are the candidates, each once.
AreCandidates(w) ==
    /\ Distinct(w)
    /\ \A i \in DOMAIN w : View(w[i]) \in Candidates
    /\ \A c \in Candidates : \E i \in DOMAIN w : View(w[i]) = c

KindAt(p) == Classify(spec.matching, question.needle, p)
WeighedView(a) == [path |-> a.path, score |-> a.score * spec.matching.weight[KindAt(a.path)]]

\* What the loop has kept of the first k rows of s: those that match, weighted.
Weighs(kept, s, k) ==
    /\ kept \in Seq(Accs)
    /\ \A x \in DOMAIN kept : \E i \in 1..k :
          KindAt(s[i].path) # None /\ View(kept[x]) = WeighedView(s[i])
    /\ \A i \in 1..k : KindAt(s[i].path) # None =>
          \E x \in DOMAIN kept : View(kept[x]) = WeighedView(s[i])
    /\ Distinct(kept)

LEMMA WeighsStep ==
    ASSUME spec \in Specs, NEW s \in Seq(Accs), Distinct(s), NEW k \in Nat, k + 1 <= Len(s),
           NEW kept, Weighs(kept, s, k)
    PROVE  Weighs(Weighted(kept, s[k + 1]), s, k + 1)
  <1> DEFINE l    == k + 1
             row  == s[l]
             more == [row EXCEPT !.score = row.score * spec.matching.weight[KindAt(row.path)]]
             new  == Append(kept, more)
             n    == Len(kept)
             kind == KindAt(row.path)
  <1>1. /\ l \in 1..Len(s) /\ row \in Accs /\ Len(s) \in Nat /\ DOMAIN s = 1..Len(s)
        /\ \A i \in 1..l : i \in 1..k \/ i = l
        /\ \A i \in 1..k : i \in 1..l /\ i # l /\ i \in 1..Len(s)
    OBVIOUS
  <1>2. Weighted(kept, row) = IF kind = None THEN kept ELSE new
    BY DEF Weighted, KindAt
  <1>3. Weighted(kept, row) \in Seq(Accs)
    BY <1>1, WeightedType DEF Weighs
  <1>4. /\ kept \in Seq(Accs) /\ Distinct(kept)
        /\ \A x \in DOMAIN kept : \E i \in 1..k :
              KindAt(s[i].path) # None /\ View(kept[x]) = WeighedView(s[i])
        /\ \A i \in 1..k : KindAt(s[i].path) # None =>
              \E x \in DOMAIN kept : View(kept[x]) = WeighedView(s[i])
    BY DEF Weighs
  <1>5. CASE kind = None
    <2> HIDE DEF row, more, new, l
    <2>1. \A i \in 1..l : KindAt(s[i].path) # None => i \in 1..k
      BY <1>1, <1>5 DEF row
    <2>2. QED BY <1>1, <1>2, <1>3, <1>4, <1>5, <2>1 DEF Weighs, l, row
  <1>6. CASE kind # None
    <2>1. View(more) = WeighedView(row) /\ more.path = row.path
      BY <1>1 DEF View, WeighedView, Accs
    <2> HIDE DEF row, more, l
    <2>2. /\ n \in Nat /\ DOMAIN kept = 1..n /\ DOMAIN new = 1..(n + 1) /\ new[n + 1] = more
          /\ \A x \in 1..n : new[x] = kept[x] /\ x \in 1..(n + 1)
          /\ \A x \in 1..(n + 1) : x \in 1..n \/ x = n + 1
          /\ n + 1 \in 1..(n + 1)
      BY <1>4
    <2> HIDE DEF new, n
    <2>3. \A x \in DOMAIN new : \E i \in 1..l :
             KindAt(s[i].path) # None /\ View(new[x]) = WeighedView(s[i])
      <3> SUFFICES ASSUME NEW x \in 1..(n + 1)
                   PROVE  \E i \in 1..l : KindAt(s[i].path) # None /\ View(new[x]) = WeighedView(s[i])
        BY <2>2
      <3>1. CASE x = n + 1
        <4>1. l \in 1..l
          BY <1>1
        <4>2. QED BY <1>6, <2>1, <2>2, <3>1, <4>1 DEF row
      <3>2. CASE x \in 1..n
        BY <1>1, <1>4, <2>2, <3>2
      <3>3. QED BY <2>2, <3>1, <3>2
    <2>4. \A i \in 1..l : KindAt(s[i].path) # None =>
             \E x \in DOMAIN new : View(new[x]) = WeighedView(s[i])
      BY <1>1, <1>4, <2>1, <2>2 DEF row
    <2>5. \A x \in 1..n : kept[x].path # row.path
      <3> SUFFICES ASSUME NEW x \in 1..n PROVE kept[x].path # row.path
        OBVIOUS
      <3>1. PICK i \in 1..k : View(kept[x]) = WeighedView(s[i])
        BY <1>4, <2>2
      <3>2. kept[x].path = s[i].path
        BY <3>1 DEF View, WeighedView
      <3>3. s[i].path # s[l].path
        BY <1>1 DEF Distinct
      <3>4. QED BY <3>2, <3>3 DEF row
    <2>6. Distinct(new)
      BY <1>4, <2>1, <2>2, <2>5 DEF Distinct
    <2>7. QED BY <1>2, <1>3, <1>6, <2>3, <2>4, <2>6 DEF Weighs, row, l
  <1>7. QED BY <1>5, <1>6

LEMMA WeightedAll ==
    ASSUME spec \in Specs, NEW s \in Seq(Accs), Distinct(s)
    PROVE  Weighs(FoldLeft(Weighted, <<>>, s), s, Len(s))
  <1> DEFINE n == Len(s)
             all == FoldLeft(Weighted, <<>>, s)
  <1>1. PICK a : /\ a \in [0..n -> Seq(Accs)] /\ a[0] = <<>>
                 /\ \A k \in 1..n : a[k] = Weighted(a[k - 1], s[k])
                 /\ all = a[n]
    BY WeightedRun
  <1> HIDE DEF all
  <1> DEFINE P == {k \in Nat : k <= n => Weighs(a[k], s, k)}
  <1>2. 0 \in P
    <2>1. Weighs(<<>>, s, 0)
      BY DEF Weighs, Distinct
    <2>2. QED BY <1>1, <2>1
  <1>3. ASSUME NEW k \in Nat, k \in P PROVE k + 1 \in P
    <2> SUFFICES ASSUME k + 1 <= n PROVE Weighs(a[k + 1], s, k + 1)
      OBVIOUS
    <2>1. k + 1 \in 1..n /\ (k + 1) - 1 = k /\ Weighs(a[k], s, k)
      BY <1>3
    <2>2. a[k + 1] = Weighted(a[k], s[k + 1])
      BY <1>1, <2>1
    <2>3. QED BY <2>1, <2>2, WeighsStep
  <1>4. n \in Nat /\ n <= n
    OBVIOUS
  <1> HIDE DEF P, n
  <1>5. n \in P
    BY <1>2, <1>3, <1>4, Induction
  <1>6. Weighs(all, s, n)
    BY <1>1, <1>4, <1>5 DEF P
  <1>7. QED BY <1>6 DEF all, n

Suits(e) == question.needle.given => KindAt(e.path) # None

LEMMA CandidateIs ==
    ASSUME NEW c
    PROVE  c \in Candidates <=> \E i \in DOMAIN question.entries :
                                   /\ Suits(question.entries[i])
                                   /\ c = [path |-> question.entries[i].path,
                                           score |-> Worth(question.entries[i])]
  BY DEF Candidates, Suits, KindAt, ToSet

\* MatchNeedle leaves the candidates.
LEMMA RowsMatched ==
    ASSUME RankingInv, outcome # "none", AreRowsAt(6)
    PROVE  AreCandidates(IF question.needle.given THEN FoldLeft(Weighted, <<>>, working) ELSE working)
  <1> DEFINE entries == question.entries
             s == working
             base(e) == IF e.discovered_only THEN spec.indexed_epsilon ELSE VisitScore(e)
  <1>1. s \in Seq(Accs) /\ spec \in Specs /\ entries \in Seq(Entries)
        /\ \A i, j \in DOMAIN entries : entries[i].path = entries[j].path => i = j
    BY QuestionIs DEF RankingInv, Entries
  <1>2. /\ DOMAIN s = DOMAIN entries
        /\ \A i \in DOMAIN s : s[i].path = entries[i].path /\ s[i].score = base(entries[i])
                               /\ s[i].score \in Int
    <2>1. \A i \in DOMAIN s : s[i] \in Accs /\ entries[i] \in Entries
      BY <1>1 DEF AreRowsAt
    <2>2. \A i \in DOMAIN s : s[i].score \in Int
      BY <2>1 DEF Accs
    <2>3. QED BY <2>2 DEF AreRowsAt, IsRowOf
  <1>3. Distinct(s)
    BY <1>1, <1>2 DEF Distinct
  <1>4. \A e : Worth(e) = base(e) * (IF question.needle.given
                                     THEN spec.matching.weight[KindAt(e.path)] ELSE 1)
    BY DEF Worth, KindAt
  <1> HIDE DEF base, entries, s
  <1>5. CASE ~question.needle.given
    <2>1. \A i \in DOMAIN s : View(s[i]) = [path |-> entries[i].path, score |-> Worth(entries[i])]
      BY <1>2, <1>4, <1>5 DEF View
    <2>2. \A i \in DOMAIN s : Suits(entries[i])
      BY <1>5 DEF Suits
    <2>3. \A i \in DOMAIN s : View(s[i]) \in Candidates
      BY <1>2, <2>1, <2>2, CandidateIs DEF entries
    <2>4. ASSUME NEW c \in Candidates PROVE \E i \in DOMAIN s : View(s[i]) = c
      <3>1. PICK i \in DOMAIN entries : c = [path |-> entries[i].path, score |-> Worth(entries[i])]
        BY CandidateIs DEF entries
      <3>2. QED BY <1>2, <2>1, <3>1
    <2>5. AreCandidates(s)
      BY <1>3, <2>3, <2>4 DEF AreCandidates
    <2>6. QED BY <1>5, <2>5 DEF s
  <1>6. CASE question.needle.given
    <2> DEFINE all == FoldLeft(Weighted, <<>>, s)
               n == Len(s)
    <2>1. Weighs(all, s, n)
      BY <1>1, <1>3, WeightedAll
    <2>2. \A i \in DOMAIN s : WeighedView(s[i]) = [path |-> entries[i].path, score |-> Worth(entries[i])]
      BY <1>2, <1>4, <1>6 DEF WeighedView
    <2>3. \A i \in DOMAIN s : KindAt(s[i].path) # None <=> Suits(entries[i])
      BY <1>2, <1>6 DEF Suits
    <2>4. DOMAIN s = 1..n
      BY <1>1
    <2> HIDE DEF all, n
    <2>5. \A x \in DOMAIN all : View(all[x]) \in Candidates
      BY <1>2, <2>1, <2>2, <2>3, <2>4, CandidateIs DEF Weighs, entries
    <2>6. \A c \in Candidates : \E x \in DOMAIN all : View(all[x]) = c
      <3> SUFFICES ASSUME NEW c \in Candidates PROVE \E x \in DOMAIN all : View(all[x]) = c
        OBVIOUS
      <3>1. PICK i \in DOMAIN entries : /\ Suits(entries[i])
                                        /\ c = [path |-> entries[i].path, score |-> Worth(entries[i])]
        BY CandidateIs DEF entries
      <3>2. i \in 1..n /\ KindAt(s[i].path) # None /\ c = WeighedView(s[i])
        BY <1>2, <2>2, <2>3, <2>4, <3>1
      <3>3. QED BY <2>1, <3>2 DEF Weighs
    <2>7. AreCandidates(all)
      BY <2>1, <2>5, <2>6 DEF AreCandidates, Weighs
    <2>8. QED BY <1>6, <2>7 DEF all, s
  <1>7. QED BY <1>5, <1>6

Ordered(w) == \A i, j \in DOMAIN w : i < j => Precedes(w[i], w[j])

\* SortDesc puts them in order: no two are of one path, so none is level with
\* another.
LEMMA RowsSorted ==
    ASSUME NEW s \in Seq(Accs), AreCandidates(s)
    PROVE  LET t == StableSort(s, Precedes)
           IN  AreCandidates(t) /\ Ordered(t)
  <1> DEFINE n == Len(s)
             t == StableSort(s, Precedes)
  <1>1. n \in Nat /\ DOMAIN s = 1..n /\ \A i \in 1..n : s[i] \in Accs
    OBVIOUS
  <1>2. PICK from \in [1..n -> 1..n] :
           /\ t = [k \in 1..n |-> s[from[k]]]
           /\ \A i \in 1..n : \E k \in 1..n : from[k] = i
           /\ \A k, l \in 1..n : k < l => <<from[k], from[l]>> \in RowOrder(s)
    BY SortArranges DEF IsArranged
  <1> HIDE DEF n, t
  <1>3. DOMAIN t = 1..n /\ \A k \in 1..n : t[k] = s[from[k]] /\ from[k] \in 1..n
    BY <1>2
  <1>4. ASSUME NEW k \in 1..n, NEW l \in 1..n, k < l
        PROVE  from[k] # from[l] /\ Precedes(t[k], t[l])
    <2> DEFINE a == s[from[k]]
               b == s[from[l]]
               R == RowOrder(s)
    <2>1. <<from[k], from[l]>> \in R /\ from[k] \in 1..n /\ from[l] \in 1..n
      BY <1>2, <1>4
    <2>2. Precedes(a, b) \/ (from[k] < from[l] /\ ~Precedes(b, a))
      BY <2>1 DEF RowOrder, n
    <2>3. from[k] # from[l]
      <3>1. IsOrder(R, n)
        BY RowOrderIsOrder DEF n
      <3> HIDE DEF R
      <3>2. QED BY <2>1, <3>1 DEF IsOrder
    <2>4. a.path # b.path
      BY <1>1, <2>1, <2>3 DEF AreCandidates, Distinct
    <2>5. Scoring(a) /\ Scoring(b)
      BY <1>1, <2>1 DEF Scoring, Accs
    <2> HIDE DEF a, b
    <2>6. Precedes(a, b)
      BY <2>2, <2>4, <2>5, PrecedesOrders
    <2>7. QED BY <1>3, <2>3, <2>6 DEF a, b
  <1>5. Ordered(t)
    BY <1>3, <1>4 DEF Ordered
  <1>6. Distinct(t)
    <2> SUFFICES ASSUME NEW k \in 1..n, NEW l \in 1..n, t[k].path = t[l].path PROVE k = l
      BY <1>3 DEF Distinct
    <2>1. from[k] = from[l]
      <3>1. /\ from[k] \in DOMAIN s /\ from[l] \in DOMAIN s
            /\ s[from[k]].path = s[from[l]].path
        BY <1>1, <1>3
      <3>2. QED BY <3>1 DEF AreCandidates, Distinct
    <2>2. ~(k < l) /\ ~(l < k)
      BY <1>4, <2>1
    <2>3. QED BY <1>1, <2>2
  <1>7. \A k \in 1..n : View(t[k]) \in Candidates
    BY <1>1, <1>3 DEF AreCandidates
  <1>8. ASSUME NEW c \in Candidates PROVE \E k \in 1..n : View(t[k]) = c
    BY <1>1, <1>2, <1>3, <1>8 DEF AreCandidates
  <1>9. AreCandidates(t) /\ Ordered(t)
    BY <1>3, <1>5, <1>6, <1>7, <1>8 DEF AreCandidates
  <1>10. QED BY <1>9 DEF t

\* The best of the candidates: R are the cuts it has been through, and a
\* candidate may lie below a better row of it when it is trimmed.
IsBest(w, R, form) ==
    /\ \A c \in Candidates : Scoring(c)
    /\ \A i \in DOMAIN w : View(w[i]) \in Candidates
    /\ \A n \in R : Len(w) <= n
    /\ Ordered(w)
    /\ \A c \in Candidates :
          \/ \E i \in DOMAIN w : View(w[i]) = c
          \/ Len(w) \in R /\ \A i \in DOMAIN w : Precedes(w[i], c)
          \/ form = "trimmed" /\ \E i \in DOMAIN w : Precedes(w[i], c) /\ StrictlyUnder(c.path, w[i].path)

LEMMA PrecedesViews ==
    ASSUME NEW a, NEW b
    PROVE  Precedes(a, View(b)) = Precedes(a, b)
  BY DEF Precedes, View

LEMMA SortedIsBest ==
    ASSUME NEW w \in Seq(Accs), AreCandidates(w), Ordered(w)
    PROVE  IsBest(w, {}, "whole")
  <1>1. \A i \in DOMAIN w : Scoring(View(w[i]))
    <2>1. \A i \in DOMAIN w : w[i] \in Accs
      OBVIOUS
    <2>2. QED BY <2>1 DEF Scoring, View, Accs
  <1>2. \A c \in Candidates : Scoring(c)
    BY <1>1 DEF AreCandidates
  <1>3. QED BY <1>2 DEF IsBest, AreCandidates

\* Cutting the best leaves the best there is room for.
LEMMA CutIsBest ==
    ASSUME NEW S, NEW w \in Seq(S), \A a \in S : Scoring(a), NEW R \in SUBSET Nat, NEW form,
           NEW n \in Nat, IsBest(w, R, form)
    PROVE  IsBest(FirstOf(w, n), R \cup {n}, form)
  <1> DEFINE m == IF Len(w) < n THEN Len(w) ELSE n
             l == Len(w)
             t == FirstOf(w, n)
  <1>1. /\ t \in Seq(S) /\ Len(t) = m /\ m \in Nat /\ m <= l /\ l \in Nat
        /\ \A i \in 1..m : t[i] = w[i]
    BY FirstType
  <1>2. /\ DOMAIN t = 1..m /\ DOMAIN w = 1..l /\ \A i \in 1..m : i \in 1..l
        /\ \A i \in 1..l : Scoring(w[i])
    BY <1>1
  <1>3. m <= n /\ (m = l \/ (m = n /\ m < l))
    BY <1>1
  <1> HIDE DEF m, t, l
  <1>4. /\ \A c \in Candidates : Scoring(c)
        /\ \A i \in 1..l : View(w[i]) \in Candidates
        /\ \A k \in R : l <= k
        /\ \A i, j \in 1..l : i < j => Precedes(w[i], w[j])
    BY <1>2 DEF IsBest, Ordered, l
  <1>5. ASSUME NEW c \in Candidates
        PROVE  \/ \E i \in 1..m : View(t[i]) = c
               \/ m \in R \cup {n} /\ \A i \in 1..m : Precedes(t[i], c)
               \/ form = "trimmed" /\ \E i \in 1..m : Precedes(t[i], c) /\ StrictlyUnder(c.path, t[i].path)
    <2>1. ASSUME NEW i \in 1..l, i \notin 1..m, View(w[i]) = c \/ Precedes(w[i], c)
          PROVE  m \in R \cup {n} /\ \A j \in 1..m : Precedes(t[j], c)
      <3>1. i > m /\ m = n
        BY <1>1, <1>3, <2>1
      <3>2. ASSUME NEW j \in 1..m PROVE Precedes(w[j], c)
        <4>1. Precedes(w[j], w[i]) /\ j \in 1..l
          BY <1>1, <1>2, <1>4, <3>1
        <4>2. CASE View(w[i]) = c
          BY <4>1, <4>2, PrecedesViews
        <4>3. CASE Precedes(w[i], c)
          <5>1. Scoring(w[i]) /\ Scoring(w[j]) /\ Scoring(c)
            BY <1>2, <1>4, <4>1
          <5>2. QED BY <4>1, <4>3, <5>1, PrecedesOrders
        <4>4. QED BY <2>1, <4>2, <4>3
      <3>3. QED BY <1>1, <3>1, <3>2
    <2>2. CASE \E i \in 1..l : View(w[i]) = c
      <3>1. PICK i \in 1..l : View(w[i]) = c
        BY <2>2
      <3>2. CASE i \in 1..m
        BY <1>1, <3>1, <3>2
      <3>3. QED BY <2>1, <3>1, <3>2
    <2>3. CASE l \in R /\ \A i \in 1..l : Precedes(w[i], c)
      <3>1. \A i \in 1..m : Precedes(t[i], c)
        BY <1>1, <1>2, <2>3
      <3>2. m \in R \cup {n}
        BY <1>3, <2>3
      <3>3. QED BY <3>1, <3>2
    <2>4. CASE form = "trimmed" /\ \E i \in 1..l : Precedes(w[i], c) /\ StrictlyUnder(c.path, w[i].path)
      <3>1. PICK i \in 1..l : Precedes(w[i], c) /\ StrictlyUnder(c.path, w[i].path)
        BY <2>4
      <3>2. CASE i \in 1..m
        BY <1>1, <2>4, <3>1, <3>2
      <3>3. QED BY <2>1, <3>1, <3>2
    <2>5. \/ \E i \in 1..l : View(w[i]) = c
          \/ l \in R /\ \A i \in 1..l : Precedes(w[i], c)
          \/ form = "trimmed" /\ \E i \in 1..l : Precedes(w[i], c) /\ StrictlyUnder(c.path, w[i].path)
      BY <1>2 DEF IsBest, l
    <2>6. QED BY <2>2, <2>3, <2>4, <2>5
  <1>6. \A i \in 1..m : View(t[i]) \in Candidates
    BY <1>1, <1>2, <1>4
  <1>7. Ordered(t)
    BY <1>1, <1>2, <1>4 DEF Ordered
  <1>8. \A k \in R \cup {n} : m <= k
    <2> SUFFICES ASSUME NEW k \in R \cup {n} PROVE m <= k
      OBVIOUS
    <2>1. CASE k = n
      BY <1>3, <2>1
    <2>2. CASE k \in R
      BY <1>1, <1>4, <2>2
    <2>3. QED BY <2>1, <2>2
  <1>9. IsBest(t, R \cup {n}, form)
    BY <1>1, <1>2, <1>4, <1>5, <1>6, <1>7, <1>8 DEF IsBest
  <1>10. QED BY <1>9 DEF t

LEMMA UnderStrictly ==
    ASSUME NEW p \in Dirs, NEW r \in Dirs, SameOrUnder(p, r), p # r
    PROVE  StrictlyUnder(p, r)
  <1>1. p \in Seq(ToSet(p)) /\ r \in Seq(ToSet(r))
    BY RankingAssumption
  <1>2. /\ Len(p) \in Nat /\ Len(r) \in Nat
        /\ p = [i \in 1..Len(p) |-> p[i]] /\ r = [i \in 1..Len(r) |-> r[i]]
    BY <1>1
  <1>3. Len(r) <= Len(p) /\ \A i \in 1..Len(r) : p[i] = r[i]
    BY DEF SameOrUnder
  <1>4. Len(r) # Len(p)
    <2> SUFFICES ASSUME Len(r) = Len(p) PROVE FALSE
      OBVIOUS
    <2> DEFINE n == Len(p)
    <2>1. Len(r) = n /\ p = [i \in 1..n |-> p[i]] /\ r = [i \in 1..n |-> r[i]]
          /\ \A i \in 1..n : p[i] = r[i]
      BY <1>2, <1>3
    <2> HIDE DEF n
    <2>2. p = r
      BY <2>1
    <2>3. QED BY <2>2
  <1> DEFINE lp == Len(p)  lr == Len(r)
  <1>5. lp \in Nat /\ lr \in Nat /\ lr <= lp /\ lr # lp
    BY <1>2, <1>3, <1>4
  <1> HIDE DEF lp, lr
  <1>6. lr < lp
    BY <1>5
  <1>7. QED BY <1>6 DEF StrictlyUnder, lp, lr

\* A row of s is kept, or lies below one that is kept and precedes it.
IsKept(rows, row) ==
    \/ \E x \in DOMAIN rows : rows[x] = row
    \/ \E x \in DOMAIN rows : Precedes(rows[x], row) /\ StrictlyUnder(row.path, rows[x].path)

\* What the retain loop has kept of the first k rows of s.
Keeps(kept, s, k) ==
    /\ Trimmed(kept)
    /\ \A x \in DOMAIN kept.rows : \E i \in 1..k : kept.rows[x] = s[i]
    /\ Ordered(kept.rows)
    /\ \A i \in 1..k : IsKept(kept.rows, s[i])

LEMMA KeepsStep ==
    ASSUME NEW s \in Seq(Accs), Distinct(s), Ordered(s), NEW k \in Nat, k + 1 <= Len(s),
           NEW kept, Keeps(kept, s, k)
    PROVE  Keeps(Retain(kept, s[k + 1], 0), s, k + 1)
  <1> DEFINE l     == k + 1
             row   == s[l]
             rows  == kept.rows
             roots == kept.roots
             n     == Len(roots)
             above == {i \in DOMAIN roots : SameOrUnder(row.path, roots[i].path)}
             root  == Min(above)
             next2 == Retain(kept, row, 0)
  <1>1. /\ l \in 1..Len(s) /\ row \in Accs /\ Len(s) \in Nat /\ DOMAIN s = 1..Len(s)
        /\ \A i \in 1..l : i \in 1..k \/ i = l
        /\ \A i \in 1..k : i \in 1..l /\ i < l /\ i \in 1..Len(s)
    OBVIOUS
  <1>2. /\ Trimmed(kept) /\ rows \in Seq(Accs) /\ roots \in Seq([path : Dirs, seen : Nat])
        /\ n \in Nat /\ DOMAIN roots = 1..n /\ DOMAIN rows = 1..n
        /\ \A i \in 1..n : roots[i].path = rows[i].path /\ roots[i].seen = 0
    BY DEF Keeps, Trimmed, Kept
  <1>3. Trimmed(next2)
    BY <1>1, <1>2, RetainTrims
  <1>4. /\ \A x \in 1..n : \E i \in 1..k : rows[x] = s[i]
        /\ Ordered(rows)
        /\ \A i \in 1..k : IsKept(rows, s[i])
    BY <1>2 DEF Keeps
  <1>5. \A x \in 1..n : Precedes(rows[x], row) /\ rows[x].path # row.path /\ rows[x].path \in Dirs
    <2> SUFFICES ASSUME NEW x \in 1..n
                 PROVE  Precedes(rows[x], row) /\ rows[x].path # row.path /\ rows[x].path \in Dirs
      OBVIOUS
    <2>1. PICK i \in 1..k : rows[x] = s[i]
      BY <1>4
    <2>2. i \in DOMAIN s /\ l \in DOMAIN s /\ i < l /\ i # l
      BY <1>1
    <2>3. s[i].path \in Dirs
      <3>1. s[i] \in Accs
        BY <2>2
      <3>2. QED BY <3>1 DEF Accs
    <2>4. QED BY <2>1, <2>2, <2>3 DEF Ordered, Distinct
  <1>6. CASE above # {}
    <2>1. above \subseteq Nat
      BY <1>2
    <2>2. root \in above
      <3> DEFINE A == above
      <3> HIDE DEF A
      <3>1. A # {} /\ A \subseteq Nat /\ root = Min(A)
        BY <1>6, <2>1 DEF A
      <3>2. Min(A) \in A
        BY <3>1, MinOf
      <3>3. QED BY <3>1, <3>2 DEF A
    <2>3. roots[root].seen = 0 /\ root \in 1..n /\ SameOrUnder(row.path, rows[root].path)
      BY <1>2, <2>2
    <2>4. next2 = kept
      BY <1>6, <2>3 DEF Retain, IsFull
    <2>5. StrictlyUnder(row.path, rows[root].path)
      <3>1. row.path \in Dirs
        BY <1>1 DEF Accs
      <3> HIDE DEF row, root, rows
      <3>2. QED BY <1>5, <2>3, <3>1, UnderStrictly
    <2> HIDE DEF row, root, rows, l, n
    <2>6. IsKept(rows, row)
      BY <1>2, <1>5, <2>3, <2>5 DEF IsKept
    <2> HIDE DEF next2
    <2>7. \A x \in 1..n : \E i \in 1..l : rows[x] = s[i]
      BY <1>1, <1>4
    <2>8. \A i \in 1..l : IsKept(rows, s[i])
      BY <1>1, <1>4, <2>6 DEF row
    <2>9. Keeps(next2, s, l)
      BY <1>2, <1>3, <1>4, <2>4, <2>7, <2>8 DEF Keeps, rows
    <2>10. QED BY <2>9 DEF next2, l, row
  <1>7. CASE above = {}
    <2> DEFINE rows2 == Append(rows, row)
    <2>1. next2.rows = rows2
      BY <1>7 DEF Retain
    <2> HIDE DEF row, next2, l, n
    <2>2. /\ DOMAIN rows2 = 1..(n + 1) /\ rows2[n + 1] = row
          /\ \A x \in 1..n : rows2[x] = rows[x] /\ x \in 1..(n + 1)
          /\ \A x \in 1..(n + 1) : x \in 1..n \/ x = n + 1
          /\ n + 1 \in 1..(n + 1)
      <3>1. Len(rows) = n
        BY <1>2
      <3> HIDE DEF rows
      <3>2. QED BY <1>2, <3>1
    <2> HIDE DEF rows2, rows
    <2>3. \A x \in 1..(n + 1) : \E i \in 1..l : rows2[x] = s[i]
      <3> SUFFICES ASSUME NEW x \in 1..(n + 1) PROVE \E i \in 1..l : rows2[x] = s[i]
        OBVIOUS
      <3>1. CASE x = n + 1
        <4>1. l \in 1..l /\ s[l] = row
          BY <1>1 DEF row
        <4>2. QED BY <2>2, <3>1, <4>1
      <3>2. CASE x \in 1..n
        BY <1>1, <1>4, <2>2, <3>2
      <3>3. QED BY <2>2, <3>1, <3>2
    <2>4. Ordered(rows2)
      <3> SUFFICES ASSUME NEW x \in 1..(n + 1), NEW y \in 1..(n + 1), x < y
                   PROVE  Precedes(rows2[x], rows2[y])
        BY <2>2 DEF Ordered
      <3>1. x \in 1..n
        BY <1>2
      <3>2. CASE y = n + 1
        BY <1>5, <2>2, <3>1, <3>2
      <3>3. CASE y \in 1..n
        BY <1>2, <1>4, <2>2, <3>1, <3>3 DEF Ordered
      <3>4. QED BY <2>2, <3>2, <3>3
    <2>5. \A i \in 1..k : IsKept(rows2, s[i])
      <3> SUFFICES ASSUME NEW i \in 1..k PROVE IsKept(rows2, s[i])
        OBVIOUS
      <3>1. IsKept(rows, s[i])
        BY <1>4
      <3>2. QED BY <1>2, <2>2, <3>1 DEF IsKept
    <2>6. IsKept(rows2, row)
      BY <2>2 DEF IsKept
    <2>7. \A i \in 1..l : IsKept(rows2, s[i])
      BY <1>1, <2>5, <2>6 DEF row
    <2>8. Keeps(next2, s, l)
      BY <1>3, <2>1, <2>2, <2>3, <2>4, <2>7 DEF Keeps
    <2>9. QED BY <2>8 DEF next2, l, row
  <1>8. QED BY <1>6, <1>7

LEMMA CollapsedKeeps ==
    ASSUME NEW s \in Seq(Accs), Distinct(s), Ordered(s)
    PROVE  \E kept : Keeps(kept, s, Len(s)) /\ Collapsed(s, 0) = kept.rows
  <1> DEFINE n == Len(s)
  <1>1. PICK a : /\ a \in [0..n -> Kept] /\ a[0] = [rows |-> <<>>, roots |-> <<>>]
                 /\ \A k \in 1..n : a[k] = Retain(a[k - 1], s[k], 0)
                 /\ Collapsed(s, 0) = a[n].rows
    BY RetainRun
  <1> DEFINE P == {k \in Nat : k <= n => Keeps(a[k], s, k)}
  <1>2. 0 \in P
    <2>1. a[0] \in Kept /\ a[0].rows = <<>> /\ a[0].roots = <<>>
      BY <1>1
    <2>2. Trimmed(a[0]) /\ Ordered(a[0].rows)
      BY <2>1 DEF Trimmed, Apart, Ordered
    <2>3. Keeps(a[0], s, 0)
      BY <2>1, <2>2 DEF Keeps
    <2>4. QED BY <2>3
  <1>3. ASSUME NEW k \in Nat, k \in P PROVE k + 1 \in P
    <2> SUFFICES ASSUME k + 1 <= n PROVE Keeps(a[k + 1], s, k + 1)
      OBVIOUS
    <2>1. k + 1 \in 1..n /\ (k + 1) - 1 = k /\ Keeps(a[k], s, k)
      BY <1>3
    <2>2. a[k + 1] = Retain(a[k], s[k + 1], 0)
      BY <1>1, <2>1
    <2>3. QED BY <2>1, <2>2, KeepsStep
  <1>4. n \in Nat /\ n <= n
    OBVIOUS
  <1> HIDE DEF P, n
  <1>5. n \in P
    BY <1>2, <1>3, <1>4, Induction
  <1>6. Keeps(a[n], s, n)
    BY <1>4, <1>5 DEF P
  <1>7. QED BY <1>1, <1>6 DEF n

\* Collapsing the candidates leaves the best of them, and what lies below.
LEMMA CollapsedIsBest ==
    ASSUME NEW s \in Seq(Accs), AreCandidates(s), Ordered(s)
    PROVE  IsBest(Collapsed(s, 0), {}, "trimmed")
  <1> DEFINE n == Len(s)
             w == Collapsed(s, 0)
  <1>1. PICK kept : Keeps(kept, s, n) /\ w = kept.rows
    BY CollapsedKeeps DEF AreCandidates
  <1>2. /\ \A x \in DOMAIN w : \E i \in 1..n : w[x] = s[i]
        /\ Ordered(w)
        /\ \A i \in 1..n : IsKept(w, s[i])
    BY <1>1 DEF Keeps
  <1>3. DOMAIN s = 1..n
    OBVIOUS
  <1>4. \A c \in Candidates : Scoring(c)
    BY SortedIsBest DEF IsBest
  <1> HIDE DEF n, w
  <1>5. \A x \in DOMAIN w : View(w[x]) \in Candidates
    BY <1>2, <1>3 DEF AreCandidates
  <1>6. ASSUME NEW c \in Candidates
        PROVE  \/ \E x \in DOMAIN w : View(w[x]) = c
               \/ \E x \in DOMAIN w : Precedes(w[x], c) /\ StrictlyUnder(c.path, w[x].path)
    <2>1. PICK i \in 1..n : View(s[i]) = c
      BY <1>3 DEF AreCandidates
    <2>2. c.path = s[i].path /\ \A a : Precedes(a, c) = Precedes(a, s[i])
      BY <2>1, PrecedesViews DEF View
    <2>3. IsKept(w, s[i])
      BY <1>2
    <2>4. QED BY <2>1, <2>2, <2>3 DEF IsKept
  <1>7. IsBest(w, {}, "trimmed")
    BY <1>2, <1>4, <1>5, <1>6 DEF IsBest
  <1>8. QED BY <1>7 DEF w

\* The pipelines that are shipped, with and without the cut that `zoxide query`
\* and the import's dry run take out.
IsShipped(phases) ==
    \E n \in Nat : phases \in
        {Scored, Scored \o Cut(n), CanonicalPhases(n),
         Scored \o << [kind |-> "CollapseDescendants", keep |-> 0] >>}

With(s, x) == s \o <<x>>

IsWith(t, s, x, S) ==
    /\ t \in Seq(S \cup {x}) /\ Len(t) = Len(s) + 1 /\ t[Len(s) + 1] = x
    /\ \A i \in 1..Len(s) : t[i] = s[i]

LEMMA OneMore ==
    ASSUME NEW S, NEW s \in Seq(S), NEW x
    PROVE  IsWith(With(s, x), s, x, S)
  <1> DEFINE T == S \cup {x}
             t == s \o <<x>>
  <1>1. s \in Seq(T) /\ <<x>> \in Seq(T) /\ Len(<<x>>) = 1 /\ <<x>>[1] = x /\ Len(s) \in Nat
    OBVIOUS
  <1> DEFINE u == <<x>>  n == Len(s)
  <1>2. u \in Seq(T) /\ Len(u) = 1 /\ u[1] = x
    BY <1>1
  <1> HIDE DEF T, u
  <1>3. /\ s \o u \in Seq(T) /\ Len(s \o u) = n + Len(u)
        /\ \A i \in 1..(n + Len(u)) : (s \o u)[i] = IF i <= n THEN s[i] ELSE u[i - n]
    BY <1>1, <1>2, ConcatProperties
  <1> DEFINE v == s \o u
  <1> HIDE DEF v, n
  <1>4. n \in Nat /\ Len(v) = n + 1 /\ \A i \in 1..(n + 1) : v[i] = IF i <= n THEN s[i] ELSE u[i - n]
    BY <1>1, <1>2, <1>3 DEF v, n
  <1>5. v[n + 1] = x /\ \A i \in 1..n : v[i] = s[i]
    <2>1. n + 1 \in 1..(n + 1) /\ ~(n + 1 <= n) /\ (n + 1) - n = 1 /\ \A i \in 1..n : i \in 1..(n + 1) /\ i <= n
      BY <1>4
    <2>2. QED BY <1>2, <1>4, <2>1
  <1>6. QED BY <1>3, <1>4, <1>5 DEF T, u, v, n, With, IsWith

LEMMA ShippedInShape ==
    ASSUME NEW phases, IsShipped(phases)
    PROVE  InShape(phases)
  <1>1. PICK n \in Nat : phases \in
           {Scored, Scored \o Cut(n), CanonicalPhases(n),
            Scored \o << [kind |-> "CollapseDescendants", keep |-> 0] >>}
    BY DEF IsShipped
  <1> DEFINE c == [kind |-> "CollapseDescendants", keep |-> 0]
             k == [kind |-> "TopK", n |-> n]
  <1>2. /\ Len(Scored) = 7 /\ DOMAIN Scored = 1..7
        /\ Scored[1].kind = "LoadEntries" /\ Scored[2].kind = "ComputeAge"
        /\ Scored[3].kind = "ApplyDecay" /\ Scored[4].kind = "Combine"
        /\ Scored[5].kind = "FloorIndexed" /\ Scored[6].kind = "MatchNeedle"
        /\ Scored[7].kind = "SortDesc"
    BY DEF Scored
  <1>3. c.kind = "CollapseDescendants" /\ c.keep = 0 /\ k.kind = "TopK"
    OBVIOUS
  <1>4. Scored \in Seq({Scored[i] : i \in 1..7})
    BY <1>2 DEF Scored
  <1> HIDE DEF c, k
  <1> DEFINE S == {Scored[i] : i \in 1..7}
  <1> HIDE DEF S
  <1>5. CASE phases = Scored
    <2>1. Len(phases) = 7 /\ Len(phases) \in 7..9
      BY <1>2, <1>5
    <2>2. ~(Len(phases) > 7) /\ ~(Len(phases) > 8)
      BY <2>1
    <2>3. QED BY <1>2, <1>5, <2>1, <2>2 DEF InShape
  <1>6. ASSUME NEW x, phases = With(Scored, x)
        PROVE  /\ Len(phases) = 8 /\ DOMAIN phases = 1..8 /\ phases[8] = x
               /\ \A i \in 1..7 : phases[i] = Scored[i]
    <2>1. IsWith(phases, Scored, x, S)
      BY <1>4, <1>6, OneMore DEF S
    <2>2. QED BY <1>2, <2>1 DEF IsWith
  <1>7. ASSUME NEW x, NEW y, phases = With(With(Scored, x), y)
        PROVE  /\ Len(phases) = 9 /\ DOMAIN phases = 1..9 /\ phases[8] = x /\ phases[9] = y
               /\ \A i \in 1..7 : phases[i] = Scored[i]
    <2> DEFINE t == With(Scored, x)
    <2>1. IsWith(t, Scored, x, S)
      BY <1>4, OneMore DEF S
    <2>2. /\ t \in Seq(S \cup {x}) /\ Len(t) = 8 /\ t[8] = x
          /\ \A i \in 1..7 : t[i] = Scored[i]
      BY <1>2, <2>1 DEF IsWith
    <2>3. IsWith(phases, t, y, S \cup {x})
      BY <1>7, <2>2, OneMore
    <2> HIDE DEF t
    <2>4. QED BY <2>2, <2>3 DEF IsWith
  <1>8. CASE phases = With(Scored, k)
    <2>1. /\ Len(phases) = 8 /\ DOMAIN phases = 1..8 /\ phases[8] = k
          /\ \A i \in 1..7 : phases[i] = Scored[i]
      BY <1>6, <1>8
    <2>2. Len(phases) \in 7..9 /\ ~(Len(phases) > 8) /\ DOMAIN phases = 1..Len(phases)
      BY <2>1
    <2>3. \A i \in {1, 2, 3, 4, 5, 6, 7} : phases[i] = Scored[i]
      BY <2>1
    <2>4. QED BY <1>2, <1>3, <2>1, <2>2, <2>3 DEF InShape
  <1>9. CASE phases = With(Scored, c)
    <2>1. /\ Len(phases) = 8 /\ DOMAIN phases = 1..8 /\ phases[8] = c
          /\ \A i \in 1..7 : phases[i] = Scored[i]
      BY <1>6, <1>9
    <2>2. Len(phases) \in 7..9 /\ ~(Len(phases) > 8) /\ DOMAIN phases = 1..Len(phases)
      BY <2>1
    <2>3. \A i \in {1, 2, 3, 4, 5, 6, 7} : phases[i] = Scored[i]
      BY <2>1
    <2>4. QED BY <1>2, <1>3, <2>1, <2>2, <2>3 DEF InShape
  <1>10. CASE phases = With(With(Scored, c), k)
    BY <1>2, <1>3, <1>7, <1>10 DEF InShape
  <1>11. QED BY <1>1, <1>5, <1>8, <1>9, <1>10 DEF c, k, Cut, CanonicalPhases, With

\* The cuts of the phases before the k-th, and whether they collapse.
CutsBefore(k) ==
    {spec.phases[i].n : i \in {j \in DOMAIN spec.phases : j < k /\ spec.phases[j].kind = "TopK"}}

FormBefore(k) ==
    IF question.needle.given /\ \E i \in DOMAIN spec.phases :
                                   i < k /\ spec.phases[i].kind = "CollapseDescendants"
    THEN "trimmed" ELSE "whole"

\* The working set before each of the shipped phases.
Stage ==
    /\ next \in 1..(Len(spec.phases) + 1)
    /\ next \in 2..6 => AreRowsAt(next)
    /\ next \in {7, 8} => AreCandidates(working)
    /\ next = 8 => Ordered(working)
    /\ next > 8 => IsBest(working, CutsBefore(next), FormBefore(next))

BestInv ==
    /\ RankingInv
    /\ outcome = "running" /\ NeverLoads(spec.phases) => ~loaded
    /\ outcome = "running" /\ InShape(spec.phases) => Stage
    /\ outcome = "ok" => /\ InShape(spec.phases)
                         /\ IsBest(ranked, CutsBefore(Len(spec.phases) + 1) \cup {question.limit},
                                   FormBefore(Len(spec.phases) + 1))
                         /\ ranked \in Seq([path : Dirs, score : Int])

\* They are the question's alone.
LEMMA QuestionStays ==
    ASSUME UNCHANGED question
    PROVE  /\ spec' = spec /\ Candidates' = Candidates
           /\ \A w : AreCandidates(w)' <=> AreCandidates(w)
           /\ \A w : Ordered(w)' <=> Ordered(w)
           /\ \A w, R, form : IsBest(w, R, form)' <=> IsBest(w, R, form)
           /\ \A k : CutsBefore(k)' = CutsBefore(k) /\ FormBefore(k)' = FormBefore(k)
  <1>1. spec' = spec
    BY DEF spec
  <1>2. \A e : VisitScore(e)' = VisitScore(e)
    BY <1>1 DEF VisitScore, Map
  <1>3. \A e : Worth(e)' = Worth(e)
    BY <1>1, <1>2 DEF Worth
  <1>4. Candidates' = Candidates
    BY <1>1, <1>3 DEF Candidates
  <1>5. \A k : CutsBefore(k)' = CutsBefore(k) /\ FormBefore(k)' = FormBefore(k)
    BY <1>1 DEF CutsBefore, FormBefore
  <1>6. \A w : AreCandidates(w)' <=> AreCandidates(w)
    BY <1>4 DEF AreCandidates
  <1>7. \A w, R, form : IsBest(w, R, form)' <=> IsBest(w, R, form)
    BY <1>4 DEF IsBest
  <1>8. QED BY <1>1, <1>4, <1>5, <1>6, <1>7

\* What a phase that is not a cut, and one that is, add.
LEMMA CutsGrow ==
    ASSUME NEW k \in DOMAIN spec.phases, spec.phases \in Seq(ToSet(spec.phases))
    PROVE  LET p == spec.phases[k]
           IN  /\ p.kind = "TopK" => /\ CutsBefore(k + 1) = CutsBefore(k) \cup {p.n}
                                     /\ FormBefore(k + 1) = FormBefore(k)
               /\ p.kind # "TopK" => CutsBefore(k + 1) = CutsBefore(k)
               /\ p.kind = "CollapseDescendants" => FormBefore(k + 1) = IF question.needle.given THEN "trimmed" ELSE "whole"
  <1> DEFINE phases == spec.phases
             p == phases[k]
  <1>1. DOMAIN phases = 1..Len(phases) /\ Len(phases) \in Nat /\ k \in DOMAIN phases
    OBVIOUS
  <1>2. \A i \in DOMAIN phases : i < k + 1 <=> i < k \/ i = k
    BY <1>1
  <1>3. ~(k < k) /\ k < k + 1
    BY <1>1
  <1> HIDE DEF phases
  <1>4. CASE p.kind = "TopK"
    <2>1. CutsBefore(k + 1) = CutsBefore(k) \cup {p.n}
      BY <1>1, <1>2, <1>4 DEF CutsBefore, phases
    <2>2. FormBefore(k + 1) = FormBefore(k)
      BY <1>1, <1>2, <1>4 DEF FormBefore, phases
    <2>3. QED BY <1>4, <2>1, <2>2 DEF phases
  <1>5. CASE p.kind # "TopK"
    <2>1. CutsBefore(k + 1) = CutsBefore(k)
      BY <1>1, <1>2, <1>5 DEF CutsBefore, phases
    <2>2. p.kind = "CollapseDescendants" => FormBefore(k + 1) = IF question.needle.given THEN "trimmed" ELSE "whole"
      BY <1>1, <1>3 DEF FormBefore, phases
    <2>3. QED BY <1>5, <2>1, <2>2 DEF phases
  <1>6. QED BY <1>4, <1>5

\* Before the eighth phase nothing is cut or collapsed.
LEMMA NothingBeforeSorted ==
    ASSUME InShape(spec.phases)
    PROVE  CutsBefore(8) = {} /\ FormBefore(8) = "whole"
  <1> DEFINE length == Len(spec.phases)
  <1>0. length \in 7..9 /\ DOMAIN spec.phases = 1..length
    BY DEF InShape
  <1>1. \A i \in DOMAIN spec.phases : i < 8 => i \in {1, 2, 3, 4, 5, 6, 7}
    <2> HIDE DEF length
    <2>1. QED BY <1>0
  <1>2. \A i \in DOMAIN spec.phases : i < 8 => /\ spec.phases[i].kind # "TopK"
                                               /\ spec.phases[i].kind # "CollapseDescendants"
    BY <1>1 DEF InShape
  <1>3. QED BY <1>2 DEF CutsBefore, FormBefore

\* Each phase does what its place in a shipped pipeline asks of it.
LEMMA StageStep ==
    ASSUME RankingInv, RankingInv', outcome = "running", InShape(spec.phases), Stage,
           next <= Len(spec.phases), UNCHANGED question, next' = next + 1,
           LoadEntries \/ ComputeAge \/ ApplyDecay \/ Combine \/ FloorIndexed \/ MatchNeedle
              \/ SortDesc \/ CollapseDescendants \/ TopK
    PROVE  Stage'
  <1> DEFINE phases == spec.phases
             kind == phases[next].kind
  <1>1. /\ next \in 1..Len(phases) /\ Len(phases) \in 7..9 /\ next \in Nat
        /\ DOMAIN phases = 1..Len(phases)
        /\ phases \in Seq(ToSet(phases))
    <2>1. phases \in Seq([kind : {"LoadEntries", "ComputeAge", "ApplyDecay", "Combine",
                                  "FloorIndexed", "MatchNeedle", "SortDesc"}]
                         \cup [kind : {"CollapseDescendants"}, keep : Nat]
                         \cup [kind : {"TopK"}, n : Nat])
      BY QuestionIs DEF Specs
    <2>2. phases \in Seq(ToSet(phases))
      BY <2>1 DEF ToSet
    <2>3. QED BY <2>2 DEF Stage, InShape
  <1> DEFINE length == Len(phases)
  <1>2. next \in {1, 2, 3, 4, 5, 6, 7, 8, 9}
    <2>1. next \in 1..length /\ length \in 7..9
      BY <1>1
    <2> HIDE DEF length
    <2>2. QED BY <2>1
  <1> HIDE DEF length
  <1>3. /\ spec' = spec /\ Candidates' = Candidates
        /\ \A w : AreCandidates(w)' <=> AreCandidates(w)
        /\ \A w : Ordered(w)' <=> Ordered(w)
        /\ \A w, R, form : IsBest(w, R, form)' <=> IsBest(w, R, form)
        /\ \A k : CutsBefore(k)' = CutsBefore(k) /\ FormBefore(k)' = FormBefore(k)
    BY QuestionStays
  <1>4. next' \in 1..(Len(spec'.phases) + 1)
    BY <1>1, <1>3
  <1>5. /\ next = 1 => kind = "LoadEntries"
        /\ next = 2 => kind = "ComputeAge"
        /\ next = 3 => kind = "ApplyDecay"
        /\ next = 4 => kind = "Combine"
        /\ next = 5 => kind = "FloorIndexed"
        /\ next = 6 => kind = "MatchNeedle"
        /\ next = 7 => kind = "SortDesc"
        /\ next = 8 => kind = "TopK" \/ (kind = "CollapseDescendants" /\ phases[next].keep = 0)
        /\ next = 9 => kind = "TopK"
    BY <1>1 DEF InShape
  <1>6. /\ LoadEntries => kind = "LoadEntries"
        /\ ComputeAge => kind = "ComputeAge"
        /\ ApplyDecay => kind = "ApplyDecay"
        /\ Combine => kind = "Combine"
        /\ FloorIndexed => kind = "FloorIndexed"
        /\ MatchNeedle => kind = "MatchNeedle"
        /\ SortDesc => kind = "SortDesc"
        /\ CollapseDescendants => kind = "CollapseDescendants"
        /\ TopK => kind = "TopK"
    BY DEF LoadEntries, ComputeAge, ApplyDecay, Combine, FloorIndexed, MatchNeedle, SortDesc,
           CollapseDescendants, TopK, On, Phase
  <1> HIDE DEF kind
  <1>7. working \in Seq(Accs) /\ working' \in Seq(Accs)
    BY DEF RankingInv
  <1>8. CASE LoadEntries
    <2>1. next = 1 /\ next' = 2
      BY <1>2, <1>5, <1>6, <1>8
    <2>2. QED BY <1>4, <1>8, <2>1, RowsLoaded DEF Stage
  <1>9. CASE ComputeAge
    <2>1. next = 2 /\ next' = 3
      BY <1>2, <1>5, <1>6, <1>9
    <2>2. AreRowsAt(2)
      BY <2>1 DEF Stage
    <2>3. QED BY <1>4, <1>9, <2>1, <2>2, RowsAged DEF Stage
  <1>10. CASE ApplyDecay
    <2>1. next = 3 /\ next' = 4
      BY <1>2, <1>5, <1>6, <1>10
    <2>2. AreRowsAt(3)
      BY <2>1 DEF Stage
    <2>3. QED BY <1>4, <1>10, <2>1, <2>2, RowsDecayed DEF Stage
  <1>11. CASE Combine
    <2>1. next = 4 /\ next' = 5
      BY <1>2, <1>5, <1>6, <1>11
    <2>2. AreRowsAt(4)
      BY <2>1 DEF Stage
    <2>3. QED BY <1>4, <1>11, <2>1, <2>2, RowsCombined DEF Stage
  <1>12. CASE FloorIndexed
    <2>1. next = 5 /\ next' = 6
      BY <1>2, <1>5, <1>6, <1>12
    <2>2. AreRowsAt(5)
      BY <2>1 DEF Stage
    <2>3. QED BY <1>4, <1>12, <2>1, <2>2, RowsFloored DEF Stage
  <1>13. CASE MatchNeedle
    <2>1. next = 6 /\ next' = 7
      BY <1>2, <1>5, <1>6, <1>13
    <2>2. AreRowsAt(6)
      BY <2>1 DEF Stage
    <2>3. AreCandidates(working')
      BY <1>13, <2>2, RowsMatched, WeighedType
    <2>4. AreCandidates(working)'
      BY <1>3, <2>3
    <2>5. QED BY <1>4, <2>1, <2>4 DEF Stage
  <1>14. CASE SortDesc
    <2>1. next = 7 /\ next' = 8
      BY <1>2, <1>5, <1>6, <1>14
    <2>2. AreCandidates(working)
      BY <2>1 DEF Stage
    <2>3. AreCandidates(working') /\ Ordered(working')
      BY <1>7, <1>14, <2>2, RowsSorted, SortedType
    <2>4. AreCandidates(working)' /\ Ordered(working)'
      BY <1>3, <2>3
    <2>5. QED BY <1>4, <2>1, <2>4 DEF Stage
  <1>15. CASE CollapseDescendants
    <2>1. next = 8 /\ next' = 9 /\ kind = "CollapseDescendants" /\ phases[next].keep = 0
      BY <1>2, <1>5, <1>6, <1>15
    <2>2. AreCandidates(working) /\ Ordered(working)
      BY <2>1 DEF Stage
    <2>3. CutsBefore(9) = {} /\ FormBefore(9) = IF question.needle.given THEN "trimmed" ELSE "whole"
      <3>1. 8 \in DOMAIN spec.phases /\ spec.phases[8].kind = "CollapseDescendants" /\ 8 + 1 = 9
        BY <1>1, <2>1 DEF kind
      <3>2. CutsBefore(8 + 1) = CutsBefore(8) /\ FormBefore(8 + 1) = IF question.needle.given THEN "trimmed" ELSE "whole"
        BY <1>1, <3>1, CutsGrow
      <3>3. QED BY <3>1, <3>2, NothingBeforeSorted
    <2>4. working' = IF question.needle.given THEN Collapsed(working, 0) ELSE working
      BY <1>15, <2>1, CollapsedType
    <2>5. CASE question.needle.given
      <3>1. IsBest(working', {}, "trimmed")
        BY <1>7, <2>2, <2>4, <2>5, CollapsedIsBest
      <3>2. FormBefore(9) = "trimmed"
        BY <2>3, <2>5 DEF FormBefore
      <3>3. IsBest(working', CutsBefore(9), FormBefore(9))
        BY <2>3, <3>1, <3>2
      <3>4. IsBest(working, CutsBefore(next), FormBefore(next))'
        BY <1>3, <2>1, <3>3
      <3>5. QED BY <1>4, <2>1, <3>4 DEF Stage
    <2>6. CASE ~question.needle.given
      <3>1. IsBest(working', {}, "whole")
        BY <1>7, <2>2, <2>4, <2>6, SortedIsBest
      <3>2. FormBefore(9) = "whole"
        BY <2>6 DEF FormBefore
      <3>3. IsBest(working', CutsBefore(9), FormBefore(9))
        BY <2>3, <3>1, <3>2
      <3>4. IsBest(working, CutsBefore(next), FormBefore(next))'
        BY <1>3, <2>1, <3>3
      <3>5. QED BY <1>4, <2>1, <3>4 DEF Stage
    <2>7. QED BY <2>5, <2>6
  <1>16. CASE TopK
    <2> DEFINE n == phases[next].n
               R == CutsBefore(next)
               form == FormBefore(next)
    <2>1. kind = "TopK" /\ next \in {8, 9} /\ next' \in {9, 10}
      BY <1>2, <1>5, <1>6, <1>16
    <2>2. n \in Nat /\ working' = FirstOf(working, n)
      BY <1>16, CutType
    <2>3. IsBest(working, R, form)
      <3>1. CASE next = 9
        BY <3>1 DEF Stage
      <3>2. CASE next = 8
        <4>1. IsBest(working, {}, "whole")
          BY <1>7, <3>2, SortedIsBest DEF Stage
        <4>2. R = {} /\ form = "whole"
          BY <3>2, NothingBeforeSorted DEF FormBefore
        <4>3. QED BY <4>1, <4>2
      <3>3. QED BY <2>1, <3>1, <3>2
    <2>4. CutsBefore(next + 1) = R \cup {n} /\ FormBefore(next + 1) = form
      BY <1>1, <2>1, CutsGrow DEF kind
    <2>5. R \in SUBSET Nat
      BY PhaseIs DEF CutsBefore
    <2>6. \A a \in Accs : Scoring(a)
      BY DEF Scoring, Accs
    <2> HIDE DEF n, R, form
    <2>7. IsBest(FirstOf(working, n), R \cup {n}, form)
      BY <1>7, <2>2, <2>3, <2>5, <2>6, CutIsBest
    <2>8. IsBest(working', CutsBefore(next'), FormBefore(next'))
      BY <2>2, <2>4, <2>7
    <2>9. IsBest(working, CutsBefore(next), FormBefore(next))'
      BY <1>3, <2>8
    <2>10. QED BY <1>4, <2>1, <2>9 DEF Stage
  <1>17. QED BY <1>8, <1>9, <1>10, <1>11, <1>12, <1>13, <1>14, <1>15, <1>16

\* The paths and scores of rows that are the best are.
LEMMA ViewsAreBest ==
    ASSUME NEW w \in Seq(Accs), NEW R, NEW form, IsBest(w, R, form)
    PROVE  LET t == [i \in DOMAIN w |-> View(w[i])]
           IN  IsBest(t, R, form) /\ t \in Seq([path : Dirs, score : Int])
  <1> DEFINE t == [i \in DOMAIN w |-> View(w[i])]
             V == [path : Dirs, score : Int]
             n == Len(w)
  <1>1. n \in Nat /\ DOMAIN w = 1..n /\ \A i \in 1..n : w[i] \in Accs
    OBVIOUS
  <1>2. \A i \in 1..n : View(w[i]) \in V
    BY <1>1 DEF View, Accs
  <1>3. t = [i \in 1..n |-> View(w[i])] /\ \A i \in 1..n : t[i] = View(w[i])
    BY <1>1
  <1> HIDE DEF n, t, V
  <1>4. t \in Seq(V) /\ Len(t) = n /\ DOMAIN t = 1..n
    BY <1>1, <1>2, <1>3
  <1>5. /\ \A i \in 1..n : View(t[i]) = View(w[i]) /\ t[i].path = w[i].path
        /\ \A i \in 1..n : \A c : Precedes(t[i], c) = Precedes(w[i], c)
        /\ \A i, j \in 1..n : Precedes(t[i], t[j]) = Precedes(w[i], w[j])
    BY <1>3 DEF View, Precedes
  <1>6. Len(w) = n
    BY DEF n
  <1>7. IsBest(t, R, form)
    BY <1>1, <1>4, <1>5, <1>6 DEF IsBest, Ordered
  <1>8. QED BY <1>4, <1>7 DEF t, V

\* The caller's own cut is one more.
LEMMA TakenIsBest ==
    ASSUME RankingInv, InShape(spec.phases), Stage, Take
    PROVE  /\ IsBest(ranked', CutsBefore(Len(spec.phases) + 1) \cup {question.limit},
                     FormBefore(Len(spec.phases) + 1))
           /\ ranked' \in Seq([path : Dirs, score : Int])
  <1> DEFINE V == [path : Dirs, score : Int]
             t == [i \in DOMAIN working |-> View(working[i])]
             k == Len(spec.phases) + 1
             R == CutsBefore(k)
             form == FormBefore(k)
             limit == question.limit
  <1>1. /\ working \in Seq(Accs) /\ limit \in Nat
        /\ outcome # "none" /\ next > Len(spec.phases) /\ next \in 1..(Len(spec.phases) + 1)
        /\ Len(spec.phases) \in 7..9
    BY QuestionIs DEF Take, RankingInv, Stage, InShape
  <1>2. next = k
    <2> DEFINE length == Len(spec.phases)
    <2>1. length \in 7..9 /\ next > length /\ next \in 1..(length + 1)
      BY <1>1
    <2> HIDE DEF length
    <2>2. next = length + 1
      BY <2>1
    <2>3. QED BY <2>2 DEF length
  <1>3. ranked' = FirstOf(t, limit)
    BY DEF Take, Taken, Map, View
  <1>4. IsBest(working, R, form)
    <2>1. CASE next > 8
      <3>1. IsBest(working, CutsBefore(next), FormBefore(next))
        BY <2>1 DEF Stage
      <3>2. R = CutsBefore(next) /\ form = FormBefore(next)
        BY <1>2
      <3> HIDE DEF R, form
      <3>3. QED BY <3>1, <3>2
    <2>2. CASE next = 8
      <3>1. IsBest(working, {}, "whole")
        BY <1>1, <2>2, SortedIsBest DEF Stage
      <3>2. R = {} /\ form = "whole"
        BY <1>2, <2>2, NothingBeforeSorted
      <3>3. QED BY <3>1, <3>2
    <2>3. next = 8 \/ next > 8
      <3> DEFINE length == Len(spec.phases)
      <3>1. length \in 7..9 /\ next = length + 1
        BY <1>1, <1>2
      <3> HIDE DEF length
      <3>2. QED BY <3>1
    <2>4. QED BY <2>1, <2>2, <2>3
  <1>5. R \in SUBSET Nat
    BY <1>1, PhaseIs DEF CutsBefore
  <1>6. \A a \in V : Scoring(a)
    BY DEF Scoring
  <1> HIDE DEF R, form, k, limit
  <1>7. IsBest(t, R, form) /\ t \in Seq(V)
    BY <1>1, <1>4, ViewsAreBest
  <1> HIDE DEF t, V
  <1>8. IsBest(FirstOf(t, limit), R \cup {limit}, form)
    BY <1>1, <1>5, <1>6, <1>7, CutIsBest
  <1>9. FirstOf(t, limit) \in Seq(V)
    BY <1>1, <1>7, FirstType
  <1>10. QED BY <1>3, <1>8, <1>9 DEF R, form, k, limit, V

LEMMA BestStep ==
    ASSUME \A q \in Questions : InShape(q.spec.phases) \/ NeverLoads(q.spec.phases),
           BestInv, [Next]_vars
    PROVE  BestInv'
  <1>0. RankingInv /\ RankingInv'
    BY RankingStep DEF BestInv
  <1>1. CASE UNCHANGED vars
    <2>1. UNCHANGED <<question, next, loaded, working, outcome, ranked>>
      BY <1>1 DEF vars
    <2>2. /\ spec' = spec
          /\ \A w : AreCandidates(w)' <=> AreCandidates(w)
          /\ \A w : Ordered(w)' <=> Ordered(w)
          /\ \A w, R, form : IsBest(w, R, form)' <=> IsBest(w, R, form)
          /\ \A k : CutsBefore(k)' = CutsBefore(k) /\ FormBefore(k)' = FormBefore(k)
      BY <2>1, QuestionStays
    <2>3. \A a, e, l : IsRowOf(a, e, l)' <=> IsRowOf(a, e, l)
      <3>1. \A e : VisitScore(e)' = VisitScore(e)
        BY <2>1, <2>2 DEF VisitScore, Map
      <3>2. \A e : DecayedOf(e)' = DecayedOf(e) /\ AgesOf(e)' = AgesOf(e)
        BY <2>2 DEF DecayedOf, AgesOf
      <3>3. QED BY <2>2, <3>1, <3>2 DEF IsRowOf
    <2>4. \A k : AreRowsAt(k)' <=> AreRowsAt(k)
      BY <2>1, <2>3 DEF AreRowsAt
    <2>5. Stage' <=> Stage
      BY <2>1, <2>2, <2>4 DEF Stage
    <2>6. QED BY <1>0, <2>1, <2>2, <2>5 DEF BestInv
  <1>2. CASE Call
    <2>1. next' = 1 /\ outcome' = "running" /\ ~loaded' /\ question' \in Questions
      BY <1>2 DEF Call, BestInv, RankingInv
    <2>2. InShape(spec'.phases) => Stage'
      <3> SUFFICES ASSUME InShape(spec'.phases) PROVE Stage'
        OBVIOUS
      <3> DEFINE length == Len(spec'.phases)
      <3>1. length \in 7..9
        BY DEF InShape
      <3>2. 1 \in 1..(length + 1)
        <4> HIDE DEF length
        <4>1. QED BY <3>1
      <3>3. QED BY <2>1, <3>2 DEF Stage
    <2>3. InShape(spec.phases)' <=> InShape(spec'.phases)
      BY DEF InShape
    <2>4. QED BY <1>0, <2>1, <2>2, <2>3 DEF BestInv
  <1>3. CASE LoadEntries \/ ComputeAge \/ ApplyDecay \/ Combine \/ FloorIndexed \/ MatchNeedle
             \/ SortDesc \/ CollapseDescendants \/ TopK
    <2>1. /\ outcome = "running" /\ next <= Len(spec.phases) /\ next' = next + 1
          /\ UNCHANGED <<question, outcome>>
          /\ loaded \/ spec.phases[next].kind = "LoadEntries"
      BY <1>3 DEF LoadEntries, ComputeAge, ApplyDecay, Combine, FloorIndexed, MatchNeedle, SortDesc,
         CollapseDescendants, TopK, On, Phase, Yields
    <2>2. spec' = spec
      BY <2>1, QuestionStays
    <2>3. ~NeverLoads(spec.phases)
      <3>1. next \in DOMAIN spec.phases
        BY <1>0, <2>1, QuestionIs DEF RankingInv, Specs
      <3>2. QED BY <2>1, <3>1 DEF NeverLoads, BestInv
    <2>4. InShape(spec.phases) => Stage'
      BY <1>0, <1>3, <2>1, StageStep DEF BestInv
    <2>5. QED BY <1>0, <2>1, <2>2, <2>3, <2>4 DEF BestInv, NeverLoads, InShape
  <1>4. CASE Refuse
    <2>1. outcome' = "error"
      BY <1>4 DEF Refuse
    <2>2. QED BY <1>0, <2>1 DEF BestInv
  <1>5. CASE Take
    <2>1. outcome = "running" /\ loaded /\ outcome' = "ok" /\ question' = question
      BY <1>5 DEF Take
    <2>2. InShape(spec.phases) /\ Stage
      <3>1. question \in Questions /\ ~NeverLoads(spec.phases)
        BY <1>0, <2>1 DEF RankingInv, BestInv
      <3>2. InShape(spec.phases)
        BY <3>1 DEF spec
      <3>3. QED BY <2>1, <3>2 DEF BestInv
    <2> DEFINE R == CutsBefore(Len(spec.phases) + 1) \cup {question.limit}
               form == FormBefore(Len(spec.phases) + 1)
    <2>3. IsBest(ranked', R, form) /\ ranked' \in Seq([path : Dirs, score : Int])
      BY <1>0, <1>5, <2>2, TakenIsBest
    <2>4. /\ spec' = spec
          /\ \A w, r, f : IsBest(w, r, f)' <=> IsBest(w, r, f)
          /\ \A k : CutsBefore(k)' = CutsBefore(k) /\ FormBefore(k)' = FormBefore(k)
      BY <2>1, QuestionStays
    <2>5. R' = R /\ form' = form
      BY <2>1, <2>4
    <2>6. IsBest(ranked, R, form)'
      <3> HIDE DEF R, form
      <3>1. QED BY <2>3, <2>4, <2>5
    <2>7. InShape(spec.phases)'
      BY <2>2, <2>4 DEF InShape
    <2>8. QED BY <1>0, <2>1, <2>3, <2>6, <2>7 DEF BestInv
  <1>6. QED BY <1>1, <1>2, <1>3, <1>4, <1>5 DEF Next

LEMMA BestStart == Init => BestInv
  BY RankingStart DEF Init, BestInv

LEMMA BestMeans == BestInv => BestFirst
  <1> SUFFICES ASSUME BestInv, outcome = "ok" PROVE BestFirst
    BY DEF BestFirst
  <1> DEFINE phases == spec.phases
             k == Len(phases) + 1
             R == CutsBefore(k) \cup {question.limit}
             form == FormBefore(k)
  <1>1. IsBest(ranked, R, form) /\ ranked \in Seq([path : Dirs, score : Int])
    BY DEF BestInv
  <1>2. RankingInv /\ InShape(phases) /\ question.limit \in Nat
    BY QuestionIs DEF BestInv
  <1>3. \A i \in DOMAIN phases : i < k
    <2> DEFINE length == Len(phases)
    <2>1. length \in 7..9 /\ DOMAIN phases = 1..length
      BY <1>2 DEF InShape
    <2> HIDE DEF length, phases
    <2>2. \A i \in DOMAIN phases : i < length + 1
      BY <2>1
    <2>3. QED BY <2>2 DEF length
  <1> HIDE DEF k
  <1>4. form = "trimmed" => Collapses
    BY DEF FormBefore, Collapses
  <1>5. Room = Min(R)
    <2>1. {j \in DOMAIN phases : phases[j].kind = "TopK"} =
          {j \in DOMAIN phases : j < k /\ phases[j].kind = "TopK"}
      BY <1>3
    <2>2. R = {question.limit} \cup {phases[i].n : i \in {j \in DOMAIN phases : phases[j].kind = "TopK"}}
      BY <2>1 DEF CutsBefore
    <2>3. QED BY <2>2 DEF Room
  <1>6. Room \in R /\ Room \in Nat /\ \A n \in R : Room <= n
    <2>1. CutsBefore(k) \subseteq Nat
      BY <1>2, PhaseIs DEF CutsBefore
    <2>2. R \subseteq Nat /\ R # {}
      BY <1>2, <2>1
    <2> HIDE DEF R
    <2>3. QED BY <1>5, <2>2, MinOf
  <1> HIDE DEF R, form
  <1> DEFINE m == Len(ranked)
  <1>7. m \in Nat /\ DOMAIN ranked = 1..m /\ \A i \in DOMAIN ranked : View(ranked[i]) = ranked[i]
    <2>1. \A i \in DOMAIN ranked : ranked[i] \in [path : Dirs, score : Int]
      <3> DEFINE V == [path : Dirs, score : Int]
      <3>1. ranked \in Seq(V)
        BY <1>1
      <3> HIDE DEF V
      <3>2. \A i \in DOMAIN ranked : ranked[i] \in V
        BY <3>1
      <3>3. QED BY <3>2 DEF V
    <2>2. \A a \in [path : Dirs, score : Int] : View(a) = a
      BY DEF View
    <2>3. QED BY <1>1, <2>1, <2>2
  <1>8. m <= Room
    BY <1>1, <1>6 DEF IsBest
  <1>9. m \in R => m = Room
    <2> HIDE DEF m
    <2>1. m \in Nat /\ m <= Room /\ (m \in R => Room <= m)
      BY <1>6, <1>7, <1>8
    <2>2. QED BY <1>6, <2>1
  <1>10. ToSet(ranked) = {ranked[i] : i \in DOMAIN ranked}
    BY DEF ToSet
  <1>11. ToSet(ranked) \subseteq Candidates
    BY <1>1, <1>7, <1>10 DEF IsBest
  <1>12. \A i, j \in DOMAIN ranked : i < j => Precedes(ranked[i], ranked[j])
    BY <1>1 DEF IsBest, Ordered
  <1>13. ASSUME NEW c \in Candidates \ ToSet(ranked)
         PROVE  \/ m = Room /\ \A i \in DOMAIN ranked : Precedes(ranked[i], c)
                \/ Collapses /\ \E i \in DOMAIN ranked :
                      Precedes(ranked[i], c) /\ StrictlyUnder(c.path, ranked[i].path)
    <2>1. ~\E i \in DOMAIN ranked : View(ranked[i]) = c
      BY <1>7, <1>10
    <2>2. \/ m \in R /\ \A i \in DOMAIN ranked : Precedes(ranked[i], c)
          \/ form = "trimmed" /\ \E i \in DOMAIN ranked :
                Precedes(ranked[i], c) /\ StrictlyUnder(c.path, ranked[i].path)
      BY <1>1, <2>1 DEF IsBest
    <2>3. QED BY <1>4, <1>9, <2>2
  <1> HIDE DEF m
  <1>14. QED BY <1>8, <1>11, <1>12, <1>13 DEF BestFirst, m

\* Whatever the rows, their order, the needle and the limit: a shipped pipeline
\* answers with the best of the candidates, each with its worth.
THEOREM ShippedIsBestFirst ==
    ASSUME \A q \in Questions : InShape(q.spec.phases) \/ NeverLoads(q.spec.phases)
    PROVE  Spec => []BestFirst
  <1>1. BestInv /\ [Next]_vars => BestInv'
    BY BestStep
  <1>2. QED BY <1>1, BestStart, BestMeans, PTL DEF Spec

\* ... and none that is answered at all gives a row another score.
THEOREM ShippedNeverWrong ==
    ASSUME \A q \in Questions : InShape(q.spec.phases) \/ NeverLoads(q.spec.phases)
    PROVE  Spec => []NeverSilentlyWrong
  <1>1. BestInv /\ [Next]_vars => BestInv'
    BY BestStep
  <1>2. BestInv => NeverSilentlyWrong
    BY BestMeans DEF BestFirst, NeverSilentlyWrong
  <1>3. QED BY <1>1, <1>2, BestStart, PTL DEF Spec
-----------------------------------------------------------------------------
(* A log of visits and a counter agree.                                       *)

\* The multiplicative score of visits is that of their number and the last one.
LEMMA LogIsCounter ==
    ASSUME spec \in Specs, NEW e \in Entries, e.visits # <<>>,
           spec.combine = "FreqTimesLatestDecay"
    PROVE  VisitScore(e) = ScoreCounted(spec, Len(e.visits), Now - Max(ToSet(e.visits)))
  <1> DEFINE visits  == e.visits
             ages    == AgesOf(e)
             decayed == DecayedOf(e)
             T       == ToSet(visits)
  <1>1. /\ visits \in Seq(Int) /\ visits # <<>> /\ Now \in Int
        /\ DOMAIN visits = 1..Len(visits) /\ Len(visits) \in Nat \ {0}
        /\ \A v \in DOMAIN visits : visits[v] \in Int
    BY RankingAssumption DEF Entries
  <1>2. /\ ages = [v \in DOMAIN visits |-> Now - visits[v]]
        /\ decayed = [v \in DOMAIN visits |-> Decay(spec, Now - visits[v])]
    BY DEF AgesOf, DecayedOf
  <1>3. VisitScore(e) = CombineScore(spec, decayed, Len(visits), LatestDecay(ages, decayed))
    BY CombinedIsWorth
  <1>4. T = {visits[v] : v \in DOMAIN visits}
    BY DEF ToSet
  <1> HIDE DEF visits, ages, decayed, T
  <1>5. ages \in Seq(Int) /\ ages # <<>> /\ DOMAIN ages = DOMAIN visits
        /\ \A v \in DOMAIN visits : ages[v] = Now - visits[v]
    BY <1>1, <1>2
  <1>6. decayed \in Seq(Int) /\ DOMAIN decayed = DOMAIN ages
        /\ \A v \in DOMAIN visits : decayed[v] = Decay(spec, Now - visits[v])
    <2>1. \A v \in DOMAIN visits : Now - visits[v] \in Int
      BY <1>1
    <2>2. \A v \in DOMAIN visits : Decay(spec, Now - visits[v]) \in Int
      BY <2>1, DecayType
    <2>3. QED BY <1>1, <1>2, <2>2
  <1>7. PICK i \in DOMAIN visits : /\ \A j \in DOMAIN visits : ages[i] <= ages[j]
                                   /\ LatestDecay(ages, decayed) = decayed[i]
    BY <1>5, <1>6, LatestIs
  <1>8. \A j \in DOMAIN visits : visits[j] <= visits[i]
    BY <1>1, <1>5, <1>7
  <1>9. Max(T) = visits[i]
    <2>1. visits[i] \in T /\ \A y \in T : visits[i] >= y
      BY <1>1, <1>4, <1>7, <1>8
    <2>2. Max(T) \in T /\ \A y \in T : Max(T) >= y
      BY <2>1 DEF Max
    <2>3. Max(T) \in Int /\ visits[i] \in Int /\ Max(T) >= visits[i] /\ visits[i] >= Max(T)
      BY <1>1, <1>4, <2>1, <2>2
    <2>4. QED BY <2>3
  <1>10. LatestDecay(ages, decayed) = Decay(spec, Now - Max(T))
    BY <1>6, <1>7, <1>9
  <1>11. QED BY <1>3, <1>10 DEF ScoreCounted, CombineScore, visits, T

\* Whatever the log and the order of its rows: without a needle a shipped
\* pipeline gives a log of visits the score of the counter that score_counted
\* takes instead.
THEOREM LogAndCounterAgree ==
    ASSUME \A q \in Questions : InShape(q.spec.phases) \/ NeverLoads(q.spec.phases)
    PROVE  Spec => []CounterAgrees
  <1>1. BestInv /\ [Next]_vars => BestInv'
    BY BestStep
  <1>2. BestInv => CounterAgrees
    <2> SUFFICES ASSUME BestInv, outcome = "ok", spec.combine = "FreqTimesLatestDecay",
                        ~question.needle.given, NEW r \in ToSet(ranked),
                        NEW e \in ToSet(question.entries), e.path = r.path, ~e.discovered_only
                 PROVE  r.score = ScoreCounted(spec, Len(e.visits), Now - Max(ToSet(e.visits)))
      BY DEF CounterAgrees
    <2> DEFINE entries == question.entries
    <2>1. r \in Candidates
      BY BestMeans DEF BestFirst
    <2>2. PICK i \in DOMAIN entries : r = [path |-> entries[i].path, score |-> Worth(entries[i])]
      BY <2>1, CandidateIs
    <2>3. PICK j \in DOMAIN entries : e = entries[j]
      BY DEF ToSet
    <2>4. /\ RankingInv /\ spec \in Specs /\ entries \in Seq(Entries)
          /\ \A a, b \in DOMAIN entries : entries[a].path = entries[b].path => a = b
          /\ \A x \in ToSet(entries) : x.visits = <<>> => x.discovered_only
      BY QuestionIs DEF BestInv, Entries
    <2>5. e \in Entries /\ e.visits # <<>> /\ r.path = entries[i].path /\ r.score = Worth(entries[i])
      BY <2>2, <2>3, <2>4
    <2>6. entries[i] = e
      BY <2>2, <2>3, <2>4, <2>5
    <2>7. Worth(e) = VisitScore(e) * 1
      BY DEF Worth
    <2>8. VisitScore(e) = ScoreCounted(spec, Len(e.visits), Now - Max(ToSet(e.visits)))
      BY <2>4, <2>5, LogIsCounter
    <2>9. VisitScore(e) \in Int
      <3>1. e.visits \in Seq(Int)
        BY <2>5 DEF Entries
      <3>2. VisitScore(e) = CombineScore(spec, DecayedOf(e), Len(e.visits),
                                         LatestDecay(AgesOf(e), DecayedOf(e)))
        BY <2>4, <2>5, CombinedIsWorth
      <3>3. AgesOf(e) \in Seq(Int) /\ DecayedOf(e) \in Seq(Int)
        <4>1. \A v \in DOMAIN e.visits : Now - e.visits[v] \in Int
          BY <3>1, RankingAssumption
        <4>2. \A v \in DOMAIN e.visits : Decay(spec, Now - e.visits[v]) \in Int
          BY <2>4, <4>1, DecayType
        <4>3. DOMAIN e.visits = 1..Len(e.visits) /\ Len(e.visits) \in Nat
          BY <3>1
        <4> DEFINE visits == e.visits
        <4> HIDE DEF visits
        <4>4. [v \in DOMAIN visits |-> Now - visits[v]] \in Seq(Int)
          BY <4>1, <4>3 DEF visits
        <4>5. [v \in DOMAIN visits |-> Decay(spec, Now - visits[v])] \in Seq(Int)
          BY <4>2, <4>3 DEF visits
        <4>6. QED BY <4>4, <4>5 DEF AgesOf, DecayedOf, visits
      <3>4. LatestDecay(AgesOf(e), DecayedOf(e)) \in Int /\ Len(e.visits) \in Nat
        BY <3>1, <3>3, LatestType
      <3>5. QED BY <2>4, <3>2, <3>3, <3>4, CombineType
    <2> HIDE DEF entries
    <2>10. r.score = VisitScore(e)
      BY <2>5, <2>6, <2>7, <2>9
    <2>11. QED BY <2>8, <2>10
  <1>3. QED BY <1>1, <1>2, BestStart, PTL DEF Spec
-----------------------------------------------------------------------------
(* The pipelines that are shipped are of the kinds above.                     *)

LEMMA ShapeCollapsesLast ==
    ASSUME NEW phases, InShape(phases)
    PROVE  CollapsesLast(phases)
  <1>1. InShape(phases)
    OBVIOUS
  <1>2. /\ DOMAIN phases \subseteq 1..9
        /\ 9 \in DOMAIN phases => phases[9].kind = "TopK"
        /\ 8 \in DOMAIN phases /\ phases[8].kind = "CollapseDescendants" => phases[8].keep = 0
    BY <1>1 DEF InShape
  <1>3. \A i \in DOMAIN phases : phases[i].kind = "CollapseDescendants" => i = 8
    <2>1. \A i \in {1, 2, 3, 4, 5, 6, 7} : phases[i].kind # "CollapseDescendants"
      BY <1>1 DEF InShape
    <2>2. \A i \in 1..9 : i \in {1, 2, 3, 4, 5, 6, 7} \/ i = 8 \/ i = 9
      OBVIOUS
    <2>3. QED BY <1>2, <2>1, <2>2
  <1>4. \A j \in DOMAIN phases : 8 < j => j = 9
    BY <1>2
  <1>5. QED BY <1>2, <1>3, <1>4 DEF CollapsesLast

\* The four instances of spec.rs, whatever their cut: the hypotheses of the
\* theorems above are what they are.
THEOREM ParitiesAreShipped ==
    ASSUME NEW n \in Nat,
           NEW s \in {SkimtabParity(n), ZoxideParity(n), SubstringLegacyParity(n), PracaParity(n)}
    PROVE  InShape(s.phases) /\ CollapsesLast(s.phases)
  <1>1. SkimtabParity(n).phases = CanonicalPhases(n)
    BY DEF SkimtabParity
  <1>2. SubstringLegacyParity(n).phases = Scored \o Cut(n)
    BY DEF SubstringLegacyParity, SkimtabParity
  <1>3. ZoxideParity(n).phases = CanonicalPhases(n) /\ PracaParity(n).phases = CanonicalPhases(n)
    BY <1>1 DEF ZoxideParity, PracaParity, SkimtabParity
  <1>4. IsShipped(s.phases)
    BY <1>1, <1>2, <1>3 DEF IsShipped
  <1>5. QED BY <1>4, ShippedInShape, ShapeCollapsesLast
=============================================================================
