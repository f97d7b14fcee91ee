------------------------------ MODULE QuestionsProofs ------------------------------
(* What the parts that only compute promise, for every input: SQLite's range   *)
(* of bytes holds exactly the rows that path_is_same_or_under accepts, which   *)
(* are those below it component by component; classify_raw's scans, which      *)
(* never go back, find a layout whenever there is one; the tiers share a store *)
(* and the default indexes what the discovered one does; the feed counts every *)
(* line and pins one; matches_all finds the keywords in order; a file of       *)
(* db.zo's bytes is parsed if and only if it encodes rows; and a run of them   *)
(* all is a run of each.                                                       *)
EXTENDS MCQuestions, RankingProofs

-----------------------------------------------------------------------------
(* The subtree tests of both stores.                                          *)

\* A string with one more byte: the byte is last, the others stay.
LEMMA AppendOne ==
    ASSUME NEW s \in Seq(Nat), NEW b \in Nat
    PROVE  /\ Append(s, b) \in Seq(Nat)
           /\ Len(Append(s, b)) = Len(s) + 1
           /\ Append(s, b)[Len(s) + 1] = b
           /\ \A i \in 1..Len(s) : Append(s, b)[i] = s[i]
  OBVIOUS

\* A row below the prefix lies in the range.
LEMMA BelowInRange ==
    ASSUME NEW x \in Seq(Nat), NEW p \in Seq(Nat),
           Len(p) < Len(x), StartsWith(x, p), x[Len(p) + 1] = Slash
    PROVE  ~Less(x, Append(p, Slash)) /\ Less(x, Append(p, Zero))
  <1> DEFINE n == Len(p)  a == Append(p, Slash)  b == Append(p, Zero)
  <1>1. n \in Nat /\ Len(x) \in Nat /\ n + 1 <= Len(x)
    OBVIOUS
  <1>2. Len(a) = n + 1 /\ a[n + 1] = 47 /\ \A i \in 1..n : a[i] = p[i]
    BY AppendOne DEF Slash
  <1>3. Len(b) = n + 1 /\ b[n + 1] = 48 /\ \A i \in 1..n : b[i] = p[i]
    BY AppendOne DEF Zero
  <1>4. \A i \in 1..n : x[i] = p[i]
    BY DEF StartsWith
  <1>5. x[n + 1] = 47
    BY DEF Slash
  <1> HIDE DEF n, a, b
  <1>6. ~Less(x, a)
    <2> SUFFICES ASSUME NEW k \in 1..Len(a), k <= Len(x) => x[k] < a[k]
                 PROVE  FALSE
      BY DEF Less
    <2>1. k \in 1..(n + 1) /\ k <= Len(x)
      BY <1>1, <1>2
    <2>2. x[k] = a[k]
      <3>1. CASE k = n + 1
        BY <3>1, <1>2, <1>5
      <3>2. CASE k # n + 1
        <4>1. k \in 1..n
          BY <2>1, <3>2, <1>1
        <4>2. QED BY <4>1, <1>2, <1>4
      <3>3. QED BY <3>1, <3>2
    <2>3. x[k] \in Nat
      BY <2>1, <1>1
    <2>4. QED BY <2>1, <2>2, <2>3
  <1>7. Less(x, b)
    <2>1. n + 1 \in 1..Len(b) /\ n + 1 <= Len(x) + 1
      BY <1>1, <1>3
    <2>2. \A i \in 1..((n + 1) - 1) : x[i] = b[i]
      BY <1>1, <1>3, <1>4
    <2>3. x[n + 1] < b[n + 1]
      BY <1>3, <1>5
    <2>4. QED BY <2>1, <2>2, <2>3 DEF Less
  <1>8. QED BY <1>6, <1>7 DEF a, b

\* A row of the range other than the prefix itself lies below it.
LEMMA InRangeBelow ==
    ASSUME NEW x \in Seq(Nat), NEW p \in Seq(Nat),
           ~Less(x, Append(p, Slash)), Less(x, Append(p, Zero))
    PROVE  Len(p) < Len(x) /\ StartsWith(x, p) /\ x[Len(p) + 1] = Slash
  <1> DEFINE n == Len(p)  a == Append(p, Slash)  b == Append(p, Zero)
  <1>1. n \in Nat /\ Len(x) \in Nat
    OBVIOUS
  <1>2. Len(a) = n + 1 /\ a[n + 1] = 47 /\ \A i \in 1..n : a[i] = p[i]
    BY AppendOne DEF Slash
  <1>3. Len(b) = n + 1 /\ b[n + 1] = 48 /\ \A i \in 1..n : b[i] = p[i]
    BY AppendOne DEF Zero
  <1>4. ~Less(x, a) /\ Less(x, b)
    OBVIOUS
  <1> HIDE DEF n, a, b
  <1>5. PICK k \in 1..(n + 1) : /\ k <= Len(x) + 1
                                /\ \A i \in 1..(k - 1) : x[i] = b[i]
                                /\ k <= Len(x) => x[k] < b[k]
    BY <1>3, <1>4 DEF Less
  <1>6. \A i \in 1..(k - 1) : x[i] = a[i]
    BY <1>1, <1>2, <1>3, <1>5
  <1>7. ~(k <= Len(x) => x[k] < a[k])
    BY <1>2, <1>4, <1>5, <1>6 DEF Less
  <1>8. k = n + 1
    <2> SUFFICES ASSUME k \in 1..n PROVE FALSE
      BY <1>1, <1>5
    <2>1. a[k] = b[k]
      BY <1>2, <1>3
    <2>2. QED BY <2>1, <1>5, <1>7
  <1>9. n + 1 <= Len(x) /\ x[n + 1] < 48 /\ ~(x[n + 1] < 47)
    BY <1>2, <1>3, <1>5, <1>7, <1>8
  <1>10. x[n + 1] \in Nat
    BY <1>1, <1>9
  <1>11. x[n + 1] = 47
    BY <1>9, <1>10
  <1>12. \A i \in 1..n : x[i] = p[i]
    BY <1>1, <1>3, <1>5, <1>8
  <1>13. QED BY <1>1, <1>9, <1>11, <1>12 DEF StartsWith, Slash, n

\* `prefix || '/' <= path < prefix || '0'` is exactly "under prefix" under the
\* binary collation, as the comment in discovered_under claims.
THEOREM RangeIsSubtree ==
    ASSUME NEW x \in Seq(Nat), NEW p \in Seq(Nat)
    PROVE  PathIsSameOrUnder(x, p) <=> InRange(x, p)
  BY BelowInRange, InRangeBelow DEF PathIsSameOrUnder, InRange

\* A question that is asked of strings, and what was answered.
StoresInv ==
    /\ path \in Seq(Nat) /\ prefix \in Seq(Nat)
    /\ mem \in {"unasked", IF PathIsSameOrUnder(path, prefix) THEN "under" ELSE "outside"}
    /\ sqlite \in {"unasked", IF InRange(path, prefix) THEN "under" ELSE "outside"}

LEMMA StoresStay == RangeSpec => []StoresInv
  <1>1. RangeInit => StoresInv
    <2>1. ASSUME NEW m \in Nat, NEW x \in BytesUpTo(m) PROVE x \in Seq(Nat)
      <3>1. PICK k \in 0..m : x \in [1..k -> Bytes]
        BY DEF BytesUpTo
      <3>2. k \in Nat
        OBVIOUS
      <3>3. \A i \in 1..k : x[i] \in Nat
        BY <3>1, BytesAssumption
      <3>4. x \in [1..k -> Nat]
        BY <3>1, <3>3
      <3>5. QED BY <3>2, <3>4
    <2>2. QED BY <2>1, BytesAssumption DEF RangeInit, StoresInv
  <1>2. StoresInv /\ [RangeNext]_rangeVars => StoresInv'
    BY DEF StoresInv, RangeNext, rangeVars, AskMem, AskSqlite
  <1>3. QED BY <1>1, <1>2, PTL DEF RangeSpec

\* Whatever the table holds and whatever prefix is asked for, the two stores
\* answer alike.
THEOREM StoresAnswerAlike == RangeSpec => []StoresAgree
  <1>1. StoresInv => StoresAgree
    BY RangeIsSubtree DEF StoresInv, StoresAgree
  <1>2. QED BY <1>1, StoresStay, PTL
-----------------------------------------------------------------------------
(* Scans.  A scan is a fold: its cursors, one after the other.                *)

\* Item k meets place i of the hay when <<k, i>> is in M.
StepOf(M, m, k, cursor) ==
    LET met == {i \in (cursor + 1)..m : <<k, i>> \in M}
    IN  IF cursor = Lost \/ met = {} THEN Lost ELSE Min(met)

Cursors == {Lost} \cup Nat

LEMMA StepOfType ==
    ASSUME NEW M, NEW m \in Nat, NEW k, NEW c \in Cursors
    PROVE  StepOf(M, m, k, c) \in Cursors
  <1> DEFINE met == {i \in (c + 1)..m : <<k, i>> \in M}
  <1>1. CASE c = Lost \/ met = {}
    BY <1>1 DEF StepOf, Cursors
  <1>2. CASE ~(c = Lost \/ met = {})
    <2>1. met \subseteq Nat
      BY <1>2 DEF Cursors
    <2>2. StepOf(M, m, k, c) = Min(met)
      BY <1>2 DEF StepOf
    <2> HIDE DEF met
    <2>3. Min(met) \in Nat
      BY <1>2, <2>1, MinOf
    <2>4. QED BY <2>2, <2>3 DEF Cursors
  <1>3. QED BY <1>1, <1>2

\* The cursors of a scan of n items.
IsScan(a, n, m, M) == a[0] = 0 /\ \A k \in 1..n : a[k] = StepOf(M, m, k, a[k - 1])

\* What a scan's fold is at each set of items, and along them.
IsScanFold(h, n, m, M) ==
    /\ h \in [SUBSET (1..n) -> Cursors]
    /\ \A s \in SUBSET (1..n) :
          h[s] = IF s = {} THEN 0 ELSE StepOf(M, m, Max(s), h[s \ {Max(s)}])

StepsAlong(iter, n, m, M) ==
    /\ iter[{}] = 0
    /\ \A k \in 1..n : iter[1..(k - 1)] \in Cursors =>
          iter[1..k] = StepOf(M, m, k, iter[1..(k - 1)])

LEMMA ScanFold ==
    ASSUME NEW n \in Nat, NEW m \in Nat, NEW M
    PROVE  \E h : IsScanFold(h, n, m, M)
  <1> DEFINE G == [p \in (1..n) \X Cursors |-> StepOf(M, m, p[1], p[2])]
  <1>1. G \in [(1..n) \X Cursors -> Cursors]
    <2>1. \A p \in (1..n) \X Cursors : StepOf(M, m, p[1], p[2]) \in Cursors
      BY StepOfType
    <2>2. QED BY <2>1
  <1>2. 0 \in Cursors
    BY DEF Cursors
  <1>3. PICK h : IsFold(h, n, Cursors, 0, G)
    <2> HIDE DEF G
    <2>1. QED BY <1>1, <1>2, FoldExists
  <1>4. ASSUME NEW s \in SUBSET (1..n), s # {}
        PROVE  h[s] = StepOf(M, m, Max(s), h[s \ {Max(s)}])
    <2>1. s \subseteq 0..n
      OBVIOUS
    <2>2. Max(s) \in s
      BY <1>4, <2>1, MaxOf
    <2> DEFINE k == Max(s)
               c == h[s \ {Max(s)}]
    <2>3. k \in 1..n /\ c \in Cursors
      BY <1>3, <2>2 DEF IsFold
    <2>4. h[s] = G[<<k, c>>]
      BY <1>3, <1>4 DEF IsFold
    <2> HIDE DEF k, c
    <2>5. G[<<k, c>>] = StepOf(M, m, k, c)
      BY <2>3
    <2>6. QED BY <2>4, <2>5 DEF k, c
  <1>5. h[{}] = 0 /\ h \in [SUBSET (1..n) -> Cursors]
    BY <1>3 DEF IsFold
  <1>6. QED BY <1>4, <1>5 DEF IsScanFold

LEMMA ScanIs ==
    ASSUME NEW n \in Nat, NEW m \in Nat, NEW M, NEW iter, StepsAlong(iter, n, m, M)
    PROVE  \E a : IsScan(a, n, m, M) /\ iter[1..n] = a[n]
  <1> DEFINE a == [k \in 0..n |-> iter[1..k]]
             P == {k \in Nat : k <= n => a[k] \in Cursors}
  <1>1. a[0] = 0 /\ \A k \in 1..n : a[k - 1] \in Cursors => a[k] = StepOf(M, m, k, a[k - 1])
    <2>1. 1..0 = {}
      OBVIOUS
    <2>2. \A k \in 1..n : a[k] = iter[1..k] /\ a[k - 1] = iter[1..(k - 1)]
      OBVIOUS
    <2>3. QED BY <2>1, <2>2 DEF StepsAlong
  <1>2. a[n] = iter[1..n]
    OBVIOUS
  <1> HIDE DEF a
  <1>3. 0 \in P
    BY <1>1 DEF Cursors
  <1>4. ASSUME NEW k \in Nat, k \in P PROVE k + 1 \in P
    <2> SUFFICES ASSUME k + 1 <= n PROVE a[k + 1] \in Cursors
      OBVIOUS
    <2>1. k + 1 \in 1..n /\ (k + 1) - 1 = k /\ a[k] \in Cursors
      BY <1>4
    <2>2. a[k + 1] = StepOf(M, m, k + 1, a[k])
      BY <1>1, <2>1
    <2>3. QED BY <2>1, <2>2, StepOfType
  <1>5. \A k \in Nat : k <= n => a[k] \in Cursors
    <2> HIDE DEF P
    <2>1. Nat \subseteq P
      BY <1>3, <1>4, Induction
    <2>2. QED BY <2>1 DEF P
  <1>6. \A k \in 1..n : k - 1 \in Nat /\ k - 1 <= n
    OBVIOUS
  <1>7. IsScan(a, n, m, M)
    BY <1>1, <1>5, <1>6 DEF IsScan
  <1>8. QED BY <1>2, <1>7

\* The fragments and the ancestors they stand in.
WithinPairs(items, hay) ==
    {p \in (DOMAIN items) \X (DOMAIN hay) : Within(items[p[1]], hay[p[2]])}

LEMMA LeadingUnfolds ==
    ASSUME NEW S, NEW T, NEW items \in Seq(S), NEW hay \in Seq(T)
    PROVE  \E a : /\ IsScan(a, Len(items), Len(hay), WithinPairs(items, hay))
                  /\ LeadingCursor(items, hay) = a[Len(items)]
  <1> DEFINE n == Len(items)
             m == Len(hay)
             M == WithinPairs(items, hay)
             body(h) == [s \in SUBSET (DOMAIN items) |->
                            IF s = {} THEN 0
                            ELSE ScanFrom(hay, h[s \ {Max(s)}], items[Max(s)], Within)]
             iter == CHOOSE h : h = body(h)
  <1>1. n \in Nat /\ m \in Nat /\ DOMAIN items = 1..n /\ DOMAIN hay = 1..m
    OBVIOUS
  <1>2. LeadingCursor(items, hay) = iter[DOMAIN items]
    BY DEF LeadingCursor, Scan, FoldLeft, MapThenFoldSet
  <1>3. ASSUME NEW k \in 1..n, NEW c \in Cursors
        PROVE  ScanFrom(hay, c, items[k], Within) = StepOf(M, m, k, c)
    <2>1. ASSUME c # Lost, NEW i \in (c + 1)..m
          PROVE  Within(items[k], hay[i]) <=> <<k, i>> \in M
      <3>1. c \in Nat
        BY <2>1 DEF Cursors
      <3>2. i \in 1..m
        BY <1>1, <3>1
      <3>3. <<k, i>> \in (DOMAIN items) \X (DOMAIN hay)
        BY <1>1, <3>2
      <3>4. QED BY <3>3 DEF WithinPairs
    <2>2. c # Lost => {i \in (c + 1)..m : Within(items[k], hay[i])} = {i \in (c + 1)..m : <<k, i>> \in M}
      <3> HIDE DEF M, m, n
      <3>1. QED BY <2>1
    <2>3. QED BY <2>2 DEF StepOf, ScanFrom
  <1>4. PICK h : IsScanFold(h, n, m, M)
    <2> HIDE DEF n, m, M
    <2>1. QED BY <1>1, ScanFold
  <1>5. h = body(h)
    <2>1. ASSUME NEW s \in SUBSET (1..n), s # {}
          PROVE  h[s] = ScanFrom(hay, h[s \ {Max(s)}], items[Max(s)], Within)
      <3>1. s \subseteq 0..n
        OBVIOUS
      <3>2. Max(s) \in s
        BY <1>1, <2>1, <3>1, MaxOf
      <3>3. Max(s) \in 1..n /\ h[s \ {Max(s)}] \in Cursors
        BY <1>4, <3>2 DEF IsScanFold
      <3>4. h[s] = StepOf(M, m, Max(s), h[s \ {Max(s)}])
        BY <1>4, <2>1 DEF IsScanFold
      <3>5. QED BY <1>3, <3>3, <3>4
    <2>2. h[{}] = 0 /\ h = [s \in SUBSET (1..n) |-> h[s]]
      BY <1>4 DEF IsScanFold
    <2>3. QED BY <1>1, <2>1, <2>2
  <1>6. iter = body(iter)
    BY <1>5
  <1> HIDE DEF iter
  <1>7. iter[{}] = 0
    BY <1>6
  <1>8. ASSUME NEW k \in 1..n, iter[1..(k - 1)] \in Cursors
        PROVE  iter[1..k] = StepOf(M, m, k, iter[1..(k - 1)])
    <2>1. Max(1..k) = k /\ (1..k) \ {k} = 1..(k - 1) /\ 1..k # {} /\ 1..k \in SUBSET DOMAIN items
      BY <1>1, MaxOfInterval
    <2>2. iter[1..k] = ScanFrom(hay, iter[(1..k) \ {Max(1..k)}], items[Max(1..k)], Within)
      BY <1>6, <2>1
    <2>3. QED BY <1>3, <1>8, <2>1, <2>2
  <1>9. StepsAlong(iter, n, m, M)
    BY <1>7, <1>8 DEF StepsAlong
  <1> HIDE DEF n, m, M
  <1>10. \E a : IsScan(a, n, m, M) /\ iter[1..n] = a[n]
    BY <1>1, <1>9, ScanIs
  <1>11. QED BY <1>1, <1>2, <1>10 DEF n, m, M

\* The characters and the places they are found at.
EqualPairs(items, hay) ==
    {p \in (DOMAIN items) \X (DOMAIN hay) : items[p[1]] = hay[p[2]]}

\* ScanFrom with equality.
SameFrom(hay, cursor, item) ==
    LET met == {i \in (cursor + 1)..Len(hay) : item = hay[i]}
    IN  IF cursor = Lost \/ met = {} THEN Lost ELSE Min(met)

LEMMA SubsequenceUnfolds ==
    ASSUME NEW S, NEW T, NEW items \in Seq(S), NEW hay \in Seq(T)
    PROVE  \E a : /\ IsScan(a, Len(items), Len(hay), EqualPairs(items, hay))
                  /\ (IsSubsequence(items, hay) <=> a[Len(items)] # Lost)
  <1> DEFINE n == Len(items)
             m == Len(hay)
             M == EqualPairs(items, hay)
             body(h) == [s \in SUBSET (DOMAIN items) |->
                            IF s = {} THEN 0
                            ELSE SameFrom(hay, h[s \ {Max(s)}], items[Max(s)])]
             iter == CHOOSE h : h = body(h)
  <1>1. n \in Nat /\ m \in Nat /\ DOMAIN items = 1..n /\ DOMAIN hay = 1..m
    OBVIOUS
  <1>2. IsSubsequence(items, hay) <=> iter[DOMAIN items] # Lost
    BY DEF IsSubsequence, Scan, FoldLeft, MapThenFoldSet, ScanFrom, SameFrom
  <1>3. ASSUME NEW k \in 1..n, NEW c \in Cursors
        PROVE  SameFrom(hay, c, items[k]) = StepOf(M, m, k, c)
    <2>1. ASSUME c # Lost, NEW i \in (c + 1)..m
          PROVE  items[k] = hay[i] <=> <<k, i>> \in M
      <3>1. c \in Nat
        BY <2>1 DEF Cursors
      <3>2. i \in 1..m
        BY <1>1, <3>1
      <3>3. <<k, i>> \in (DOMAIN items) \X (DOMAIN hay)
        BY <1>1, <3>2
      <3>4. QED BY <3>3 DEF EqualPairs
    <2>2. c # Lost => {i \in (c + 1)..m : items[k] = hay[i]} = {i \in (c + 1)..m : <<k, i>> \in M}
      <3> HIDE DEF M, m, n
      <3>1. QED BY <2>1
    <2>3. QED BY <2>2 DEF StepOf, SameFrom
  <1>4. PICK h : IsScanFold(h, n, m, M)
    <2> HIDE DEF n, m, M
    <2>1. QED BY <1>1, ScanFold
  <1>5. h = body(h)
    <2>1. ASSUME NEW s \in SUBSET (1..n), s # {}
          PROVE  h[s] = SameFrom(hay, h[s \ {Max(s)}], items[Max(s)])
      <3>1. s \subseteq 0..n
        OBVIOUS
      <3>2. Max(s) \in s
        BY <1>1, <2>1, <3>1, MaxOf
      <3>3. Max(s) \in 1..n /\ h[s \ {Max(s)}] \in Cursors
        BY <1>4, <3>2 DEF IsScanFold
      <3>4. h[s] = StepOf(M, m, Max(s), h[s \ {Max(s)}])
        BY <1>4, <2>1 DEF IsScanFold
      <3>5. QED BY <1>3, <3>3, <3>4
    <2>2. h[{}] = 0 /\ h = [s \in SUBSET (1..n) |-> h[s]]
      BY <1>4 DEF IsScanFold
    <2>3. QED BY <1>1, <2>1, <2>2
  <1>6. iter = body(iter)
    BY <1>5
  <1> HIDE DEF iter
  <1>7. iter[{}] = 0
    BY <1>6
  <1>8. ASSUME NEW k \in 1..n, iter[1..(k - 1)] \in Cursors
        PROVE  iter[1..k] = StepOf(M, m, k, iter[1..(k - 1)])
    <2>1. Max(1..k) = k /\ (1..k) \ {k} = 1..(k - 1) /\ 1..k # {} /\ 1..k \in SUBSET DOMAIN items
      BY <1>1, MaxOfInterval
    <2>2. iter[1..k] = SameFrom(hay, iter[(1..k) \ {Max(1..k)}], items[Max(1..k)])
      BY <1>6, <2>1
    <2>3. QED BY <1>3, <1>8, <2>1, <2>2
  <1>9. StepsAlong(iter, n, m, M)
    BY <1>7, <1>8 DEF StepsAlong
  <1> HIDE DEF n, m, M
  <1>10. \E a : IsScan(a, n, m, M) /\ iter[1..n] = a[n]
    BY <1>1, <1>9, ScanIs
  <1>11. QED BY <1>1, <1>2, <1>10 DEF n, m, M

\* A way to lay the first k items on the m places of a hay.
Lays(e, k, m, M) ==
    /\ e \in [1..k -> 1..m]
    /\ \A i, j \in 1..k : i < j => e[i] < e[j]
    /\ \A i \in 1..k : <<i, e[i]>> \in M

\* What the cursor says after k items: the place of the last one in a layout,
\* and no layout ends before it.
Tight(c, k, m, M) ==
    /\ c \in {Lost} \cup (0..m)
    /\ k = 0 => c = 0
    /\ c # Lost => \E e : Lays(e, k, m, M) /\ (k > 0 => e[k] = c)
    /\ \A e : Lays(e, k, m, M) => c # Lost /\ (k > 0 => c <= e[k])

LEMMA TightStart == ASSUME NEW m \in Nat, NEW M PROVE Tight(0, 0, m, M)
  <1> DEFINE e == [i \in 1..0 |-> 1]
  <1>1. Lays(e, 0, m, M)
    BY DEF Lays
  <1>2. QED BY <1>1 DEF Tight, Lost

LEMMA TightStep ==
    ASSUME NEW m \in Nat, NEW M, NEW k \in Nat, NEW c, Tight(c, k, m, M)
    PROVE  Tight(StepOf(M, m, k + 1, c), k + 1, m, M)
  <1> DEFINE met == {i \in (c + 1)..m : <<k + 1, i>> \in M}
             d == StepOf(M, m, k + 1, c)
  <1>1. c = Lost \/ c \in 0..m
    BY DEF Tight
  <1>2. ASSUME NEW e, Lays(e, k + 1, m, M) PROVE c # Lost /\ e[k + 1] \in met
    <2> DEFINE g == [i \in 1..k |-> e[i]]
    <2>1. /\ e \in [1..(k + 1) -> 1..m]
          /\ \A i, j \in 1..(k + 1) : i < j => e[i] < e[j]
          /\ \A i \in 1..(k + 1) : <<i, e[i]>> \in M
      BY <1>2 DEF Lays
    <2>2. Lays(g, k, m, M)
      BY <2>1 DEF Lays
    <2>3. c # Lost /\ (k > 0 => c <= g[k])
      <3> HIDE DEF g
      <3>1. QED BY <2>2 DEF Tight
    <2>4. k + 1 \in 1..(k + 1) /\ e[k + 1] \in 1..m /\ <<k + 1, e[k + 1]>> \in M
      BY <2>1
    <2>5. c < e[k + 1]
      <3>1. CASE k = 0
        BY <2>3, <2>4, <3>1 DEF Tight
      <3>2. CASE k > 0
        <4>1. k \in 1..(k + 1) /\ k < k + 1 /\ k \in 1..k
          BY <3>2
        <4>2. e[k] < e[k + 1] /\ e[k] \in 1..m /\ g[k] = e[k]
          BY <2>1, <2>4, <4>1
        <4>3. c <= e[k]
          BY <2>3, <3>2, <4>2
        <4>4. c \in Int /\ e[k] \in Int /\ e[k + 1] \in Int
          BY <1>1, <2>3, <2>4, <4>2
        <4>5. QED BY <4>2, <4>3, <4>4
      <3>3. QED BY <3>1, <3>2
    <2>6. e[k + 1] \in (c + 1)..m
      BY <1>1, <2>3, <2>4, <2>5
    <2>7. QED BY <2>3, <2>4, <2>6
  <1>3. CASE c = Lost \/ met = {}
    <2>1. d = Lost
      BY <1>3 DEF StepOf
    <2>2. \A e : ~Lays(e, k + 1, m, M)
      BY <1>2, <1>3
    <2>3. QED BY <2>1, <2>2 DEF Tight
  <1>4. CASE c # Lost /\ met # {}
    <2>1. c \in 0..m
      BY <1>1, <1>4
    <2>2. met \subseteq Nat
      BY <2>1
    <2>3. d = Min(met)
      BY <1>4 DEF StepOf
    <2>4. d \in met /\ \A i \in met : d <= i
      <3> HIDE DEF met
      <3>1. QED BY <1>4, <2>2, <2>3, MinOf
    <2>5. d \in (c + 1)..m /\ <<k + 1, d>> \in M
      BY <2>4
    <2> HIDE DEF d
    <2>6. \E e : Lays(e, k + 1, m, M) /\ e[k + 1] = d
      <3>1. PICK e : Lays(e, k, m, M) /\ (k > 0 => e[k] = c)
        BY <1>4 DEF Tight
      <3> DEFINE g == [i \in 1..(k + 1) |-> IF i = k + 1 THEN d ELSE e[i]]
      <3>2. /\ e \in [1..k -> 1..m]
            /\ \A i, j \in 1..k : i < j => e[i] < e[j]
            /\ \A i \in 1..k : <<i, e[i]>> \in M
        BY <3>1 DEF Lays
      <3>3. \A i \in 1..k : g[i] = e[i] /\ e[i] \in 1..m
        BY <3>2
      <3>4. g[k + 1] = d /\ d \in 1..m
        BY <2>1, <2>5
      <3>5. \A i \in 1..(k + 1) : i \in 1..k \/ i = k + 1
        OBVIOUS
      <3>6. g \in [1..(k + 1) -> 1..m]
        BY <3>3, <3>4, <3>5
      <3> HIDE DEF g
      <3>7. \A i \in 1..(k + 1) : <<i, g[i]>> \in M
        BY <2>5, <3>2, <3>3, <3>4, <3>5
      <3>8. ASSUME NEW i \in 1..k PROVE e[i] <= c
        <4>1. k > 0 /\ k \in 1..k /\ e[k] = c
          BY <3>1
        <4>2. i = k \/ e[i] < e[k]
          BY <3>2, <4>1
        <4>3. e[i] \in Int /\ c \in Int
          BY <2>1, <3>3
        <4>4. QED BY <4>1, <4>2, <4>3
      <3>9. ASSUME NEW i \in 1..(k + 1), NEW j \in 1..(k + 1), i < j PROVE g[i] < g[j]
        <4>1. i \in 1..k
          BY <3>9
        <4>2. CASE j \in 1..k
          BY <3>2, <3>3, <3>9, <4>1, <4>2
        <4>3. CASE j = k + 1
          <5>1. e[i] <= c /\ c + 1 <= d /\ c \in Int /\ d \in Int /\ e[i] \in Int
            BY <2>1, <2>5, <3>3, <3>8, <4>1
          <5>2. QED BY <3>3, <3>4, <4>1, <4>3, <5>1
        <4>4. QED BY <3>5, <4>2, <4>3
      <3>10. Lays(g, k + 1, m, M)
        BY <3>6, <3>7, <3>9 DEF Lays
      <3>11. QED BY <3>4, <3>10
    <2>7. \A e : Lays(e, k + 1, m, M) => d <= e[k + 1]
      BY <1>2, <2>4
    <2>8. d \in 0..m /\ d # Lost
      BY <2>1, <2>5 DEF Lost
    <2>9. QED BY <2>6, <2>7, <2>8 DEF Tight, d
  <1>5. QED BY <1>3, <1>4

\* A scan that takes the first place that will do loses nothing.
LEMMA ScanIsTight ==
    ASSUME NEW n \in Nat, NEW m \in Nat, NEW M, NEW a, IsScan(a, n, m, M)
    PROVE  Tight(a[n], n, m, M)
  <1> DEFINE P == {k \in Nat : k <= n => Tight(a[k], k, m, M)}
  <1>1. 0 \in P
    BY TightStart DEF IsScan
  <1>2. ASSUME NEW k \in Nat, k \in P PROVE k + 1 \in P
    <2> SUFFICES ASSUME k + 1 <= n PROVE Tight(a[k + 1], k + 1, m, M)
      OBVIOUS
    <2>1. Tight(a[k], k, m, M)
      BY <1>2
    <2>2. k + 1 \in 1..n /\ (k + 1) - 1 = k
      OBVIOUS
    <2>3. a[k + 1] = StepOf(M, m, k + 1, a[k])
      BY <2>2 DEF IsScan
    <2>4. QED BY <2>1, <2>3, TightStep
  <1>3. n \in P
    <2> HIDE DEF P
    <2>1. QED BY <1>1, <1>2, Induction
  <1>4. QED BY <1>3
-----------------------------------------------------------------------------
(* Kinds of match.                                                            *)

LEMMA LayoutsAreLays ==
    ASSUME NEW S, NEW T, NEW items \in Seq(S), NEW hay \in Seq(T)
    PROVE  /\ \A e : e \in Layouts(items, hay, Within) <=>
                     Lays(e, Len(items), Len(hay), WithinPairs(items, hay))
           /\ \A e : e \in Layouts(items, hay, LAMBDA a, b : a = b) <=>
                     Lays(e, Len(items), Len(hay), EqualPairs(items, hay))
  <1> DEFINE n == Len(items)
             m == Len(hay)
  <1>1. n \in Nat /\ m \in Nat /\ DOMAIN items = 1..n /\ DOMAIN hay = 1..m
    OBVIOUS
  <1>2. ASSUME NEW e \in [1..n -> 1..m], NEW i \in 1..n
        PROVE  /\ <<i, e[i]>> \in WithinPairs(items, hay) <=> Within(items[i], hay[e[i]])
               /\ <<i, e[i]>> \in EqualPairs(items, hay) <=> items[i] = hay[e[i]]
    <2>1. <<i, e[i]>> \in (DOMAIN items) \X (DOMAIN hay)
      BY <1>1
    <2>2. QED BY <2>1 DEF WithinPairs, EqualPairs
  <1> HIDE DEF n, m
  <1>3. ASSUME NEW e
        PROVE  e \in Layouts(items, hay, Within) <=> Lays(e, n, m, WithinPairs(items, hay))
    BY <1>1, <1>2 DEF Layouts, Lays
  <1>4. ASSUME NEW e
        PROVE  e \in Layouts(items, hay, LAMBDA a, b : a = b) <=>
               Lays(e, n, m, EqualPairs(items, hay))
    BY <1>1, <1>2 DEF Layouts, Lays
  <1>5. QED BY <1>3, <1>4 DEF n, m

LEMMA LeadingIsTight ==
    ASSUME NEW S, NEW T, NEW items \in Seq(S), NEW hay \in Seq(T)
    PROVE  Tight(LeadingCursor(items, hay), Len(items), Len(hay), WithinPairs(items, hay))
  <1>1. PICK a : /\ IsScan(a, Len(items), Len(hay), WithinPairs(items, hay))
                 /\ LeadingCursor(items, hay) = a[Len(items)]
    BY LeadingUnfolds
  <1>2. QED BY <1>1, ScanIsTight

\* is_subsequence finds the characters exactly when they are there in order.
LEMMA SubsequenceIsLayout ==
    ASSUME NEW S, NEW T, NEW items \in Seq(S), NEW hay \in Seq(T)
    PROVE  IsSubsequence(items, hay) <=> Layouts(items, hay, LAMBDA a, b : a = b) # {}
  <1> DEFINE M == EqualPairs(items, hay)
             n == Len(items)
             m == Len(hay)
  <1>1. PICK a : IsScan(a, n, m, M) /\ (IsSubsequence(items, hay) <=> a[n] # Lost)
    BY SubsequenceUnfolds
  <1>2. Tight(a[n], n, m, M)
    <2>1. n \in Nat /\ m \in Nat
      OBVIOUS
    <2> HIDE DEF n, m, M
    <2>2. QED BY <1>1, <2>1, ScanIsTight
  <1>3. a[n] # Lost <=> \E e : Lays(e, n, m, M)
    <2> HIDE DEF n, m, M
    <2>1. QED BY <1>2 DEF Tight
  <1>4. \A e : e \in Layouts(items, hay, LAMBDA x, y : x = y) <=> Lays(e, n, m, M)
    BY LayoutsAreLays
  <1> HIDE DEF n, m, M
  <1>5. QED BY <1>1, <1>3, <1>4

\* A name that holds another one holds its characters in order.
LEMMA WithinIsSubsequence ==
    ASSUME NEW L, NEW x \in Seq(L), NEW name \in Seq(L), Within(x, name)
    PROVE  IsSubsequence(x, name)
  <1> DEFINE n == Len(x)
             m == Len(name)
             M == EqualPairs(x, name)
  <1>1. n \in Nat /\ m \in Nat /\ DOMAIN x = 1..n /\ DOMAIN name = 1..m
    OBVIOUS
  <1>2. PICK d \in 0..(m - n) : SubSeq(name, d + 1, d + n) = x
    BY DEF Within
  <1> DEFINE e == [i \in 1..n |-> d + i]
  <1>3. \A i \in 1..n : d + i \in 1..m /\ x[i] = name[d + i]
    <2> SUFFICES ASSUME NEW i \in 1..n PROVE d + i \in 1..m /\ x[i] = name[d + i]
      OBVIOUS
    <2>1. d + i \in 1..m
      BY <1>1
    <2>2. SubSeq(name, d + 1, d + n)[i] = name[d + i]
      BY <1>1, <2>1
    <2>3. QED BY <1>2, <2>1, <2>2
  <1>4. \A i \in 1..n : <<i, d + i>> \in M
    BY <1>1, <1>3 DEF EqualPairs
  <1> HIDE DEF M
  <1>5. Lays(e, n, m, M)
    BY <1>1, <1>3, <1>4 DEF Lays
  <1> HIDE DEF e
  <1>6. e \in Layouts(x, name, LAMBDA a, b : a = b)
    BY <1>5, LayoutsAreLays DEF n, m, M
  <1>7. QED BY <1>6, SubsequenceIsLayout

\* The leading fragments are met exactly when there is some way to lay them.
LEMMA ScanFindsLayout ==
    ASSUME NEW S, NEW T, NEW leading \in Seq(S), NEW hay \in Seq(T)
    PROVE  /\ LeadingCursor(leading, hay) = Lost <=> Layouts(leading, hay, Within) = {}
           /\ LeadingCursor(leading, hay) # Lost => LeadingCursor(leading, hay) \in 0..Len(hay)
  <1> DEFINE M == WithinPairs(leading, hay)
             n == Len(leading)
             m == Len(hay)
             c == LeadingCursor(leading, hay)
             ways == Layouts(leading, hay, Within)
  <1>1. Tight(c, n, m, M)
    BY LeadingIsTight
  <1>2. \A e : e \in ways <=> Lays(e, n, m, M)
    BY LayoutsAreLays
  <1> HIDE DEF M, n, m, c, ways
  <1>3. c = Lost <=> ways = {}
    BY <1>1, <1>2 DEF Tight
  <1>4. c # Lost => c \in 0..m
    BY <1>1 DEF Tight
  <1>5. QED BY <1>3, <1>4 DEF c, ways, m

\* A component prefix lies below some layout of the leading fragments exactly
\* when it lies below the one that ends first.
LEMMA BelowTheScan ==
    ASSUME NEW S, NEW T, NEW leading \in Seq(S), NEW hay \in Seq(T), NEW j \in DOMAIN hay
    PROVE  LeadingCursor(leading, hay) # Lost =>
               (j > LeadingCursor(leading, hay) <=>
                   \E e \in Layouts(leading, hay, Within) : \A i \in DOMAIN leading : e[i] < j)
  <1> DEFINE M == WithinPairs(leading, hay)
             n == Len(leading)
             m == Len(hay)
             c == LeadingCursor(leading, hay)
             ways == Layouts(leading, hay, Within)
  <1>1. n \in Nat /\ m \in Nat /\ DOMAIN leading = 1..n /\ j \in 1..m
    OBVIOUS
  <1>2. Tight(c, n, m, M)
    BY LeadingIsTight
  <1>3. \A e : e \in ways <=> Lays(e, n, m, M)
    BY LayoutsAreLays
  <1> HIDE DEF M, n, m, c, ways
  <1>4. ASSUME c # Lost PROVE c \in 0..m
    BY <1>2, <1>4 DEF Tight
  <1>5. ASSUME c # Lost, j > c PROVE \E e \in ways : \A i \in 1..n : e[i] < j
    <2>1. PICK e : Lays(e, n, m, M) /\ (n > 0 => e[n] = c)
      BY <1>2, <1>5 DEF Tight
    <2>2. ASSUME NEW i \in 1..n PROVE e[i] < j
      <3>1. n > 0 /\ n \in 1..n /\ e[n] = c
        BY <1>1, <2>1
      <3>2. i = n \/ e[i] < e[n]
        BY <1>1, <2>1, <3>1 DEF Lays
      <3>3. e[i] \in 1..m
        BY <2>1 DEF Lays
      <3>4. QED BY <1>1, <1>4, <1>5, <3>1, <3>2, <3>3
    <2>3. QED BY <1>3, <2>1, <2>2
  <1>6. ASSUME c # Lost, NEW e \in ways, \A i \in 1..n : e[i] < j PROVE j > c
    <2>1. Lays(e, n, m, M)
      BY <1>3
    <2>2. n > 0 => c <= e[n]
      BY <1>2, <2>1 DEF Tight
    <2>3. CASE n = 0
      <3>1. c = 0
        BY <1>2, <2>3 DEF Tight
      <3>2. QED BY <1>1, <3>1
    <2>4. CASE n > 0
      <3>1. n \in 1..n /\ e[n] \in 1..m
        BY <1>1, <2>1, <2>4 DEF Lays
      <3>2. e[n] < j
        BY <1>6, <3>1
      <3>3. QED BY <1>1, <1>4, <1>6, <2>2, <2>4, <3>1, <3>2
    <2>5. QED BY <1>1, <2>3, <2>4
  <1>7. QED BY <1>1, <1>5, <1>6 DEF c, ways, n, m

\* What there is to find out about a needle with fragments and a path, in the
\* order classify_raw asks.
LEMMA WhatApplies ==
    ASSUME NEW L, NEW needle, NEW dir \in Seq(Seq(L)),
           needle.fragments \in Seq(Seq(L)), needle.fragments # <<>>, dir # <<>>
    PROVE  LET last      == Last(needle.fragments)
               leading   == Front(needle.fragments)
               ancestors == Front(dir)
               basename  == FileName(dir)
               cursor    == LeadingCursor(leading, ancestors)
               below     == (cursor + 1)..Len(ancestors)
           IN  /\ Applies(BasenameExact, needle, dir) <=> cursor # Lost /\ last = basename
               /\ Applies(BasenamePrefix, needle, dir) <=>
                     cursor # Lost /\ IsPrefix(last, basename)
               /\ Applies(BasenameSubsequence, needle, dir) <=>
                     cursor # Lost /\ IsSubsequence(last, basename)
               /\ Applies(ComponentPrefix, needle, dir) <=>
                     cursor # Lost /\ \E i \in below : IsPrefix(last, ancestors[i])
               /\ Applies(SubstringAnywhere, needle, dir) <=>
                     /\ cursor # Lost /\ leading = <<>>
                     /\ (\E i \in below : Within(last, ancestors[i])) \/ Within(last, basename)
               /\ Within(last, basename) => IsSubsequence(last, basename)
  <1> DEFINE last      == Last(needle.fragments)
             leading   == Front(needle.fragments)
             ancestors == Front(dir)
             basename  == FileName(dir)
             cursor    == LeadingCursor(leading, ancestors)
             below     == (cursor + 1)..Len(ancestors)
             ways      == Layouts(leading, ancestors, Within)
             m         == Len(ancestors)
  <1>1. /\ last \in Seq(L) /\ leading \in Seq(Seq(L))
        /\ ancestors \in Seq(Seq(L)) /\ basename \in Seq(L)
    <2>1. ASSUME NEW s \in Seq(Seq(L)), s # <<>>
          PROVE  s[Len(s)] \in Seq(L) /\ SubSeq(s, 1, Len(s) - 1) \in Seq(Seq(L))
      BY <2>1
    <2>2. /\ needle.fragments[Len(needle.fragments)] \in Seq(L)
          /\ SubSeq(needle.fragments, 1, Len(needle.fragments) - 1) \in Seq(Seq(L))
      BY <2>1
    <2>3. dir[Len(dir)] \in Seq(L) /\ SubSeq(dir, 1, Len(dir) - 1) \in Seq(Seq(L))
      BY <2>1
    <2>4. QED BY <2>2, <2>3 DEF Last, Front, FileName
  <1>2. m \in Nat /\ DOMAIN ancestors = 1..m /\ DOMAIN dir = 1..(m + 1)
    BY DEF Front
  <1>3. /\ dir[m + 1] = basename
        /\ \A i \in 1..m : dir[i] = ancestors[i]
    BY DEF Front, FileName
  <1>4. leading = <<>> => Len(leading) = 0
    OBVIOUS
  <1> HIDE DEF last, leading, ancestors, basename, m
  <1>5. Applies(BasenameExact, needle, dir) <=> ways # {} /\ last = basename
    BY DEF Applies, Layouts, last, leading, ancestors, basename, BasenameExact,
           BasenamePrefix, BasenameSubsequence, ComponentPrefix, SubstringAnywhere
  <1>6. Applies(BasenamePrefix, needle, dir) <=> ways # {} /\ IsPrefix(last, basename)
    BY DEF Applies, Layouts, last, leading, ancestors, basename, BasenameExact,
           BasenamePrefix, BasenameSubsequence, ComponentPrefix, SubstringAnywhere
  <1>7. Applies(BasenameSubsequence, needle, dir) <=>
            ways # {} /\ Layouts(last, basename, LAMBDA a, b : a = b) # {}
    BY DEF Applies, Layouts, last, leading, ancestors, basename, BasenameExact,
           BasenamePrefix, BasenameSubsequence, ComponentPrefix, SubstringAnywhere
  <1>8. Applies(ComponentPrefix, needle, dir) <=>
            /\ ways # {}
            /\ \E e \in ways, j \in DOMAIN ancestors :
                  (\A i \in DOMAIN leading : e[i] < j) /\ IsPrefix(last, ancestors[j])
    BY DEF Applies, Layouts, last, leading, ancestors, basename, BasenameExact,
           BasenamePrefix, BasenameSubsequence, ComponentPrefix, SubstringAnywhere
  <1>9. Applies(SubstringAnywhere, needle, dir) <=>
            ways # {} /\ leading = <<>> /\ \E i \in DOMAIN dir : Within(last, dir[i])
    BY DEF Applies, Layouts, last, leading, ancestors, basename, BasenameExact,
           BasenamePrefix, BasenameSubsequence, ComponentPrefix, SubstringAnywhere
  <1> HIDE DEF ways
  <1>10. /\ cursor = Lost <=> ways = {}
         /\ cursor # Lost => cursor \in 0..m
    BY <1>1, ScanFindsLayout DEF ways, m
  <1>11. cursor # Lost => \A j \in 1..m :
            j > cursor <=> \E e \in ways : \A i \in DOMAIN leading : e[i] < j
    BY <1>1, <1>2, BelowTheScan DEF ways
  <1>12. leading = <<>> /\ cursor # Lost => cursor = 0
    <2>1. Tight(cursor, Len(leading), m, WithinPairs(leading, ancestors))
      BY <1>1, LeadingIsTight DEF m
    <2> HIDE DEF cursor
    <2>2. QED BY <1>4, <2>1 DEF Tight
  <1>13. IsSubsequence(last, basename) <=> Layouts(last, basename, LAMBDA a, b : a = b) # {}
    BY <1>1, SubsequenceIsLayout
  <1>14. Within(last, basename) => IsSubsequence(last, basename)
    BY <1>1, WithinIsSubsequence
  <1> HIDE DEF cursor
  <1>15. cursor # Lost => \A j : j \in below <=> j \in 1..m /\ j > cursor
    BY <1>2, <1>10 DEF m
  <1> HIDE DEF below
  <1>16. Applies(ComponentPrefix, needle, dir) <=>
            cursor # Lost /\ \E i \in below : IsPrefix(last, ancestors[i])
    BY <1>2, <1>8, <1>10, <1>11, <1>15
  <1>17. Applies(SubstringAnywhere, needle, dir) <=>
            /\ cursor # Lost /\ leading = <<>>
            /\ (\E i \in below : Within(last, ancestors[i])) \/ Within(last, basename)
    <2>1. \A i : i \in DOMAIN dir <=> i \in 1..m \/ i = m + 1
      BY <1>2
    <2>2. (\E i \in DOMAIN dir : Within(last, dir[i])) <=>
             (\E i \in 1..m : Within(last, ancestors[i])) \/ Within(last, basename)
      BY <1>3, <2>1
    <2>3. leading = <<>> /\ cursor # Lost => \A j : j \in below <=> j \in 1..m
      <3>1. \A j \in 1..m : j > 0
        OBVIOUS
      <3>2. QED BY <1>12, <1>15, <3>1
    <2>4. QED BY <1>9, <1>10, <2>2, <2>3
  <1>18. Applies(BasenameSubsequence, needle, dir) <=>
            cursor # Lost /\ IsSubsequence(last, basename)
    BY <1>7, <1>10, <1>13
  <1>19. QED BY <1>5, <1>6, <1>10, <1>14, <1>16, <1>17, <1>18
         DEF last, leading, ancestors, basename, cursor, below

\* A needle and a path with something to lay out.
IsQuestion(q, L) ==
    /\ q.needle.given /\ q.needle.fragments # <<>> /\ q.path # <<>>
    /\ q.needle.fragments \in Seq(Seq(L)) /\ q.path \in Seq(Seq(L))

LEMMA ClassifiedByOrder ==
    ASSUME NEW L, NEW q, IsQuestion(q, L)
    PROVE  LET a == ClassifyRaw(q.needle, q.path)
           IN  /\ a \in None..BasenameExact
               /\ a = None => \A k \in SubstringAnywhere..BasenameExact : ~Applies(k, q.needle, q.path)
               /\ a # None =>
                     /\ Applies(a, q.needle, q.path)
                     /\ \A k \in SubstringAnywhere..BasenameExact :
                           Applies(k, q.needle, q.path) =>
                               k <= a \/ (a = ComponentPrefix /\ k = BasenameSubsequence)
  <1> DEFINE needle    == q.needle
             dir       == q.path
             last      == Last(needle.fragments)
             leading   == Front(needle.fragments)
             ancestors == Front(dir)
             basename  == FileName(dir)
             cursor    == LeadingCursor(leading, ancestors)
             below     == (cursor + 1)..Len(ancestors)
             prefixed  == \E i \in below : IsPrefix(last, ancestors[i])
             held      == \E i \in below : Within(last, ancestors[i])
             a         == ClassifyRaw(needle, dir)
  <1>1. /\ Applies(5, needle, dir) <=> cursor # Lost /\ last = basename
        /\ Applies(4, needle, dir) <=> cursor # Lost /\ IsPrefix(last, basename)
        /\ Applies(3, needle, dir) <=> cursor # Lost /\ IsSubsequence(last, basename)
        /\ Applies(2, needle, dir) <=> cursor # Lost /\ prefixed
        /\ Applies(1, needle, dir) <=>
              cursor # Lost /\ leading = <<>> /\ (held \/ Within(last, basename))
        /\ Within(last, basename) => IsSubsequence(last, basename)
    <2>1. /\ dir \in Seq(Seq(L)) /\ dir # <<>>
          /\ needle.fragments \in Seq(Seq(L)) /\ needle.fragments # <<>>
      BY DEF IsQuestion
    <2> HIDE DEF needle, dir
    <2>2. QED BY <2>1, WhatApplies DEF BasenameExact, BasenamePrefix, BasenameSubsequence,
                 ComponentPrefix, SubstringAnywhere
  <1>2. a = IF cursor = Lost                             THEN 0
            ELSE IF last = basename                      THEN 5
            ELSE IF IsPrefix(last, basename)             THEN 4
            ELSE IF prefixed                             THEN 2
            ELSE IF IsSubsequence(last, basename)        THEN 3
            ELSE IF leading = <<>> /\ held               THEN 1 ELSE 0
    BY DEF IsQuestion, ClassifyRaw, KindOf, None, BasenameExact, BasenamePrefix,
           BasenameSubsequence, ComponentPrefix, SubstringAnywhere
  <1> HIDE DEF a, last, leading, ancestors, basename, cursor, below, prefixed, held
  <1>3. a \in 0..5
    BY <1>2
  <1>4. a = 0 => /\ ~Applies(1, needle, dir) /\ ~Applies(2, needle, dir)
                 /\ ~Applies(3, needle, dir) /\ ~Applies(4, needle, dir)
                 /\ ~Applies(5, needle, dir)
    BY <1>1, <1>2
  <1>5. /\ a = 5 => Applies(5, needle, dir)
        /\ a = 4 => Applies(4, needle, dir) /\ ~Applies(5, needle, dir)
        /\ a = 3 => /\ Applies(3, needle, dir) /\ ~Applies(4, needle, dir)
                    /\ ~Applies(5, needle, dir)
        /\ a = 2 => /\ Applies(2, needle, dir) /\ ~Applies(4, needle, dir)
                    /\ ~Applies(5, needle, dir)
        /\ a = 1 => /\ Applies(1, needle, dir) /\ ~Applies(2, needle, dir)
                    /\ ~Applies(3, needle, dir) /\ ~Applies(4, needle, dir)
                    /\ ~Applies(5, needle, dir)
    BY <1>1, <1>2
  <1> HIDE DEF needle, dir
  <1>6. \A k \in 1..5 : k = 1 \/ k = 2 \/ k = 3 \/ k = 4 \/ k = 5
    OBVIOUS
  <1>7. a = 0 => \A k \in 1..5 : ~Applies(k, needle, dir)
    BY <1>4, <1>6
  <1>8. a # 0 => /\ Applies(a, needle, dir)
                 /\ \A k \in 1..5 : Applies(k, needle, dir) => k <= a \/ (a = 2 /\ k = 3)
    BY <1>3, <1>5, <1>6
  <1>9. QED BY <1>3, <1>7, <1>8 DEF a, needle, dir, None, BasenameExact, ComponentPrefix,
               BasenameSubsequence, SubstringAnywhere

\* What classify_raw answers is a kind that applies by the documentation, None
\* only when none does, and the best of them but for a component prefix that
\* hides a subsequence of the basename: for every needle and every path.
THEOREM ClassifyIsBestButOne ==
    ASSUME NEW L, NEW q, IsQuestion(q, L)
    PROVE  LET a == ClassifyRaw(q.needle, q.path)
           IN  /\ IF Kinds(q) = {} THEN a = None ELSE a \in Kinds(q)
               /\ Kinds(q) # {} =>
                     \/ a = Max(Kinds(q))
                     \/ a = ComponentPrefix /\ Max(Kinds(q)) = BasenameSubsequence
  <1> DEFINE a == ClassifyRaw(q.needle, q.path)
             K == Kinds(q)
  <1>1. \A k : k \in K <=> k \in 1..5 /\ Applies(k, q.needle, q.path)
    BY DEF IsQuestion, Kinds, SubstringAnywhere, BasenameExact
  <1>2. /\ a \in 0..5
        /\ a = 0 => \A k \in 1..5 : ~Applies(k, q.needle, q.path)
        /\ a # 0 => /\ Applies(a, q.needle, q.path)
                    /\ \A k \in 1..5 :
                          Applies(k, q.needle, q.path) => k <= a \/ (a = 2 /\ k = 3)
    BY ClassifiedByOrder DEF None, BasenameExact, ComponentPrefix, BasenameSubsequence,
       SubstringAnywhere
  <1> HIDE DEF a, K
  <1>3. a = 0 => K = {}
    BY <1>1, <1>2
  <1>4. a # 0 => a \in K
    BY <1>1, <1>2
  <1>5. K # {} => Max(K) \in K /\ \A k \in K : k <= Max(K)
    <2>1. K \subseteq 0..5
      BY <1>1
    <2>2. QED BY <2>1, MaxOf
  <1>6. K # {} => a = Max(K) \/ (a = 2 /\ Max(K) = 3)
    <2> SUFFICES ASSUME K # {} PROVE a = Max(K) \/ (a = 2 /\ Max(K) = 3)
      OBVIOUS
    <2>1. a # 0 /\ a \in K
      BY <1>3, <1>4
    <2>2. Max(K) \in 1..5 /\ Applies(Max(K), q.needle, q.path) /\ a <= Max(K)
      BY <1>1, <1>5, <2>1
    <2>3. Max(K) <= a \/ (a = 2 /\ Max(K) = 3)
      BY <1>2, <2>1, <2>2
    <2>4. QED BY <1>2, <2>2, <2>3
  <1>7. QED BY <1>3, <1>4, <1>6 DEF a, K, None, ComponentPrefix, BasenameSubsequence
-----------------------------------------------------------------------------
(* Questions.                                                                 *)

\* What is remembered of a question is the question and what its function
\* computes.
Remembers(about, q, a) == asked = [about |-> about, q |-> q] /\ answer = [about |-> about, a |-> a]

Faithful ==
    \/ answer = Silent
    \/ \E q \in FragmentsAsked \cup NamesAsked : Remembers("match", q, ClassifyRaw(q.needle, q.path))
    \/ \E q \in FeedAsked :
           Remembers("feed", q, [entries |-> Accumulate(q.history),
                                 ranked |-> RankEntries(Accumulate(q.history), q.opts, FeedNow)])
    \/ \E q \in FileAsked : Remembers("file", q, Parse(q))
    \/ \E q \in RowsAsked : Remembers("rows", q, Parse(Encode(q)))
    \/ \E q \in KeywordsAsked : Remembers("keywords", q, MatchesAll(q.path, q.keywords))
    \/ \E q \in ConfigAsked :
           Remembers("config", q, [active |-> Active(q.env, q.tree),
                                   db_path |-> RuntimeDbPath(q.env), spec |-> RuntimeSpec(q.env)])

LEMMA AnswersFaithful == QuestionsSpec => []Faithful
  <1>1. QuestionsInit => Faithful
    BY DEF QuestionsInit, Faithful
  <1>2. ASSUME Faithful, [QuestionsNext]_<<vars, rangeVars, pureVars>> PROVE Faithful'
    <2>1. CASE UNCHANGED pureVars
      BY <1>2, <2>1 DEF Faithful, Remembers, pureVars
    <2>2. CASE AskPure
      <3>1. CASE AskMatch(FragmentsAsked)
        BY <3>1 DEF AskMatch, Returns, Faithful, Remembers
      <3>2. CASE AskMatch(NamesAsked)
        BY <3>2 DEF AskMatch, Returns, Faithful, Remembers
      <3>3. CASE AskFeed
        BY <3>3 DEF AskFeed, Returns, Faithful, Remembers
      <3>4. CASE AskFile
        BY <3>4 DEF AskFile, Returns, Faithful, Remembers
      <3>5. CASE AskRows
        BY <3>5 DEF AskRows, Returns, Faithful, Remembers
      <3>6. CASE AskKeywords
        BY <3>6 DEF AskKeywords, Returns, Faithful, Remembers
      <3>7. CASE AskConfig
        BY <3>7 DEF AskConfig, Returns, Faithful, Remembers
      <3>8. QED BY <2>2, <3>1, <3>2, <3>3, <3>4, <3>5, <3>6, <3>7 DEF AskPure
    <2>3. QED BY <1>2, <2>1, <2>2 DEF QuestionsNext
  <1>3. QED BY <1>1, <1>2, PTL DEF QuestionsSpec

\* What the invariant says of each kind of question.
LEMMA MatchAnswered ==
    ASSUME Faithful, Answered("match")
    PROVE  /\ asked.q \in FragmentsAsked \cup NamesAsked
           /\ answer.a = ClassifyRaw(asked.q.needle, asked.q.path)
  BY DEF Faithful, Answered, Remembers, Silent

LEMMA ConfigAnswered ==
    ASSUME Faithful, Answered("config")
    PROVE  /\ asked.q \in ConfigAsked
           /\ answer.a = [active |-> Active(asked.q.env, asked.q.tree),
                          db_path |-> RuntimeDbPath(asked.q.env), spec |-> RuntimeSpec(asked.q.env)]
  BY DEF Faithful, Answered, Remembers, Silent

LEMMA StringsOf ==
    ASSUME NEW A, NEW B, A \subseteq B, NEW m \in Nat, NEW n \in Nat, NEW s \in Strings(A, m, n)
    PROVE  s \in Seq(B)
  <1>1. PICK k \in m..n : s \in [1..k -> A]
    BY DEF Strings
  <1>2. k \in Nat /\ s \in [1..k -> B]
    BY <1>1
  <1>3. QED BY <1>2

\* The needles and paths that are asked about are questions.
LEMMA MatchAsked ==
    ASSUME NEW q \in FragmentsAsked \cup NamesAsked,
           q.needle.fragments # <<>>, q.path # <<>>
    PROVE  IsQuestion(q, {1, 2})
  <1>1. ASSUME NEW f \in Nat, NEW d \in Nat, NEW a \in Nat, NEW b \in Nat,
               q \in MatchQuestions({1, 2}, a, b, d, f)
        PROVE  IsQuestion(q, {1, 2})
    <2> DEFINE F == Strings(Strings({1, 2}, 1, b), 0, f)
               P == Strings(Strings({1, 2}, 1, a), 0, d)
    <2>0. q \in [needle : {[given |-> FALSE, fragments |-> <<>>]} \cup
                          [given : {TRUE}, fragments : F],
                path : P]
      BY <1>1 DEF MatchQuestions
    <2>1. q.needle.given /\ q.needle.fragments \in F /\ q.path \in P
      <3> HIDE DEF F, P
      <3>1. q.needle \in [given : {TRUE}, fragments : F] /\ q.path \in P
        <4> DEFINE A == [given |-> FALSE, fragments |-> <<>>]
                   N == [given : {TRUE}, fragments : F]
        <4>1. A.fragments = <<>>
          OBVIOUS
        <4>2. q.needle \in {A} \cup N /\ q.path \in P
          <5> HIDE DEF A, N
          <5>1. q \in [needle : {A} \cup N, path : P]
            BY <2>0 DEF A, N
          <5>2. QED BY <5>1
        <4> HIDE DEF A, N
        <4>3. q.needle \in N
          BY <4>1, <4>2
        <4>4. QED BY <4>2, <4>3 DEF N
      <3>2. QED BY <3>1
    <2>2. \A n \in Nat : Strings({1, 2}, 1, n) \subseteq Seq({1, 2})
      BY StringsOf
    <2>3. /\ q.needle.fragments \in Seq(Seq({1, 2}))
          /\ q.path \in Seq(Seq({1, 2}))
      BY <2>1, <2>2, StringsOf
    <2>4. QED BY <2>1, <2>3 DEF IsQuestion
  <1>2. QED BY <1>1 DEF FragmentsAsked, NamesAsked

\* The scans of classify_raw miss no layout of the needle and report only a kind
\* that applies.
THEOREM ScansSuffice == QuestionsSpec => []ScansMissNothing
  <1>1. ASSUME Faithful, Answered("match"),
               asked.q.needle.fragments # <<>>, asked.q.path # <<>>
        PROVE  IF Kinds(asked.q) = {} THEN answer.a = None ELSE answer.a \in Kinds(asked.q)
    BY <1>1, MatchAnswered, MatchAsked, ClassifyIsBestButOne
  <1>2. Faithful => ScansMissNothing
    BY <1>1 DEF ScansMissNothing
  <1>3. QED BY <1>2, AnswersFaithful, PTL

\* Whatever the tier and the variables, an active configuration and the facade's
\* own defaults name the same database and the same ranking.
THEOREM TiersShareStore ==
    ASSUME NEW env, NEW tree
    PROVE  /\ Active(env, tree).db_path = RuntimeDbPath(env)
           /\ SpecOf(Active(env, tree)) = RuntimeSpec(env)
  <1>1. /\ ResolveTier(env.tier, tree).db_path = DefaultDbPath
        /\ ResolveTier(env.tier, tree).ranking_instance = SkimtabParityName
    BY DEF ResolveTier, Discovered, PrescribedDefault, Bare
  <1>2. QED BY <1>1, ConfigAssumption DEF Active, RuntimeDbPath, RuntimeSpec, SpecOf, Or

\* "every consumer converges on one store with zero configuration".
THEOREM OneStoreForAll == QuestionsSpec => []OneStore
  <1>1. ASSUME Faithful, Answered("config")
        PROVE  /\ answer.a.active.db_path = answer.a.db_path
               /\ SpecOf(answer.a.active) = answer.a.spec
    BY <1>1, ConfigAnswered, TiersShareStore
  <1>2. Faithful => OneStore
    BY <1>1 DEF OneStore
  <1>3. QED BY <1>2, AnswersFaithful, PTL

\* Six levels below ~/code hold every directory that lies at most four below a
\* service/org directory, whatever the tree and its links, as long as that one is
\* a directory two levels down and not a link to one elsewhere: the default gives
\* up none of them but those with a name it passes over.
THEOREM CuratedCoversDiscovered ==
    ASSUME NEW tree, NEW N, NEW p \in Seq(N), Resolved(tree, Code) \in Seq(N),
           ToSet(p) \cap (IgnoredNames \cup HiddenNames) = {},
           NEW r \in Discovered(tree).roots,
           StrictlyUnder(r.path, Resolved(tree, Code)),
           Len(r.path) = Len(Resolved(tree, Code)) + 2,
           Finds(Discovered(tree), r, p)
    PROVE  Indexed(PrescribedDefault(tree), p)
  <1> DEFINE c == Resolved(tree, Code)
             code == Root(c, 6)
             n == Len(p)
             k == Len(c)
  <1>1. /\ code \in PrescribedDefault(tree).roots
        /\ PrescribedDefault(tree).ignore_names = IgnoredNames
    BY DEF PrescribedDefault, Discovered, Bare, Curated
  <1>2. code.path = c /\ code.max_depth = 6
    BY DEF Root
  <1>3. r.max_depth = 4
    BY DEF Discovered, Bare, Root
  <1>4. n \in Nat /\ k \in Nat /\ DOMAIN p = 1..n
    OBVIOUS
  <1>5. \A i \in 1..n : p[i] \notin IgnoredNames /\ p[i] \notin HiddenNames
    BY <1>4 DEF ToSet
  <1>6. /\ Len(r.path) = k + 2 /\ Len(r.path) < n /\ n - Len(r.path) <= 4
        /\ \A i \in 1..Len(r.path) : p[i] = r.path[i]
        /\ \A i \in 1..k : r.path[i] = c[i]
    BY <1>3 DEF Finds, StrictlyUnder, SameOrUnder
  <1> HIDE DEF c, code, n, k
  <1>7. /\ k < n /\ n - k <= 6
        /\ \A i \in 1..k : p[i] = c[i]
        /\ \A i \in (k + 1)..n : i \in 1..n
    BY <1>4, <1>6
  <1>8. StrictlyUnder(p, c)
    BY <1>4, <1>7 DEF StrictlyUnder, SameOrUnder, n, k
  <1>9. /\ StrictlyUnder(p, code.path) /\ Len(p) - Len(code.path) <= code.max_depth
        /\ \A i \in (Len(code.path) + 1)..Len(p) :
              p[i] \notin IgnoredNames /\ p[i] \notin HiddenNames
    BY <1>2, <1>5, <1>7, <1>8 DEF n, k
  <1>10. Finds(PrescribedDefault(tree), code, p)
    BY <1>1, <1>9 DEF Finds
  <1>11. QED BY <1>1, <1>10 DEF Indexed

\* The default tier gives up no directory of the discovered one that lies below a
\* real service/org directory, whatever branches and links the home directory has.
THEOREM DefaultCoversAll == QuestionsSpec => []DefaultCovers
  <1> DEFINE N == {"home", "code", "srv", "d", ".d", "target"}
  <1>1. ASSUME Faithful, Answered("config")
        PROVE  /\ Resolved(asked.q.tree, Code) \in Seq(N)
               /\ \A p \in asked.q.tree.dirs : p \in Seq(N)
    <2>1. asked.q \in ConfigAsked
      BY <1>1, ConfigAnswered
    <2>2. PICK s, k : asked.q.tree = Branch(s, k) /\ s \in Seq(N) /\ Len(s) = 6 /\ k \in 0..7
      <3>1. ASSUME NEW A \in SUBSET N, NEW s \in Strings(A, 6, 6)
            PROVE  s \in Seq(N) /\ Len(s) = 6
        <4>1. s \in Seq(N)
          BY StringsOf
        <4> HIDE DEF N
        <4>2. PICK m \in 6..6 : s \in [1..m -> A]
          BY DEF Strings
        <4>3. QED BY <4>1, <4>2
      <3>2. {"d"} \in SUBSET N /\ {"d", ".d", "target"} \in SUBSET N
        OBVIOUS
      <3> HIDE DEF N
      <3>3. QED BY <2>1, <3>1, <3>2 DEF ConfigAsked, TreesAsked
    <2>3. Code \in Seq(N) /\ Elsewhere \in Seq(N) /\ Home \in Seq(N)
      BY DEF Code, Elsewhere, Home
    <2> HIDE DEF N
    <2>4. ASSUME NEW i \in 0..6, NEW j \in 1..(i + 1)
          PROVE  /\ Code \o SubSeq(s, j, i) \in Seq(N)
                 /\ Elsewhere \o SubSeq(s, j, i) \in Seq(N)
      <3>1. i \in Int /\ j \in Int /\ \A x \in j..i : s[x] \in N
        <4>1. \A x \in 1..6 : s[x] \in N
          BY <2>2, ElementOfSeq
        <4>2. \A x \in j..i : x \in 1..6
          OBVIOUS
        <4>3. QED BY <4>1, <4>2
      <3>2. SubSeq(s, j, i) \in Seq(N)
        BY <2>2, <3>1, SubSeqProperties
      <3>3. QED BY <2>3, <3>2
    <2>5. ASSUME NEW i \in 0..6
          PROVE  (IF i < k THEN Code \o SubSeq(s, 1, i)
                           ELSE Elsewhere \o SubSeq(s, k + 1, i)) \in Seq(N)
      <3>1. 1 \in 1..(i + 1) /\ (~(i < k) => k + 1 \in 1..(i + 1))
        BY <2>2
      <3>2. QED BY <2>4, <3>1
    <2>6. \A p \in asked.q.tree.dirs : p \in Seq(N)
      <3>1. asked.q.tree.dirs =
                {Home} \cup {IF i < k THEN Code \o SubSeq(s, 1, i)
                             ELSE Elsewhere \o SubSeq(s, k + 1, i) : i \in 0..6}
        BY <2>2 DEF Branch
      <3>2. QED BY <2>3, <2>5, <3>1
    <2>7. Resolved(asked.q.tree, Code) \in Seq(N)
      BY <2>2, <2>3 DEF Branch, Resolved
    <2>8. QED BY <2>6, <2>7
  <1>2. Faithful => DefaultCovers
    <2> HIDE DEF N
    <2> SUFFICES ASSUME Faithful, Answered("config"),
                        NEW r \in Discovered(asked.q.tree).roots,
                        StrictlyUnder(r.path, Resolved(asked.q.tree, Code)),
                        Len(r.path) = Len(Resolved(asked.q.tree, Code)) + 2,
                        NEW p \in asked.q.tree.dirs,
                        ToSet(p) \cap (IgnoredNames \cup HiddenNames) = {},
                        Finds(Discovered(asked.q.tree), r, p)
                 PROVE  Indexed(PrescribedDefault(asked.q.tree), p)
      BY DEF DefaultCovers, Plain
    <2>1. QED BY <1>1, CuratedCoversDiscovered
  <1>3. QED BY <1>2, AnswersFaithful, PTL
-----------------------------------------------------------------------------
(* The command-line feed.                                                     *)

Occurrences(S) == [text : S, stamp : Seq(Int)]

FeedEntries(S) == [command : S, timestamps : Seq(Int), occurrences : Nat, last_ordinal : Nat]

Feeds(S) == [entries : Seq(FeedEntries(S)), ordinal : Nat]

\* One place of the entries is new or renewed, the others stay.
IsObserved(r, entries, o, ordinal, slot) ==
    LET n == Len(entries)
    IN  /\ slot \in 1..(n + 1)
        /\ Len(r) = IF slot <= n THEN n ELSE n + 1
        /\ \A i \in 1..n : i # slot => r[i] = entries[i]
        /\ r[slot].command = o.text /\ r[slot].last_ordinal = ordinal
        /\ slot <= n => /\ entries[slot].command = o.text
                        /\ r[slot].occurrences = entries[slot].occurrences + 1
                        /\ r[slot].timestamps = entries[slot].timestamps \o o.stamp
        /\ slot > n => /\ \A i \in 1..n : entries[i].command # o.text
                       /\ r[slot].occurrences = 1
                       /\ r[slot].timestamps = <<>> \o o.stamp

LEMMA Observed ==
    ASSUME NEW S, NEW entries \in Seq(FeedEntries(S)), NEW o \in Occurrences(S), NEW ordinal \in Nat
    PROVE  /\ Observe(entries, o, ordinal) \in Seq(FeedEntries(S))
           /\ \E slot : IsObserved(Observe(entries, o, ordinal), entries, o, ordinal, slot)
  <1> DEFINE r     == Observe(entries, o, ordinal)
             n     == Len(entries)
             old   == {i \in DOMAIN entries : entries[i].command = o.text}
             slot  == IF old = {} THEN n + 1 ELSE Min(old)
             fresh == [command |-> o.text, timestamps |-> <<>>, occurrences |-> 0]
             entry == IF old = {} THEN fresh ELSE entries[slot]
             new   == [command |-> o.text, occurrences |-> entry.occurrences + 1,
                       timestamps |-> entry.timestamps \o o.stamp, last_ordinal |-> ordinal]
             V     == FeedEntries(S)
  <1>1. n \in Nat /\ DOMAIN entries = 1..n /\ \A i \in 1..n : entries[i] \in V
    <2> HIDE DEF V
    <2>1. entries \in Seq(V)
      BY DEF V
    <2>2. QED BY <2>1
  <1>2. r = [i \in (1..n) \cup {slot} |-> IF i # slot THEN entries[i] ELSE new]
    BY <1>1 DEF Observe
  <1>3. o.text \in S /\ o.stamp \in Seq(Int)
    BY DEF Occurrences
  <1>4. old # {} => slot \in old
    <2> DEFINE T == old
    <2>1. T \subseteq Nat
      BY <1>1
    <2>2. T # {} => slot = Min(T)
      OBVIOUS
    <2> HIDE DEF T, slot
    <2>3. T # {} => slot \in T
      BY <2>1, <2>2, MinOf
    <2>4. QED BY <2>3 DEF T
  <1>5. old # {} => slot \in 1..n /\ entries[slot].command = o.text /\ entry = entries[slot]
    BY <1>1, <1>4
  <1>6. old = {} => /\ slot = n + 1 /\ \A i \in 1..n : entries[i].command # o.text
                    /\ entry.occurrences = 0 /\ entry.timestamps = <<>>
    BY <1>1
  <1>7. slot \in 1..(n + 1) /\ (slot <= n => old # {}) /\ (slot > n => old = {})
    <2> HIDE DEF slot, old, n
    <2>1. QED BY <1>1, <1>5, <1>6
  <1>8. entry.occurrences \in Nat /\ entry.timestamps \in Seq(Int)
    <2>1. old # {} => entry \in V
      BY <1>1, <1>5
    <2>2. <<>> \in Seq(Int) /\ 0 \in Nat
      OBVIOUS
    <2> HIDE DEF entry, old
    <2>3. QED BY <1>6, <2>1, <2>2 DEF V, FeedEntries
  <1>9. new \in V
    <2> DEFINE times == entry.timestamps \o o.stamp
               uses == entry.occurrences + 1
    <2>1. times \in Seq(Int) /\ uses \in Nat
      <3> DEFINE a == entry.timestamps
      <3> HIDE DEF a, entry
      <3>1. a \in Seq(Int)
        BY <1>8 DEF a
      <3>2. QED BY <1>3, <1>8, <3>1 DEF a
    <2>2. new = [command |-> o.text, occurrences |-> uses, timestamps |-> times,
                 last_ordinal |-> ordinal]
      OBVIOUS
    <2> HIDE DEF times, uses, new
    <2>3. QED BY <1>3, <2>1, <2>2 DEF FeedEntries
  <1>10. /\ new.command = o.text /\ new.last_ordinal = ordinal
         /\ new.occurrences = entry.occurrences + 1
         /\ new.timestamps = entry.timestamps \o o.stamp
    OBVIOUS
  <1> HIDE DEF slot, old, entry, new, n, V, r
  <1> DEFINE m == IF slot <= n THEN n ELSE n + 1
  <1>11. m \in Nat /\ (1..n) \cup {slot} = 1..m /\ slot \in 1..m
    BY <1>1, <1>7
  <1> HIDE DEF m
  <1>12. r = [i \in 1..m |-> IF i # slot THEN entries[i] ELSE new]
    BY <1>2, <1>11
  <1>13. \A i \in 1..m : i # slot => i \in 1..n
    BY <1>1, <1>7 DEF m
  <1>14. \A i \in 1..m : r[i] \in V
    BY <1>1, <1>9, <1>12, <1>13
  <1>15. r \in Seq(V) /\ Len(r) = m
    <2>1. r \in [1..m -> V]
      BY <1>12, <1>14
    <2>2. QED BY <1>11, <2>1
  <1>16. r[slot] = new /\ \A i \in 1..n : i # slot => r[i] = entries[i]
    <2>1. \A i \in 1..n : i \in 1..m
      BY <1>11
    <2>2. QED BY <1>11, <1>12, <2>1
  <1>17. slot <= n => /\ entries[slot].command = o.text
                      /\ r[slot].occurrences = entries[slot].occurrences + 1
                      /\ r[slot].timestamps = entries[slot].timestamps \o o.stamp
    BY <1>5, <1>7, <1>10, <1>16
  <1>18. slot > n => /\ \A i \in 1..n : entries[i].command # o.text
                     /\ r[slot].occurrences = 1
                     /\ r[slot].timestamps = <<>> \o o.stamp
    <2> SUFFICES ASSUME slot > n
                 PROVE  /\ \A i \in 1..n : entries[i].command # o.text
                        /\ r[slot].occurrences = 1
                        /\ r[slot].timestamps = <<>> \o o.stamp
      OBVIOUS
    <2>1. old = {}
      BY <1>7
    <2>2. \A i \in 1..n : entries[i].command # o.text
      BY <1>6, <2>1
    <2>3. entry.occurrences = 0 /\ entry.timestamps = <<>>
      BY <1>6, <2>1
    <2>4. r[slot].occurrences = 0 + 1
      BY <1>10, <1>16, <2>3
    <2>5. r[slot].timestamps = <<>> \o o.stamp
      BY <1>10, <1>16, <2>3
    <2>6. QED BY <2>2, <2>4, <2>5
  <1>19. IsObserved(r, entries, o, ordinal, slot)
    <2>1. Len(r) = IF slot <= n THEN n ELSE n + 1
      BY <1>15 DEF m
    <2>2. QED BY <1>7, <1>10, <1>16, <1>17, <1>18, <2>1 DEF IsObserved, n
  <1>20. QED BY <1>15, <1>19 DEF r, V

LEMMA OccursType ==
    ASSUME NEW S, NEW feed \in Feeds(S), NEW o \in Occurrences(S)
    PROVE  Occurs(feed, o) \in Feeds(S)
  <1> DEFINE entries == feed.entries
             ordinal == feed.ordinal
             r == Observe(entries, o, ordinal)
  <1>1. entries \in Seq(FeedEntries(S)) /\ ordinal \in Nat
    BY DEF Feeds
  <1>2. r \in Seq(FeedEntries(S)) /\ ordinal + 1 \in Nat
    <2> HIDE DEF entries, ordinal
    <2>1. QED BY <1>1, Observed
  <1>3. Occurs(feed, o) = IF o.text = Empty THEN feed
                          ELSE [entries |-> r, ordinal |-> ordinal + 1]
    BY DEF Occurs
  <1> HIDE DEF r, ordinal
  <1>4. QED BY <1>2, <1>3 DEF Feeds

OccursStep(s, S) == [p \in (1..Len(s)) \X Feeds(S) |-> Occurs(p[2], s[p[1]])]

\* The feed after each occurrence.
IsFeedRun(a, s, S) ==
    /\ a \in [0..Len(s) -> Feeds(S)] /\ a[0] = [entries |-> <<>>, ordinal |-> 0]
    /\ \A k \in 1..Len(s) : a[k] = Occurs(a[k - 1], s[k])

LEMMA FeedRun ==
    ASSUME NEW S, NEW s \in Seq(Occurrences(S))
    PROVE  \E a : IsFeedRun(a, s, S) /\ Accumulate(s) = a[Len(s)].entries
  <1> DEFINE n == Len(s)
             V == Feeds(S)
             base == [entries |-> <<>>, ordinal |-> 0]
             G == OccursStep(s, S)
             body(h) == [t \in SUBSET (DOMAIN s) |->
                            IF t = {} THEN [entries |-> <<>>, ordinal |-> 0]
                            ELSE Occurs(h[t \ {Max(t)}], s[Max(t)])]
             iter == CHOOSE h : h = body(h)
  <1>1. n \in Nat /\ DOMAIN s = 1..n /\ \A k \in 1..n : s[k] \in Occurrences(S)
    OBVIOUS
  <1>2. Accumulate(s) = iter[DOMAIN s].entries
    BY DEF Accumulate, FoldLeft, MapThenFoldSet
  <1>3. G \in [(1..n) \X V -> V] /\ base \in V
    <2>1. \A p \in (1..n) \X V : Occurs(p[2], s[p[1]]) \in V
      BY <1>1, OccursType
    <2>2. G \in [(1..n) \X V -> V]
      BY <2>1 DEF OccursStep
    <2>3. base \in V
      BY DEF Feeds
    <2>4. QED BY <2>2, <2>3
  <1>4. \A k \in 1..n, c \in V : G[<<k, c>>] = Occurs(c, s[k])
    BY DEF OccursStep
  <1>5. PICK h : IsFold(h, n, V, base, G)
    <2> HIDE DEF n, V, base, G
    <2>1. QED BY <1>1, <1>3, FoldExists
  <1>6. h = body(h)
    <2>1. ASSUME NEW t \in SUBSET (1..n), t # {}
          PROVE  h[t] = Occurs(h[t \ {Max(t)}], s[Max(t)])
      <3> HIDE DEF n, V, base, G
      <3>1. FoldsDown(h, n, V, G)
        BY <1>1, <1>5, FoldStep
      <3>2. /\ Max(t) \in 1..n /\ h[t \ {Max(t)}] \in V
            /\ h[t] = G[<<Max(t), h[t \ {Max(t)}]>>]
        BY <2>1, <3>1 DEF FoldsDown
      <3>3. QED BY <1>4, <3>2
    <2>2. h[{}] = base /\ h = [t \in SUBSET (1..n) |-> h[t]]
      BY <1>5 DEF IsFold
    <2>3. QED BY <1>1, <2>1, <2>2
  <1>7. iter = body(iter)
    BY <1>6
  <1> HIDE DEF iter
  <1>8. iter[{}] = base
    BY <1>7
  <1>9. ASSUME NEW k \in 1..n, iter[1..(k - 1)] \in V
        PROVE  iter[1..k] = G[<<k, iter[1..(k - 1)]>>]
    <2>1. Max(1..k) = k /\ (1..k) \ {k} = 1..(k - 1) /\ 1..k # {} /\ 1..k \in SUBSET DOMAIN s
      BY <1>1, MaxOfInterval
    <2>2. iter[1..k] = Occurs(iter[(1..k) \ {Max(1..k)}], s[Max(1..k)])
      BY <1>7, <2>1
    <2>3. QED BY <1>4, <1>9, <2>1, <2>2
  <1>10. RunsBy(iter, n, V, base, G)
    <2> HIDE DEF n, V, base, G
    <2>1. QED BY <1>3, <1>8, <1>9 DEF RunsBy
  <1> HIDE DEF n, V, base, G
  <1>11. PICK a : IsRun(a, n, V, base, G) /\ iter[1..n] = a[n]
    BY <1>1, <1>10, RunAlong
  <1>12. /\ a \in [0..n -> V] /\ a[0] = base
         /\ \A k \in 1..n : a[k] = G[<<k, a[k - 1]>>]
    BY <1>11 DEF IsRun
  <1>13. \A k \in 1..n : k - 1 \in 0..n /\ a[k - 1] \in V
    BY <1>1, <1>12
  <1>14. \A k \in 1..n : a[k] = Occurs(a[k - 1], s[k])
    BY <1>4, <1>12, <1>13
  <1>15. IsFeedRun(a, s, S)
    BY <1>12, <1>14 DEF IsFeedRun, n, V, base
  <1>16. QED BY <1>1, <1>2, <1>11, <1>15 DEF n

\* The times of a text, occurrence by occurrence.
TimesWith(text, all, o) == IF o.text = text THEN all \o o.stamp ELSE all

TimesStep(s, text) == [p \in (1..Len(s)) \X Seq(Int) |-> TimesWith(text, p[2], s[p[1]])]

IsTimesRun(a, s, text) ==
    /\ a \in [0..Len(s) -> Seq(Int)] /\ a[0] = <<>>
    /\ \A k \in 1..Len(s) : a[k] = TimesWith(text, a[k - 1], s[k])

LEMMA TimesType ==
    ASSUME NEW S, NEW text, NEW all \in Seq(Int), NEW o \in Occurrences(S)
    PROVE  TimesWith(text, all, o) \in Seq(Int)
  <1>1. o.stamp \in Seq(Int)
    BY DEF Occurrences
  <1>2. QED BY <1>1 DEF TimesWith

LEMMA TimesRun ==
    ASSUME NEW S, NEW s \in Seq(Occurrences(S)), NEW text
    PROVE  \E a : IsTimesRun(a, s, text) /\ EntryOf(text, s).timestamps = a[Len(s)]
  <1> DEFINE n == Len(s)
             V == Seq(Int)
             base == <<>>
             G == TimesStep(s, text)
             body(h) == [t \in SUBSET (DOMAIN s) |->
                            IF t = {} THEN <<>>
                            ELSE TimesWith(text, h[t \ {Max(t)}], s[Max(t)])]
             iter == CHOOSE h : h = body(h)
  <1>1. n \in Nat /\ DOMAIN s = 1..n /\ \A k \in 1..n : s[k] \in Occurrences(S)
    OBVIOUS
  <1>2. EntryOf(text, s).timestamps = iter[DOMAIN s]
    BY DEF EntryOf, FoldLeft, MapThenFoldSet, TimesWith
  <1>3. G \in [(1..n) \X V -> V] /\ base \in V
    <2>1. \A p \in (1..n) \X V : TimesWith(text, p[2], s[p[1]]) \in V
      BY <1>1, TimesType
    <2>2. G \in [(1..n) \X V -> V]
      BY <2>1 DEF TimesStep
    <2>3. base \in V
      OBVIOUS
    <2>4. QED BY <2>2, <2>3
  <1>4. \A k \in 1..n, c \in V : G[<<k, c>>] = TimesWith(text, c, s[k])
    BY DEF TimesStep
  <1>5. PICK h : IsFold(h, n, V, base, G)
    <2> HIDE DEF n, V, base, G
    <2>1. QED BY <1>1, <1>3, FoldExists
  <1>6. h = body(h)
    <2>1. ASSUME NEW t \in SUBSET (1..n), t # {}
          PROVE  h[t] = TimesWith(text, h[t \ {Max(t)}], s[Max(t)])
      <3> HIDE DEF n, V, base, G
      <3>1. FoldsDown(h, n, V, G)
        BY <1>1, <1>5, FoldStep
      <3>2. /\ Max(t) \in 1..n /\ h[t \ {Max(t)}] \in V
            /\ h[t] = G[<<Max(t), h[t \ {Max(t)}]>>]
        BY <2>1, <3>1 DEF FoldsDown
      <3>3. QED BY <1>4, <3>2
    <2>2. h[{}] = base /\ h = [t \in SUBSET (1..n) |-> h[t]]
      BY <1>5 DEF IsFold
    <2>3. QED BY <1>1, <2>1, <2>2
  <1>7. iter = body(iter)
    BY <1>6
  <1> HIDE DEF iter
  <1>8. iter[{}] = base
    BY <1>7
  <1>9. ASSUME NEW k \in 1..n, iter[1..(k - 1)] \in V
        PROVE  iter[1..k] = G[<<k, iter[1..(k - 1)]>>]
    <2>1. Max(1..k) = k /\ (1..k) \ {k} = 1..(k - 1) /\ 1..k # {} /\ 1..k \in SUBSET DOMAIN s
      BY <1>1, MaxOfInterval
    <2>2. iter[1..k] = TimesWith(text, iter[(1..k) \ {Max(1..k)}], s[Max(1..k)])
      BY <1>7, <2>1
    <2>3. QED BY <1>4, <1>9, <2>1, <2>2
  <1>10. RunsBy(iter, n, V, base, G)
    <2> HIDE DEF n, V, base, G
    <2>1. QED BY <1>3, <1>8, <1>9 DEF RunsBy
  <1> HIDE DEF n, V, base, G
  <1>11. PICK a : IsRun(a, n, V, base, G) /\ iter[1..n] = a[n]
    BY <1>1, <1>10, RunAlong
  <1>12. /\ a \in [0..n -> V] /\ a[0] = base
         /\ \A k \in 1..n : a[k] = G[<<k, a[k - 1]>>]
    BY <1>11 DEF IsRun
  <1>13. \A k \in 1..n : k - 1 \in 0..n /\ a[k - 1] \in V
    BY <1>1, <1>12
  <1>14. \A k \in 1..n : a[k] = TimesWith(text, a[k - 1], s[k])
    BY <1>4, <1>12, <1>13
  <1>15. IsTimesRun(a, s, text)
    BY <1>12, <1>14 DEF IsTimesRun, n, V, base
  <1>16. QED BY <1>1, <1>2, <1>11, <1>15 DEF n

TimesOf(text, s) ==
    CHOOSE a : IsTimesRun(a, s, text) /\ EntryOf(text, s).timestamps = a[Len(s)]

LEMMA TimesOfIs ==
    ASSUME NEW S, NEW s \in Seq(Occurrences(S)), NEW text
    PROVE  IsTimesRun(TimesOf(text, s), s, text) /\ EntryOf(text, s).timestamps = TimesOf(text, s)[Len(s)]
  BY TimesRun DEF TimesOf

\* The places of a text, and of all texts, among the first k.
UsesTo(text, k, s) == {n \in 1..k : s[n].text = text}
SaidTo(k, s)       == {n \in 1..k : s[n].text # Empty}

LEMMA FewTo ==
    ASSUME NEW k \in Nat, NEW s, NEW text
    PROVE  /\ IsFiniteSet(UsesTo(text, k, s)) /\ Cardinality(UsesTo(text, k, s)) \in Nat
           /\ IsFiniteSet(SaidTo(k, s)) /\ Cardinality(SaidTo(k, s)) \in Nat
  <1>1. IsFiniteSet(1..k)
    BY FS_Interval
  <1>2. UsesTo(text, k, s) \in SUBSET (1..k) /\ SaidTo(k, s) \in SUBSET (1..k)
    BY DEF UsesTo, SaidTo
  <1>3. IsFiniteSet(UsesTo(text, k, s)) /\ IsFiniteSet(SaidTo(k, s))
    BY <1>1, <1>2, FS_Subset
  <1>4. QED BY <1>3, FS_CardinalityType

LEMMA PlacesGrow ==
    ASSUME NEW k \in Nat, NEW s, NEW text
    PROVE  /\ s[k + 1].text = text =>
                 /\ UsesTo(text, k + 1, s) = UsesTo(text, k, s) \cup {k + 1}
                 /\ Cardinality(UsesTo(text, k + 1, s)) = Cardinality(UsesTo(text, k, s)) + 1
           /\ s[k + 1].text # text => UsesTo(text, k + 1, s) = UsesTo(text, k, s)
           /\ s[k + 1].text # Empty =>
                 Cardinality(SaidTo(k + 1, s)) = Cardinality(SaidTo(k, s)) + 1
           /\ s[k + 1].text = Empty => SaidTo(k + 1, s) = SaidTo(k, s)
  <1>1. 1..(k + 1) = (1..k) \cup {k + 1} /\ k + 1 \notin 1..k
    OBVIOUS
  <1>2. k + 1 \notin UsesTo(text, k, s) /\ k + 1 \notin SaidTo(k, s)
    BY <1>1 DEF UsesTo, SaidTo
  <1>3. s[k + 1].text = text => UsesTo(text, k + 1, s) = UsesTo(text, k, s) \cup {k + 1}
    BY <1>1 DEF UsesTo
  <1>4. s[k + 1].text # text => UsesTo(text, k + 1, s) = UsesTo(text, k, s)
    BY <1>1 DEF UsesTo
  <1>5. s[k + 1].text # Empty => SaidTo(k + 1, s) = SaidTo(k, s) \cup {k + 1}
    BY <1>1 DEF SaidTo
  <1>6. s[k + 1].text = Empty => SaidTo(k + 1, s) = SaidTo(k, s)
    BY <1>1 DEF SaidTo
  <1>7. Cardinality(UsesTo(text, k, s) \cup {k + 1}) = Cardinality(UsesTo(text, k, s)) + 1
    BY <1>2, FewTo, FS_AddElement
  <1>8. Cardinality(SaidTo(k, s) \cup {k + 1}) = Cardinality(SaidTo(k, s)) + 1
    BY <1>2, FewTo, FS_AddElement
  <1>9. QED BY <1>3, <1>4, <1>5, <1>6, <1>7, <1>8

LEMMA TimesGrow ==
    ASSUME NEW S, NEW s \in Seq(Occurrences(S)), NEW text, NEW k \in Nat, k + 1 <= Len(s)
    PROVE  TimesOf(text, s)[k + 1] = TimesWith(text, TimesOf(text, s)[k], s[k + 1])
  <1>1. IsTimesRun(TimesOf(text, s), s, text)
    BY TimesOfIs
  <1>2. k + 1 \in 1..Len(s) /\ (k + 1) - 1 = k
    OBVIOUS
  <1>3. QED BY <1>1, <1>2 DEF IsTimesRun

\* What an entry is after k occurrences.
EntryAt(e, k, s) ==
    /\ e.command # Empty
    /\ e.occurrences = Cardinality(UsesTo(e.command, k, s))
    /\ e.timestamps = TimesOf(e.command, s)[k]
    /\ \E u \in UsesTo(e.command, k, s) :
          /\ \A v \in UsesTo(e.command, k, s) : v <= u
          /\ e.last_ordinal = Cardinality(SaidTo(u - 1, s))

FeedAt(f, k, s, S) ==
    LET entries == f.entries
    IN  /\ f.ordinal = Cardinality(SaidTo(k, s))
        /\ \A i \in 1..Len(entries) : EntryAt(entries[i], k, s)
        /\ \A i, j \in 1..Len(entries) : entries[i].command = entries[j].command => i = j
        /\ \A t \in S : t # Empty /\ (\A i \in 1..Len(entries) : entries[i].command # t) =>
              UsesTo(t, k, s) = {} /\ TimesOf(t, s)[k] = <<>>

LEMMA EntryStays ==
    ASSUME NEW S, NEW s \in Seq(Occurrences(S)), NEW k \in Nat, k + 1 <= Len(s),
           NEW e, EntryAt(e, k, s), s[k + 1].text # e.command
    PROVE  EntryAt(e, k + 1, s)
  <1>1. UsesTo(e.command, k + 1, s) = UsesTo(e.command, k, s)
    BY PlacesGrow
  <1>2. TimesOf(e.command, s)[k + 1] = TimesOf(e.command, s)[k]
    BY TimesGrow DEF TimesWith
  <1>3. QED BY <1>1, <1>2 DEF EntryAt

LEMMA EntryUsed ==
    ASSUME NEW S, NEW s \in Seq(Occurrences(S)), NEW k \in Nat, k + 1 <= Len(s), NEW r,
           r.command # Empty, s[k + 1].text = r.command,
           r.occurrences = Cardinality(UsesTo(r.command, k, s)) + 1,
           r.timestamps = TimesOf(r.command, s)[k] \o s[k + 1].stamp,
           r.last_ordinal = Cardinality(SaidTo(k, s))
    PROVE  EntryAt(r, k + 1, s)
  <1> DEFINE c == r.command
  <1>1. /\ UsesTo(c, k + 1, s) = UsesTo(c, k, s) \cup {k + 1}
        /\ Cardinality(UsesTo(c, k + 1, s)) = Cardinality(UsesTo(c, k, s)) + 1
    BY PlacesGrow
  <1>2. TimesOf(c, s)[k + 1] = TimesOf(c, s)[k] \o s[k + 1].stamp
    <2>1. s[k + 1].text = c
      OBVIOUS
    <2> HIDE DEF c
    <2>2. TimesOf(c, s)[k + 1] = TimesWith(c, TimesOf(c, s)[k], s[k + 1])
      BY TimesGrow
    <2>3. QED BY <2>1, <2>2 DEF TimesWith
  <1>3. \A v \in UsesTo(c, k, s) : v <= k + 1
    BY DEF UsesTo
  <1>4. (k + 1) - 1 = k /\ k + 1 <= k + 1
    OBVIOUS
  <1> HIDE DEF c
  <1>5. /\ k + 1 \in UsesTo(c, k + 1, s)
        /\ \A v \in UsesTo(c, k + 1, s) : v <= k + 1
        /\ r.last_ordinal = Cardinality(SaidTo((k + 1) - 1, s))
    BY <1>1, <1>3, <1>4
  <1>6. \E u \in UsesTo(c, k + 1, s) :
          /\ \A v \in UsesTo(c, k + 1, s) : v <= u
          /\ r.last_ordinal = Cardinality(SaidTo(u - 1, s))
    BY <1>5
  <1>7. QED BY <1>1, <1>2, <1>6 DEF EntryAt, c

LEMMA FeedStep ==
    ASSUME NEW S, NEW s \in Seq(Occurrences(S)), NEW k \in Nat, k + 1 <= Len(s),
           NEW f \in Feeds(S), FeedAt(f, k, s, S)
    PROVE  FeedAt(Occurs(f, s[k + 1]), k + 1, s, S)
  <1> DEFINE o       == s[k + 1]
             entries == f.entries
             n       == Len(entries)
             g       == Occurs(f, o)
  <1>1. o \in Occurrences(S) /\ entries \in Seq(FeedEntries(S)) /\ f.ordinal \in Nat /\ n \in Nat
    <2>1. k + 1 \in 1..Len(s)
      OBVIOUS
    <2> DEFINE V == Occurrences(S)
    <2>2. s[k + 1] \in V
      <3> HIDE DEF V
      <3>1. s \in Seq(V)
        BY DEF V
      <3>2. QED BY <2>1, <3>1
    <2>3. QED BY <2>2 DEF Feeds
  <1>2. /\ f.ordinal = Cardinality(SaidTo(k, s))
        /\ \A i \in 1..n : EntryAt(entries[i], k, s)
        /\ \A i, j \in 1..n : entries[i].command = entries[j].command => i = j
        /\ \A t \in S : t # Empty /\ (\A i \in 1..n : entries[i].command # t) =>
              UsesTo(t, k, s) = {} /\ TimesOf(t, s)[k] = <<>>
    BY DEF FeedAt
  <1>3. CASE o.text = Empty
    <2>1. g = f
      BY <1>3 DEF Occurs
    <2>2. SaidTo(k + 1, s) = SaidTo(k, s)
      BY <1>3, PlacesGrow
    <2>3. \A i \in 1..n : EntryAt(entries[i], k + 1, s)
      <3> HIDE DEF entries, n
      <3>1. \A i \in 1..n : EntryAt(entries[i], k, s) /\ s[k + 1].text # entries[i].command
        BY <1>2, <1>3 DEF EntryAt
      <3>2. QED BY <3>1, EntryStays
    <2>4. ASSUME NEW t \in S, t # Empty, \A i \in 1..n : entries[i].command # t
          PROVE  UsesTo(t, k + 1, s) = {} /\ TimesOf(t, s)[k + 1] = <<>>
      <3>1. UsesTo(t, k, s) = {} /\ TimesOf(t, s)[k] = <<>>
        BY <1>2, <2>4
      <3>2. UsesTo(t, k + 1, s) = UsesTo(t, k, s)
        BY <1>3, <2>4, PlacesGrow
      <3>3. TimesOf(t, s)[k + 1] = TimesOf(t, s)[k]
        BY <1>3, <2>4, TimesGrow DEF TimesWith
      <3>4. QED BY <3>1, <3>2, <3>3
    <2>5. QED BY <1>2, <2>1, <2>2, <2>3, <2>4 DEF FeedAt
  <1>4. CASE o.text # Empty
    <2> DEFINE r == Observe(entries, o, f.ordinal)
               c == o.text
    <2>1. g = [entries |-> r, ordinal |-> f.ordinal + 1]
      BY <1>4 DEF Occurs
    <2>2. g.entries = r /\ g.ordinal = f.ordinal + 1
      BY <2>1
    <2>3. Cardinality(SaidTo(k + 1, s)) = Cardinality(SaidTo(k, s)) + 1
      BY <1>4, PlacesGrow
    <2>4. PICK slot : IsObserved(r, entries, o, f.ordinal, slot)
      <3> HIDE DEF r, entries, o
      <3>1. QED BY <1>1, Observed DEF r
    <2> DEFINE m == IF slot <= n THEN n ELSE n + 1
    <2>5. /\ slot \in 1..(n + 1) /\ Len(r) = m
          /\ \A i \in 1..n : i # slot => r[i] = entries[i]
          /\ r[slot].command = c /\ r[slot].last_ordinal = f.ordinal
          /\ slot <= n => /\ entries[slot].command = c
                          /\ r[slot].occurrences = entries[slot].occurrences + 1
                          /\ r[slot].timestamps = entries[slot].timestamps \o o.stamp
          /\ slot > n => /\ \A i \in 1..n : entries[i].command # c
                         /\ r[slot].occurrences = 1
                         /\ r[slot].timestamps = <<>> \o o.stamp
      BY <2>4 DEF IsObserved
    <2>6. c \in S /\ c = s[k + 1].text /\ o.stamp = s[k + 1].stamp
      BY <1>1 DEF Occurrences
    <2> HIDE DEF r, c, o, g, entries, n, m
    <2>7. m \in Nat /\ slot \in 1..m /\ (\A i \in 1..m : i # slot => i \in 1..n) /\ (\A i \in 1..n : i \in 1..m)
      BY <1>1, <2>5 DEF m
    <2>8. EntryAt(r[slot], k + 1, s)
      <3> DEFINE new == r[slot]
      <3>1. new.command = c /\ new.last_ordinal = Cardinality(SaidTo(k, s))
        BY <1>2, <2>5
      <3>2. /\ new.occurrences = Cardinality(UsesTo(c, k, s)) + 1
            /\ new.timestamps = TimesOf(c, s)[k] \o o.stamp
        <4>1. CASE slot <= n
          <5>1. slot \in 1..n
            BY <1>1, <2>5, <4>1
          <5>2. EntryAt(entries[slot], k, s) /\ entries[slot].command = c
            BY <1>2, <2>5, <4>1, <5>1
          <5>3. /\ entries[slot].occurrences = Cardinality(UsesTo(c, k, s))
                /\ entries[slot].timestamps = TimesOf(c, s)[k]
            BY <5>2 DEF EntryAt
          <5>4. QED BY <2>5, <4>1, <5>3
        <4>2. CASE slot > n
          <5>1. UsesTo(c, k, s) = {} /\ TimesOf(c, s)[k] = <<>>
            BY <1>2, <1>4, <2>5, <2>6, <4>2 DEF c
          <5>2. Cardinality(UsesTo(c, k, s)) + 1 = 1
            <6>1. Cardinality({}) = 0
              BY FS_EmptySet
            <6>2. QED BY <5>1, <6>1
          <5>3. QED BY <2>5, <4>2, <5>1, <5>2
        <4>3. slot <= n \/ slot > n
          BY <1>1, <2>5
        <4>4. QED BY <4>1, <4>2, <4>3
      <3>3. c # Empty
        BY <1>4 DEF c
      <3> HIDE DEF new
      <3>4. EntryAt(new, k + 1, s)
        BY <2>6, <3>1, <3>2, <3>3, EntryUsed
      <3>5. QED BY <3>4 DEF new
    <2>9. ASSUME NEW i \in 1..m, i # slot
          PROVE  r[i] = entries[i] /\ i \in 1..n /\ r[i].command # c
      <3>1. i \in 1..n /\ r[i] = entries[i]
        BY <2>5, <2>7, <2>9
      <3>2. CASE slot <= n
        <4>1. slot \in 1..n /\ entries[slot].command = c
          BY <1>1, <2>5, <3>2
        <4>2. entries[i].command # entries[slot].command
          BY <1>2, <2>9, <3>1, <4>1
        <4>3. QED BY <3>1, <4>1, <4>2
      <3>3. CASE slot > n
        BY <2>5, <3>1, <3>3
      <3>4. slot <= n \/ slot > n
        BY <1>1, <2>5
      <3>5. QED BY <3>1, <3>2, <3>3, <3>4
    <2>10. \A i \in 1..m : EntryAt(r[i], k + 1, s)
      <3> SUFFICES ASSUME NEW i \in 1..m, i # slot PROVE EntryAt(r[i], k + 1, s)
        BY <2>8
      <3>1. EntryAt(r[i], k, s) /\ s[k + 1].text # r[i].command
        BY <1>2, <2>6, <2>9
      <3>2. QED BY <3>1, EntryStays
    <2>11. \A i, j \in 1..m : r[i].command = r[j].command => i = j
      <3> SUFFICES ASSUME NEW i \in 1..m, NEW j \in 1..m, r[i].command = r[j].command PROVE i = j
        OBVIOUS
      <3>1. CASE i # slot /\ j # slot
        <4>1. /\ r[i] = entries[i] /\ i \in 1..n
              /\ r[j] = entries[j] /\ j \in 1..n
          BY <2>9, <3>1
        <4>2. QED BY <1>2, <4>1
      <3>2. CASE i = slot \/ j = slot
        BY <2>5, <2>9, <3>2
      <3>3. QED BY <3>1, <3>2
    <2>12. ASSUME NEW t \in S, t # Empty, \A i \in 1..m : r[i].command # t
           PROVE  UsesTo(t, k + 1, s) = {} /\ TimesOf(t, s)[k + 1] = <<>>
      <3>1. t # c
        BY <2>5, <2>7, <2>12
      <3>2. ASSUME NEW i \in 1..n PROVE entries[i].command # t
        <4>1. CASE i = slot
          <5>1. slot <= n
            BY <1>1, <4>1
          <5>2. QED BY <2>5, <3>1, <4>1, <5>1
        <4>2. CASE i # slot
          BY <2>5, <2>7, <2>12, <4>2
        <4>3. QED BY <4>1, <4>2
      <3>3. UsesTo(t, k, s) = {} /\ TimesOf(t, s)[k] = <<>>
        BY <1>2, <2>12, <3>2
      <3>4. UsesTo(t, k + 1, s) = UsesTo(t, k, s)
        BY <2>6, <3>1, PlacesGrow
      <3>5. TimesOf(t, s)[k + 1] = TimesOf(t, s)[k]
        BY <2>6, <3>1, TimesGrow DEF TimesWith
      <3>6. QED BY <3>3, <3>4, <3>5
    <2>13. Len(g.entries) = m /\ g.ordinal = Cardinality(SaidTo(k + 1, s))
      BY <1>2, <2>2, <2>3, <2>5
    <2>14. FeedAt(g, k + 1, s, S)
      BY <2>2, <2>10, <2>11, <2>12, <2>13 DEF FeedAt
    <2>15. QED BY <2>14 DEF g, o
  <1>5. QED BY <1>3, <1>4 DEF g, o

\* Every occurrence is in the feed, whatever is empty and whatever has no time.
LEMMA FeedAll ==
    ASSUME NEW S, NEW s \in Seq(Occurrences(S))
    PROVE  \E f \in Feeds(S) : FeedAt(f, Len(s), s, S) /\ Accumulate(s) = f.entries
  <1> DEFINE n == Len(s)
  <1>1. n \in Nat
    OBVIOUS
  <1>2. PICK a : IsFeedRun(a, s, S) /\ Accumulate(s) = a[n].entries
    BY FeedRun
  <1> DEFINE P == {k \in Nat : k <= n => FeedAt(a[k], k, s, S)}
  <1>3. /\ a[0] = [entries |-> <<>>, ordinal |-> 0]
        /\ \A k \in 0..n : a[k] \in Feeds(S)
        /\ \A k \in 1..n : a[k] = Occurs(a[k - 1], s[k])
    BY <1>2 DEF IsFeedRun
  <1> HIDE DEF n
  <1>4. 0 \in P
    <2>1. \A t : UsesTo(t, 0, s) = {} /\ SaidTo(0, s) = {}
      BY DEF UsesTo, SaidTo
    <2>2. \A t : TimesOf(t, s)[0] = <<>>
      BY TimesOfIs DEF IsTimesRun
    <2>3. Cardinality({}) = 0
      BY FS_EmptySet
    <2>4. a[0].entries = <<>> /\ a[0].ordinal = 0 /\ Len(<<>>) = 0 /\ 1..0 = {}
      BY <1>3
    <2>5. FeedAt(a[0], 0, s, S)
      BY <2>1, <2>2, <2>3, <2>4 DEF FeedAt
    <2>6. QED BY <2>5
  <1>5. ASSUME NEW k \in Nat, k \in P PROVE k + 1 \in P
    <2> SUFFICES ASSUME k + 1 <= n PROVE FeedAt(a[k + 1], k + 1, s, S)
      OBVIOUS
    <2>1. k \in 0..n /\ k + 1 \in 1..n /\ (k + 1) - 1 = k /\ k <= n
      BY <1>1
    <2>2. FeedAt(a[k], k, s, S) /\ a[k] \in Feeds(S)
      BY <1>3, <1>5, <2>1
    <2>3. a[k + 1] = Occurs(a[k], s[k + 1])
      BY <1>3, <2>1
    <2>4. FeedAt(Occurs(a[k], s[k + 1]), k + 1, s, S)
      BY <2>2, FeedStep DEF n
    <2>5. QED BY <2>3, <2>4
  <1>6. Nat \subseteq P
    <2> HIDE DEF P
    <2>1. QED BY <1>4, <1>5, Induction
  <1>7. FeedAt(a[n], n, s, S) /\ a[n] \in Feeds(S)
    <2>1. n \in 0..n /\ n \in P
      BY <1>1, <1>6
    <2>2. QED BY <1>3, <2>1
  <1>8. QED BY <1>2, <1>7 DEF n

\* A finished entry is what its text's occurrences make it.
LEMMA EntryIs ==
    ASSUME NEW S, NEW s \in Seq(Occurrences(S)), NEW e \in FeedEntries(S), EntryAt(e, Len(s), s)
    PROVE  e = EntryOf(e.command, s)
  <1> DEFINE n == Len(s)
             c == e.command
             U == Uses(c, s)
             d == EntryOf(c, s)
  <1>1. n \in Nat /\ DOMAIN s = 1..n
    OBVIOUS
  <1>2. UsesTo(c, n, s) = U /\ SaidTo(n, s) = Said(s)
    BY <1>1 DEF UsesTo, SaidTo, Uses, Said
  <1>3. PICK u \in U : (\A v \in U : v <= u) /\ e.last_ordinal = Cardinality(SaidTo(u - 1, s))
    <2> HIDE DEF U, c, n
    <2>1. \E u \in UsesTo(c, n, s) : /\ \A v \in UsesTo(c, n, s) : v <= u
                                     /\ e.last_ordinal = Cardinality(SaidTo(u - 1, s))
      BY DEF EntryAt, c, n
    <2>2. QED BY <1>2, <2>1
  <1>4. U \subseteq 1..n
    BY <1>1 DEF Uses
  <1>5. Max(U) = u
    <2> HIDE DEF U, n
    <2>1. U \subseteq 0..n
      BY <1>1, <1>4
    <2>2. Max(U) \in U /\ \A y \in U : y <= Max(U)
      BY <1>1, <1>3, <2>1, MaxOf
    <2>3. Max(U) \in Nat /\ u \in Nat
      <3>1. Max(U) \in 1..n /\ u \in 1..n
        BY <1>3, <1>4, <2>2
      <3>2. QED BY <1>1, <3>1
    <2>4. Max(U) <= u /\ u <= Max(U)
      BY <1>3, <2>2
    <2>5. QED BY <2>3, <2>4
  <1>6. {m \in Said(s) : m < Max(U)} = SaidTo(u - 1, s)
    <2>1. u \in 1..n
      BY <1>4
    <2> HIDE DEF U, n
    <2>2. \A m \in 1..n : m < u <=> m \in 1..(u - 1)
      BY <1>1, <2>1
    <2>3. \A m \in 1..(u - 1) : m \in 1..n
      BY <1>1, <2>1
    <2>4. Said(s) = {m \in 1..n : s[m].text # Empty}
      BY <1>1 DEF Said
    <2>5. QED BY <1>5, <2>2, <2>3, <2>4 DEF SaidTo
  <1>7. /\ e.occurrences = Cardinality(U)
        /\ e.timestamps = TimesOf(c, s)[n]
    <2>1. e.occurrences = Cardinality(UsesTo(c, n, s)) /\ e.timestamps = TimesOf(c, s)[n]
      BY DEF EntryAt
    <2>2. QED BY <1>2, <2>1
  <1>8. d.timestamps = TimesOf(c, s)[n]
    BY TimesOfIs
  <1>9. /\ d = [command |-> c, occurrences |-> d.occurrences, timestamps |-> d.timestamps,
                last_ordinal |-> d.last_ordinal]
        /\ d.occurrences = Cardinality(U)
        /\ d.last_ordinal = Cardinality({m \in Said(s) : m < Max(U)})
    BY DEF EntryOf
  <1>10. e = [command |-> c, occurrences |-> e.occurrences, timestamps |-> e.timestamps,
              last_ordinal |-> e.last_ordinal]
    BY DEF FeedEntries
  <1> HIDE DEF c, U, d, n
  <1>11. QED BY <1>3, <1>6, <1>7, <1>8, <1>9, <1>10 DEF c, d

\* No two entries were seen last at the same time.
LEMMA EntriesApart ==
    ASSUME NEW n \in Nat, NEW s, NEW d, NEW e, EntryAt(d, n, s), EntryAt(e, n, s),
           d.last_ordinal = e.last_ordinal
    PROVE  d.command = e.command
  <1>1. ASSUME NEW x \in 1..n, NEW y \in 1..n, x < y, s[x].text # Empty
        PROVE  Cardinality(SaidTo(x - 1, s)) < Cardinality(SaidTo(y - 1, s))
    <2> DEFINE X == SaidTo(x - 1, s)
               Y == SaidTo(y - 1, s)
    <2>1. X \subseteq Y /\ x \in Y /\ x \notin X
      <3>1. /\ 1..(x - 1) \subseteq 1..(y - 1)
            /\ x \in 1..(y - 1) /\ x \notin 1..(x - 1)
        BY <1>1
      <3>2. QED BY <1>1, <3>1 DEF SaidTo
    <2>2. x - 1 \in Nat /\ y - 1 \in Nat
      OBVIOUS
    <2>3. IsFiniteSet(Y) /\ Cardinality(X) \in Nat /\ Cardinality(Y) \in Nat
      BY <2>2, FewTo
    <2> HIDE DEF X, Y
    <2>4. Cardinality(X) <= Cardinality(Y) /\ Cardinality(Y) # Cardinality(X)
      <3>1. X \in SUBSET Y /\ X # Y
        BY <2>1
      <3>2. QED BY <2>3, <3>1, FS_Subset
    <2>5. Cardinality(X) < Cardinality(Y)
      BY <2>3, <2>4
    <2>6. QED BY <2>5 DEF X, Y
  <1>2. PICK u \in UsesTo(d.command, n, s) : d.last_ordinal = Cardinality(SaidTo(u - 1, s))
    BY DEF EntryAt
  <1>3. PICK v \in UsesTo(e.command, n, s) : e.last_ordinal = Cardinality(SaidTo(v - 1, s))
    BY DEF EntryAt
  <1>4. /\ u \in 1..n /\ s[u].text = d.command /\ s[u].text # Empty
        /\ v \in 1..n /\ s[v].text = e.command /\ s[v].text # Empty
    BY <1>2, <1>3 DEF UsesTo, EntryAt
  <1> DEFINE x == Cardinality(SaidTo(u - 1, s))
             y == Cardinality(SaidTo(v - 1, s))
  <1>5. x \in Nat /\ y \in Nat /\ x = y
    <2>1. u - 1 \in Nat /\ v - 1 \in Nat
      BY <1>4
    <2>2. QED BY <1>2, <1>3, <2>1, FewTo
  <1>6. (u < v => x < y) /\ (v < u => y < x)
    BY <1>1, <1>4
  <1> HIDE DEF x, y
  <1>7. u = v
    BY <1>4, <1>5, <1>6
  <1>8. QED BY <1>4, <1>7

\* For every history, with empty lines and lines without a time anywhere in it:
\* accumulate makes one entry for each text, and each entry has the number, the
\* times and the last place of its text, and no two have the same place.
THEOREM AccumulateIsExact ==
    ASSUME NEW S, NEW s \in Seq(Occurrences(S))
    PROVE  /\ IsFeedOf(Accumulate(s), s)
           /\ Accumulate(s) \in Seq(FeedEntries(S))
           /\ \A i, j \in DOMAIN Accumulate(s) :
                 Accumulate(s)[i].last_ordinal = Accumulate(s)[j].last_ordinal => i = j
  <1> DEFINE n == Len(s)
             texts == {s[k].text : k \in Said(s)}
  <1>1. PICK f \in Feeds(S) : FeedAt(f, n, s, S) /\ Accumulate(s) = f.entries
    BY FeedAll
  <1> DEFINE entries == f.entries
             m == Len(entries)
             V == FeedEntries(S)
  <1>2. n \in Nat /\ DOMAIN s = 1..n /\ \A k \in 1..n : s[k].text \in S
    <2> DEFINE O == Occurrences(S)
    <2>1. s \in Seq(O)
      OBVIOUS
    <2>2. \A o \in O : o.text \in S
      BY DEF Occurrences
    <2> HIDE DEF O
    <2>3. QED BY <2>1, <2>2
  <1>3. entries \in Seq(V) /\ m \in Nat /\ DOMAIN entries = 1..m /\ \A i \in 1..m : entries[i] \in V
    <2>1. entries \in Seq(V)
      BY DEF Feeds
    <2> HIDE DEF V, entries
    <2>2. QED BY <2>1
  <1>4. /\ \A i \in 1..m : EntryAt(entries[i], n, s)
        /\ \A i, j \in 1..m : entries[i].command = entries[j].command => i = j
        /\ \A t \in S : t # Empty /\ (\A i \in 1..m : entries[i].command # t) =>
              UsesTo(t, n, s) = {}
    BY <1>1 DEF FeedAt
  <1> HIDE DEF entries, m, n, V
  <1>5. \A i \in 1..m : entries[i] = EntryOf(entries[i].command, s)
    BY <1>3, <1>4, EntryIs DEF n, V
  <1>6. ASSUME NEW i \in 1..m PROVE entries[i].command \in texts
    <2>1. PICK u \in UsesTo(entries[i].command, n, s) : TRUE
      BY <1>4 DEF EntryAt
    <2>2. u \in 1..n /\ s[u].text = entries[i].command /\ s[u].text # Empty
      BY <1>4, <2>1 DEF UsesTo, EntryAt
    <2>3. u \in Said(s)
      BY <1>2, <2>2 DEF Said
    <2>4. QED BY <2>2, <2>3
  <1>7. ASSUME NEW t \in texts PROVE \E i \in 1..m : entries[i].command = t
    <2>1. PICK k \in 1..n : s[k].text = t /\ t # Empty
      BY <1>2 DEF Said
    <2>2. k \in UsesTo(t, n, s) /\ t \in S
      BY <1>2, <2>1 DEF UsesTo
    <2>3. QED BY <1>4, <2>1, <2>2
  <1> HIDE DEF texts
  <1>8. m = Cardinality(texts)
    <2> DEFINE g == [i \in 1..m |-> entries[i].command]
    <2>1. g \in Bijection(1..m, texts)
      BY <1>4, <1>6, <1>7 DEF Bijection, Injection, Surjection, IsInjective
    <2>2. ExistsBijection(1..m, texts)
      BY <2>1 DEF ExistsBijection
    <2>3. QED BY <1>3, <2>2, FS_CountingElements
  <1>9. ToSet(entries) = {EntryOf(t, s) : t \in texts}
    <2>1. ToSet(entries) = {entries[i] : i \in 1..m}
      BY <1>3 DEF ToSet
    <2>2. {entries[i] : i \in 1..m} \subseteq {EntryOf(t, s) : t \in texts}
      BY <1>5, <1>6
    <2>3. {EntryOf(t, s) : t \in texts} \subseteq {entries[i] : i \in 1..m}
      <3> SUFFICES ASSUME NEW t \in texts PROVE \E i \in 1..m : EntryOf(t, s) = entries[i]
        OBVIOUS
      <3>1. PICK i \in 1..m : entries[i].command = t
        BY <1>7
      <3>2. QED BY <1>5, <3>1
    <2>4. QED BY <2>1, <2>2, <2>3
  <1>10. IsFeedOf(entries, s)
    BY <1>8, <1>9 DEF IsFeedOf, m, texts
  <1>11. \A i, j \in 1..m : entries[i].last_ordinal = entries[j].last_ordinal => i = j
    <2> SUFFICES ASSUME NEW i \in 1..m, NEW j \in 1..m,
                        entries[i].last_ordinal = entries[j].last_ordinal
                 PROVE  i = j
      OBVIOUS
    <2> DEFINE d == entries[i]  e == entries[j]
    <2>1. EntryAt(d, n, s) /\ EntryAt(e, n, s) /\ d.last_ordinal = e.last_ordinal
      BY <1>4
    <2> HIDE DEF d, e
    <2>2. d.command = e.command
      BY <1>2, <2>1, EntriesApart
    <2>3. QED BY <1>4, <2>2 DEF d, e
  <1>12. QED BY <1>1, <1>3, <1>10, <1>11 DEF entries, V

LEMMA FeedAnswered ==
    ASSUME Faithful, Answered("feed")
    PROVE  /\ asked.q \in FeedAsked
           /\ answer.a = [entries |-> Accumulate(asked.q.history),
                          ranked |-> RankEntries(Accumulate(asked.q.history), asked.q.opts, FeedNow)]
  BY DEF Faithful, Answered, Remembers, Silent

Texts == {"ls", "cd", "git", ""}

LEMMA HistoryAsked ==
    ASSUME NEW q \in FeedAsked
    PROVE  q.history \in Seq(Occurrences(Texts))
  <1> DEFINE A == [text : Texts, stamp : {<<>>, <<24>>, <<50>>}]
             B == Occurrences(Texts)
  <1>1. A \subseteq B
    <2>1. <<>> \in Seq(Int) /\ <<24>> \in Seq(Int) /\ <<50>> \in Seq(Int)
      OBVIOUS
    <2>2. QED BY <2>1 DEF Occurrences
  <1>2. q.history \in Strings(A, 0, 4)
    BY DEF FeedAsked, Texts
  <1> HIDE DEF A, B
  <1>3. QED BY <1>1, <1>2, StringsOf DEF B

\* The feed is what the history says.
THEOREM FeedLosesNothing == QuestionsSpec => []FeedIsExact
  <1>1. ASSUME Faithful, Answered("feed") PROVE IsFeedOf(answer.a.entries, asked.q.history)
    <2>1. answer.a.entries = Accumulate(asked.q.history)
      BY <1>1, FeedAnswered
    <2>2. asked.q.history \in Seq(Occurrences(Texts))
      BY <1>1, FeedAnswered, HistoryAsked
    <2>3. QED BY <2>1, <2>2, AccumulateIsExact
  <1>2. Faithful => FeedIsExact
    BY <1>1 DEF FeedIsExact
  <1>3. QED BY <1>2, AnswersFaithful, PTL
-----------------------------------------------------------------------------
(* The order of the feed, and the pin.                                        *)

LEMMA FrecencyType ==
    ASSUME NEW S, NEW e \in FeedEntries(S), NEW now \in Int
    PROVE  Frecency(e, now) \in Int
  <1> DEFINE ages == [i \in DOMAIN e.timestamps |->
                        HyperbolicDays(IF now < e.timestamps[i] THEN 0 ELSE now - e.timestamps[i])]
  <1>1. e.timestamps \in Seq(Int)
    BY DEF FeedEntries
  <1>2. ASSUME NEW t \in Int PROVE HyperbolicDays(IF now < t THEN 0 ELSE now - t) \in Int
    <2> DEFINE age == IF now < t THEN 0 ELSE now - t
    <2>1. age \in Nat
      OBVIOUS
    <2> HIDE DEF age
    <2>2. Day + age \in Nat \ {0} /\ Scale * Day \in Int
      BY <2>1, ScaleAssumption DEF Day
    <2>3. HyperbolicDays(age) \in Int
      BY <2>2 DEF HyperbolicDays
    <2>4. QED BY <2>3 DEF age
  <1>3. ages \in Seq(Int)
    <2> DEFINE times == e.timestamps
               n == Len(times)
    <2>1. n \in Nat /\ DOMAIN times = 1..n /\ \A i \in 1..n : times[i] \in Int
      BY <1>1
    <2>2. ages = [i \in DOMAIN times |->
                        HyperbolicDays(IF now < times[i] THEN 0 ELSE now - times[i])]
      OBVIOUS
    <2> HIDE DEF times, n, ages
    <2>3. ages \in [1..n -> Int]
      BY <1>2, <2>1, <2>2
    <2>4. QED BY <2>1, <2>3
  <1>4. Frecency(e, now) = Total(ages)
    BY DEF Frecency, Map
  <1> HIDE DEF ages
  <1>5. QED BY <1>3, <1>4, TotalType

\* Entries with places of their own are in an order.
LEMMA FeedPrecedesOrders ==
    ASSUME NEW S, NEW mode, NEW now \in Int,
           NEW a \in FeedEntries(S), NEW b \in FeedEntries(S), NEW c \in FeedEntries(S)
    PROVE  /\ FeedPrecedes(mode, now, a, b) => ~FeedPrecedes(mode, now, b, a)
           /\ FeedPrecedes(mode, now, a, b) /\ FeedPrecedes(mode, now, b, c) =>
                 FeedPrecedes(mode, now, a, c)
           /\ a.last_ordinal # b.last_ordinal =>
                 FeedPrecedes(mode, now, a, b) \/ FeedPrecedes(mode, now, b, a)
  <1> DEFINE fa == Frecency(a, now)  fb == Frecency(b, now)  fc == Frecency(c, now)
             la == a.last_ordinal    lb == b.last_ordinal    lc == c.last_ordinal
  <1>1. fa \in Int /\ fb \in Int /\ fc \in Int
    BY FrecencyType
  <1>2. la \in Int /\ lb \in Int /\ lc \in Int
    BY DEF FeedEntries
  <1>3. CASE mode = "Frecency"
    <2>1. /\ FeedPrecedes(mode, now, a, b) <=> fa > fb \/ (fa = fb /\ la > lb)
          /\ FeedPrecedes(mode, now, b, a) <=> fb > fa \/ (fb = fa /\ lb > la)
          /\ FeedPrecedes(mode, now, b, c) <=> fb > fc \/ (fb = fc /\ lb > lc)
          /\ FeedPrecedes(mode, now, a, c) <=> fa > fc \/ (fa = fc /\ la > lc)
      BY <1>3 DEF FeedPrecedes
    <2> HIDE DEF fa, fb, fc, la, lb, lc
    <2>2. QED BY <1>1, <1>2, <2>1 DEF la, lb
  <1>4. CASE mode # "Frecency"
    <2>1. /\ FeedPrecedes(mode, now, a, b) <=> la > lb
          /\ FeedPrecedes(mode, now, b, a) <=> lb > la
          /\ FeedPrecedes(mode, now, b, c) <=> lb > lc
          /\ FeedPrecedes(mode, now, a, c) <=> la > lc
      BY <1>4 DEF FeedPrecedes
    <2> HIDE DEF fa, fb, fc, la, lb, lc
    <2>2. QED BY <1>1, <1>2, <2>1 DEF la, lb
  <1>5. QED BY <1>3, <1>4

OwnPlaces(s) == \A i, j \in DOMAIN s : s[i].last_ordinal = s[j].last_ordinal => i = j

FeedOrder(s, mode, now) ==
    {p \in (1..Len(s)) \X (1..Len(s)) : FeedPrecedes(mode, now, s[p[1]], s[p[2]])}

LEMMA FeedOrderIsOrder ==
    ASSUME NEW S, NEW s \in Seq(FeedEntries(S)), OwnPlaces(s), NEW mode, NEW now \in Int
    PROVE  IsOrder(FeedOrder(s, mode, now), Len(s))
  <1> DEFINE n == Len(s)
             R == FeedOrder(s, mode, now)
             V == FeedEntries(S)
  <1>1. n \in Nat /\ DOMAIN s = 1..n /\ \A i \in 1..n : s[i] \in V
    <2> HIDE DEF V
    <2>1. s \in Seq(V)
      BY DEF V
    <2>2. QED BY <2>1
  <1>2. \A i, j \in 1..n : <<i, j>> \in R <=> FeedPrecedes(mode, now, s[i], s[j])
    BY DEF FeedOrder
  <1>3. \A i, j \in 1..n : i # j => s[i].last_ordinal # s[j].last_ordinal
    BY <1>1 DEF OwnPlaces
  <1> HIDE DEF n, R
  <1>4. \A i, j, k \in 1..n :
           /\ <<i, j>> \in R => <<j, i>> \notin R
           /\ <<i, j>> \in R /\ <<j, k>> \in R => <<i, k>> \in R
           /\ i # j => <<i, j>> \in R \/ <<j, i>> \in R
    <2> SUFFICES ASSUME NEW i \in 1..n, NEW j \in 1..n, NEW k \in 1..n
                 PROVE  /\ <<i, j>> \in R => <<j, i>> \notin R
                        /\ <<i, j>> \in R /\ <<j, k>> \in R => <<i, k>> \in R
                        /\ i # j => <<i, j>> \in R \/ <<j, i>> \in R
      OBVIOUS
    <2> DEFINE a == s[i]  b == s[j]  c == s[k]
    <2>1. a \in FeedEntries(S) /\ b \in FeedEntries(S) /\ c \in FeedEntries(S)
      BY <1>1
    <2>2. i # j => a.last_ordinal # b.last_ordinal
      BY <1>3
    <2>3. /\ <<i, j>> \in R <=> FeedPrecedes(mode, now, a, b)
          /\ <<j, i>> \in R <=> FeedPrecedes(mode, now, b, a)
          /\ <<j, k>> \in R <=> FeedPrecedes(mode, now, b, c)
          /\ <<i, k>> \in R <=> FeedPrecedes(mode, now, a, c)
      BY <1>2
    <2> HIDE DEF a, b, c
    <2>4. QED BY <2>1, <2>2, <2>3, FeedPrecedesOrders
  <1>5. QED BY <1>4 DEF IsOrder, n, R

\* sort_by puts the entries in that order.
SortedFeed(s, mode, now) == StableSort(s, LAMBDA a, b : FeedPrecedes(mode, now, a, b))

LEMMA FeedSorts ==
    ASSUME NEW S, NEW s \in Seq(FeedEntries(S)), OwnPlaces(s), NEW mode, NEW now \in Int
    PROVE  IsArranged(SortedFeed(s, mode, now), s, FeedOrder(s, mode, now), Len(s))
  <1> DEFINE n == Len(s)
             R == FeedOrder(s, mode, now)
             P(i, j) == FeedPrecedes(mode, now, s[i], s[j])
             before(i) == {j \in DOMAIN s \ {i} : P(j, i) \/ (j < i /\ ~P(i, j))}
             place(i) == Cardinality(before(i)) + 1
  <1>1. n \in Nat /\ DOMAIN s = 1..n
    OBVIOUS
  <1>2. IsOrder(R, n)
    BY FeedOrderIsOrder
  <1>3. \A i, j \in 1..n : <<i, j>> \in R <=> P(i, j)
    BY DEF FeedOrder
  <1> HIDE DEF P
  <1>4. ASSUME NEW i \in 1..n PROVE place(i) = Places(R, n)[i]
    <2> DEFINE B == before(i)
    <2> HIDE DEF R, n
    <2>1. ASSUME NEW j PROVE j \in B <=> j \in 1..n /\ <<j, i>> \in R
      <3>1. CASE j \in 1..n /\ j # i
        <4>1. <<i, j>> \in R \/ <<j, i>> \in R
          BY <1>2, <3>1 DEF IsOrder
        <4>2. <<j, i>> \in R => <<i, j>> \notin R
          BY <1>2, <3>1 DEF IsOrder
        <4>3. (<<i, j>> \in R <=> P(i, j)) /\ (<<j, i>> \in R <=> P(j, i))
          BY <1>3, <3>1
        <4>4. QED BY <1>1, <3>1, <4>1, <4>2, <4>3
      <3>2. CASE j = i
        <4>1. <<i, i>> \notin R
          BY <1>2 DEF IsOrder
        <4>2. QED BY <3>2, <4>1
      <3>3. CASE j \notin 1..n
        BY <1>1, <3>3
      <3>4. QED BY <3>1, <3>2, <3>3
    <2> HIDE DEF B
    <2>2. B = Before(R, n, i)
      BY <2>1 DEF Before
    <2>3. Places(R, n)[i] = Cardinality(Before(R, n, i)) + 1
      BY DEF Places
    <2>4. place(i) = Cardinality(B) + 1
      BY DEF B
    <2>5. QED BY <2>2, <2>3, <2>4
  <1> DEFINE sorts(k) == CHOOSE i \in 1..n : place(i) = k
             puts(k)  == CHOOSE i \in 1..n : Places(R, n)[i] = k
  <1>5. SortedFeed(s, mode, now) = [k \in 1..n |-> s[sorts(k)]]
    BY <1>1 DEF SortedFeed, StableSort, P
  <1>6. \A k : sorts(k) = puts(k)
    <2> HIDE DEF place, n, R
    <2>1. ASSUME NEW k PROVE sorts(k) = puts(k)
      <3>1. \A i : (i \in 1..n /\ place(i) = k) <=> (i \in 1..n /\ Places(R, n)[i] = k)
        BY <1>4
      <3>2. (CHOOSE i : i \in 1..n /\ place(i) = k) =
            (CHOOSE i : i \in 1..n /\ Places(R, n)[i] = k)
        BY <3>1
      <3>3. QED BY <3>2
    <2> HIDE DEF sorts, puts
    <2>2. QED BY <2>1
  <1>7. Placed(s, R, n) = [k \in 1..n |-> s[puts(k)]]
    BY DEF Placed
  <1> HIDE DEF sorts, puts, n, R
  <1>8. SortedFeed(s, mode, now) = Placed(s, R, n)
    BY <1>5, <1>6, <1>7
  <1>9. IsArranged(Placed(s, R, n), s, R, n)
    BY <1>1, <1>2, PlacedIsArranged
  <1>10. QED BY <1>8, <1>9 DEF n, R

\* What an arrangement keeps and how it is ordered.
LEMMA FeedSorted ==
    ASSUME NEW S, NEW s \in Seq(FeedEntries(S)), OwnPlaces(s), NEW mode, NEW now \in Int
    PROVE  LET t == SortedFeed(s, mode, now)
           IN  /\ t \in Seq(FeedEntries(S)) /\ Len(t) = Len(s) /\ OwnPlaces(t)
               /\ ToSet(t) = ToSet(s)
               /\ \A i, j \in DOMAIN t : i < j => FeedPrecedes(mode, now, t[i], t[j])
  <1> DEFINE n == Len(s)
             t == SortedFeed(s, mode, now)
             R == FeedOrder(s, mode, now)
             V == FeedEntries(S)
  <1>1. n \in Nat /\ DOMAIN s = 1..n /\ \A i \in 1..n : s[i] \in V
    <2> HIDE DEF V
    <2>1. s \in Seq(V)
      BY DEF V
    <2>2. QED BY <2>1
  <1>2. PICK from \in [1..n -> 1..n] :
           /\ t = [k \in 1..n |-> s[from[k]]]
           /\ \A i \in 1..n : \E k \in 1..n : from[k] = i
           /\ \A k, l \in 1..n : k < l => <<from[k], from[l]>> \in R
    BY FeedSorts DEF IsArranged
  <1>3. \A i, j \in 1..n : <<i, j>> \in R => FeedPrecedes(mode, now, s[i], s[j]) /\ i # j
    <2>1. IsOrder(R, n)
      BY FeedOrderIsOrder
    <2>2. \A i, j \in 1..n : <<i, j>> \in R => FeedPrecedes(mode, now, s[i], s[j])
      BY DEF FeedOrder
    <2> HIDE DEF R, n
    <2>3. QED BY <2>1, <2>2 DEF IsOrder
  <1>4. \A i, j \in 1..n : s[i].last_ordinal = s[j].last_ordinal => i = j
    BY <1>1 DEF OwnPlaces
  <1> HIDE DEF n, t, R, V
  <1>5. \A k \in 1..n : from[k] \in 1..n /\ t[k] = s[from[k]]
    BY <1>2
  <1>6. t \in Seq(V) /\ Len(t) = n /\ DOMAIN t = 1..n
    <2>1. t \in [1..n -> V]
      BY <1>1, <1>2
    <2>2. QED BY <1>1, <2>1
  <1>7. \A k, l \in 1..n : k < l => FeedPrecedes(mode, now, t[k], t[l]) /\ from[k] # from[l]
    BY <1>2, <1>3, <1>5
  <1>8. OwnPlaces(t)
    <2> SUFFICES ASSUME NEW k \in 1..n, NEW l \in 1..n, t[k].last_ordinal = t[l].last_ordinal
                 PROVE  k = l
      BY <1>6 DEF OwnPlaces
    <2>1. from[k] = from[l]
      <3>1. from[k] \in 1..n /\ from[l] \in 1..n /\ t[k] = s[from[k]] /\ t[l] = s[from[l]]
        BY <1>5
      <3>2. QED BY <1>4, <3>1
    <2>2. ~(k < l) /\ ~(l < k)
      BY <1>7, <2>1
    <2>3. QED BY <1>1, <2>2
  <1>9. ToSet(t) = ToSet(s)
    <2>1. ToSet(t) = {t[k] : k \in 1..n} /\ ToSet(s) = {s[i] : i \in 1..n}
      BY <1>1, <1>6 DEF ToSet
    <2>2. {t[k] : k \in 1..n} \subseteq {s[i] : i \in 1..n}
      BY <1>5
    <2>3. {s[i] : i \in 1..n} \subseteq {t[k] : k \in 1..n}
      <3> SUFFICES ASSUME NEW i \in 1..n PROVE \E k \in 1..n : s[i] = t[k]
        OBVIOUS
      <3>1. PICK k \in 1..n : from[k] = i
        BY <1>2
      <3>2. QED BY <1>5, <3>1
    <2>4. QED BY <2>1, <2>2, <2>3
  <1>10. QED BY <1>6, <1>7, <1>8, <1>9 DEF n, t, V

\* max_by_key finds the entry with the last place.
LEMMA NewestIs ==
    ASSUME NEW S, NEW t \in Seq(FeedEntries(S)), OwnPlaces(t), t # <<>>
    PROVE  /\ Newest(t) \in 1..Len(t)
           /\ \A j \in 1..Len(t) : t[j].last_ordinal <= t[Newest(t)].last_ordinal
  <1> DEFINE n == Len(t)
             R == FeedOrder(t, "Recency", 0)
             V == FeedEntries(S)
  <1>1. n \in Nat /\ n # 0 /\ DOMAIN t = 1..n /\ \A i \in 1..n : t[i] \in V
    <2> HIDE DEF V
    <2>1. t \in Seq(V)
      BY DEF V
    <2>2. QED BY <2>1
  <1>2. \A i \in 1..n : t[i].last_ordinal \in Nat
    <2>1. \A e \in V : e.last_ordinal \in Nat
      BY DEF FeedEntries
    <2> HIDE DEF V
    <2>2. QED BY <1>1, <2>1
  <1>3. PICK from \in [1..n -> 1..n] :
           /\ \A i \in 1..n : \E k \in 1..n : from[k] = i
           /\ \A k, l \in 1..n : k < l => <<from[k], from[l]>> \in R
    <2>1. IsArranged(SortedFeed(t, "Recency", 0), t, R, n)
      <3>1. 0 \in Int
        OBVIOUS
      <3>2. QED BY <3>1, FeedSorts
    <2>2. QED BY <2>1 DEF IsArranged
  <1>4. \A i, j \in 1..n : <<i, j>> \in R => t[i].last_ordinal > t[j].last_ordinal
    BY DEF FeedOrder, FeedPrecedes
  <1> HIDE DEF n, R, V
  <1>5. 1 \in 1..n /\ from[1] \in 1..n
    BY <1>1, <1>3
  <1>6. ASSUME NEW j \in 1..n PROVE t[j].last_ordinal <= t[from[1]].last_ordinal
    <2>1. PICK l \in 1..n : from[l] = j
      BY <1>3
    <2>2. CASE l = 1
      BY <1>2, <2>1, <2>2
    <2>3. CASE l # 1
      <3>1. 1 < l
        BY <1>1, <2>3
      <3>2. t[from[1]].last_ordinal > t[j].last_ordinal
        BY <1>3, <1>4, <1>5, <2>1, <3>1
      <3>3. QED BY <1>2, <1>5, <3>2
    <2>4. QED BY <2>2, <2>3
  <1>7. \E i \in DOMAIN t : \A j \in DOMAIN t : t[j].last_ordinal <= t[i].last_ordinal
    BY <1>1, <1>5, <1>6
  <1>8. QED BY <1>1, <1>7 DEF Newest, n

\* The pinned item goes to the top and the others stay in their order.
LEMMA PinIs ==
    ASSUME NEW V, NEW t \in Seq(V), NEW i \in 1..Len(t)
    PROVE  LET p == Pin(t, i)
           IN  /\ p \in Seq(V) /\ Len(p) = Len(t) /\ p[1] = t[i]
               /\ \A j \in 1..(Len(t) - 1) : p[j + 1] = t[IF j < i THEN j ELSE j + 1]
  <1> DEFINE n == Len(t)
             a == SubSeq(t, 1, i - 1)
             b == SubSeq(t, i + 1, n)
             c == a \o b
             h == <<t[i]>>
             p == h \o c
  <1>1. n \in Nat /\ i \in 1..n /\ i \in Nat /\ \A j \in 1..n : t[j] \in V
    OBVIOUS
  <1>2. a \in Seq(V) /\ Len(a) = i - 1 /\ \A j \in 1..(i - 1) : a[j] = t[j]
    <2>1. \A j \in 1..(i - 1) : t[j] \in V
      BY <1>1
    <2>2. 1 \in Int /\ i - 1 \in Int
      OBVIOUS
    <2>3. /\ a \in Seq(V) /\ Len(a) = IF 1 <= i - 1 THEN (i - 1) - 1 + 1 ELSE 0
          /\ \A j \in 1..((i - 1) - 1 + 1) : a[j] = t[1 + j - 1]
      BY <2>1, <2>2, SubSeqProperties
    <2> HIDE DEF a, n
    <2>4. Len(a) = i - 1
      BY <1>1, <2>3
    <2>5. ASSUME NEW j \in 1..(i - 1) PROVE a[j] = t[j]
      <3>1. j \in 1..((i - 1) - 1 + 1) /\ 1 + j - 1 = j
        BY <1>1
      <3>2. QED BY <2>3, <3>1
    <2>6. QED BY <2>3, <2>4, <2>5
  <1>3. b \in Seq(V) /\ Len(b) = n - i /\ \A j \in 1..(n - i) : b[j] = t[i + j]
    <2>1. \A j \in (i + 1)..n : t[j] \in V
      BY <1>1
    <2>2. i + 1 \in Int /\ n \in Int
      BY <1>1
    <2>3. /\ b \in Seq(V) /\ Len(b) = IF i + 1 <= n THEN n - (i + 1) + 1 ELSE 0
          /\ \A j \in 1..(n - (i + 1) + 1) : b[j] = t[(i + 1) + j - 1]
      BY <2>1, <2>2, SubSeqProperties
    <2> HIDE DEF b, n
    <2>4. Len(b) = n - i
      BY <1>1, <2>3
    <2>5. ASSUME NEW j \in 1..(n - i) PROVE b[j] = t[i + j]
      <3>1. j \in 1..(n - (i + 1) + 1) /\ (i + 1) + j - 1 = i + j
        BY <1>1
      <3>2. QED BY <2>3, <3>1
    <2>6. QED BY <2>3, <2>4, <2>5
  <1> HIDE DEF a, b
  <1>4. /\ c \in Seq(V) /\ Len(c) = n - 1
        /\ \A j \in 1..(n - 1) : c[j] = IF j <= i - 1 THEN a[j] ELSE b[j - (i - 1)]
    <2>1. /\ c \in Seq(V) /\ Len(c) = Len(a) + Len(b)
          /\ \A j \in 1..(Len(a) + Len(b)) : c[j] = IF j <= Len(a) THEN a[j] ELSE b[j - Len(a)]
      BY <1>2, <1>3, ConcatProperties
    <2> HIDE DEF c, n
    <2>2. Len(a) + Len(b) = n - 1
      BY <1>1, <1>2, <1>3
    <2>3. QED BY <1>2, <2>1, <2>2
  <1>5. h \in Seq(V) /\ Len(h) = 1 /\ h[1] = t[i]
    BY <1>1
  <1> HIDE DEF c, h
  <1>6. /\ p \in Seq(V) /\ Len(p) = 1 + (n - 1)
        /\ \A j \in 1..(1 + (n - 1)) : p[j] = IF j <= 1 THEN h[j] ELSE c[j - 1]
    <2>1. /\ p \in Seq(V) /\ Len(p) = Len(h) + Len(c)
          /\ \A j \in 1..(Len(h) + Len(c)) : p[j] = IF j <= Len(h) THEN h[j] ELSE c[j - Len(h)]
      BY <1>4, <1>5, ConcatProperties
    <2> HIDE DEF p, n
    <2>2. QED BY <1>4, <1>5, <2>1
  <1>7. Pin(t, i) = p
    BY DEF Pin, RemoveAt, p, h, c, a, b
  <1> HIDE DEF p, n
  <1>8. Len(p) = n /\ p[1] = t[i]
    <2>1. 1 \in 1..(1 + (n - 1)) /\ 1 <= 1 /\ 1 + (n - 1) = n
      BY <1>1
    <2>2. QED BY <1>5, <1>6, <2>1
  <1>9. ASSUME NEW j \in 1..(n - 1) PROVE p[j + 1] = t[IF j < i THEN j ELSE j + 1]
    <2>1. j + 1 \in 1..(1 + (n - 1)) /\ ~(j + 1 <= 1) /\ (j + 1) - 1 = j
      BY <1>1
    <2>2. p[j + 1] = c[j]
      BY <1>6, <2>1
    <2>3. CASE j < i
      <3>1. j <= i - 1 /\ j \in 1..(i - 1)
        BY <1>1, <2>3
      <3>2. QED BY <1>2, <1>4, <2>2, <2>3, <3>1
    <2>4. CASE ~(j < i)
      <3>1. ~(j <= i - 1) /\ j - (i - 1) \in 1..(n - i) /\ i + (j - (i - 1)) = j + 1
        BY <1>1, <2>4
      <3>2. QED BY <1>3, <1>4, <2>2, <2>4, <3>1
    <2>5. QED BY <2>3, <2>4
  <1>10. QED BY <1>6, <1>7, <1>8, <1>9 DEF n

\* For every feed, mode and clock: rank_entries keeps each entry once, in the
\* order of the mode, and the pin moves the newest to the top and nothing else.
THEOREM RankKeepsOrder ==
    ASSUME NEW S, NEW entries \in Seq(FeedEntries(S)), OwnPlaces(entries), NEW opts, NEW now \in Int
    PROVE  LET r == RankEntries(entries, opts, now)
           IN  /\ ToSet(r) = ToSet(entries) /\ Len(r) = Len(entries)
               /\ IsRanked(r, opts, now)
  <1> DEFINE t == SortedFeed(entries, opts.mode, now)
             n == Len(t)
             V == FeedEntries(S)
             r == RankEntries(entries, opts, now)
  <1>1. /\ t \in Seq(V) /\ n = Len(entries) /\ OwnPlaces(t) /\ ToSet(t) = ToSet(entries)
        /\ \A i, j \in DOMAIN t : i < j => FeedPrecedes(opts.mode, now, t[i], t[j])
    BY FeedSorted
  <1>2. r = IF opts.pin_most_recent /\ t # <<>> THEN Pin(t, Newest(t)) ELSE t
    BY DEF RankEntries, SortedFeed
  <1> HIDE DEF t, r, V
  <1>3. n \in Nat /\ DOMAIN t = 1..n /\ (t = <<>> <=> n = 0)
    BY <1>1
  <1>4. CASE opts.pin_most_recent /\ t # <<>>
    <2> DEFINE i == Newest(t)
    <2>1. i \in 1..n /\ \A j \in 1..n : t[j].last_ordinal <= t[i].last_ordinal
      BY <1>1, <1>4, NewestIs DEF V
    <2>2. r = Pin(t, i)
      BY <1>2, <1>4
    <2> HIDE DEF i
    <2>3. /\ r \in Seq(V) /\ Len(r) = n /\ r[1] = t[i]
          /\ \A j \in 1..(n - 1) : r[j + 1] = t[IF j < i THEN j ELSE j + 1]
      BY <1>1, <2>1, <2>2, PinIs
    <2>4. DOMAIN r = 1..n /\ r # <<>>
      BY <1>3, <1>4, <2>3
    <2> HIDE DEF n
    <2>5. ASSUME NEW j \in 1..n PROVE \E k \in 1..n : r[j] = t[k]
      <3>1. CASE j = 1
        BY <2>1, <2>3, <3>1
      <3>2. CASE j # 1
        <4> DEFINE l == j - 1
                   k == IF l < i THEN l ELSE l + 1
        <4>1. l \in 1..(n - 1) /\ l + 1 = j
          BY <1>3, <3>2
        <4>2. k \in 1..n
          BY <1>3, <2>1, <4>1
        <4>3. r[l + 1] = t[k]
          BY <2>3, <4>1
        <4>4. QED BY <4>1, <4>2, <4>3
      <3>3. QED BY <3>1, <3>2
    <2>6. ASSUME NEW k \in 1..n PROVE \E j \in 1..n : r[j] = t[k]
      <3>1. CASE k = i
        <4>1. 1 \in 1..n
          BY <1>3, <2>1
        <4>2. QED BY <2>3, <3>1, <4>1
      <3>2. CASE k < i
        <4>1. k \in 1..(n - 1) /\ k + 1 \in 1..n
          BY <1>3, <2>1, <3>2
        <4>2. r[k + 1] = t[k]
          BY <2>3, <3>2, <4>1
        <4>3. QED BY <4>1, <4>2
      <3>3. CASE k > i
        <4> DEFINE l == k - 1
        <4>1. l \in 1..(n - 1) /\ ~(l < i) /\ l + 1 = k
          BY <1>3, <2>1, <3>3
        <4> HIDE DEF l
        <4>2. r[l + 1] = t[l + 1]
          BY <2>3, <4>1
        <4>3. QED BY <4>1, <4>2
      <3>4. k = i \/ k < i \/ k > i
        BY <1>3, <2>1
      <3>5. QED BY <3>1, <3>2, <3>3, <3>4
    <2>7. ToSet(r) = ToSet(entries)
      <3>1. ToSet(r) = {r[j] : j \in 1..n} /\ ToSet(t) = {t[k] : k \in 1..n}
        BY <1>3, <2>4 DEF ToSet
      <3>2. {r[j] : j \in 1..n} \subseteq {t[k] : k \in 1..n}
        BY <2>5
      <3>3. {t[k] : k \in 1..n} \subseteq {r[j] : j \in 1..n}
        <4> SUFFICES ASSUME NEW k \in 1..n PROVE \E j \in 1..n : t[k] = r[j]
          OBVIOUS
        <4>1. QED BY <2>6
      <3>4. QED BY <1>1, <3>1, <3>2, <3>3
    <2> DEFINE body == Tail(r)
    <2>8. Len(body) = n - 1 /\ DOMAIN body = 1..(n - 1)
          /\ \A j \in 1..(n - 1) : body[j] = t[IF j < i THEN j ELSE j + 1]
      <3>1. /\ body \in Seq(V) /\ Len(body) = n - 1
            /\ \A j \in 1..Len(body) : body[j] = r[j + 1]
        BY <2>3, <2>4, HeadTailProperties
      <3> HIDE DEF body
      <3>2. QED BY <2>3, <3>1
    <2> HIDE DEF body
    <2>9. ASSUME NEW j \in 1..(n - 1), NEW k \in 1..(n - 1), j < k
          PROVE  FeedPrecedes(opts.mode, now, body[j], body[k])
      <3> DEFINE x == IF j < i THEN j ELSE j + 1
                 y == IF k < i THEN k ELSE k + 1
      <3>1. x \in 1..n /\ y \in 1..n /\ x < y
        BY <1>3, <2>1, <2>9
      <3>2. body[j] = t[x] /\ body[k] = t[y]
        BY <2>8
      <3> HIDE DEF x, y
      <3>3. QED BY <1>1, <1>3, <3>1, <3>2
    <2>10. \A e \in ToSet(r) : e.last_ordinal <= r[1].last_ordinal
      <3>1. \A j \in 1..n : r[j].last_ordinal <= r[1].last_ordinal
        BY <2>1, <2>3, <2>5
      <3>2. QED BY <2>4, <3>1 DEF ToSet
    <2>11. \A j, k \in DOMAIN body : j < k => FeedPrecedes(opts.mode, now, body[j], body[k])
      BY <2>8, <2>9
    <2>12. IsRanked(r, opts, now)
      BY <1>4, <2>4, <2>10, <2>11 DEF IsRanked, body
    <2>13. QED BY <1>1, <2>3, <2>7, <2>12 DEF r
  <1>5. CASE ~(opts.pin_most_recent /\ t # <<>>)
    <2>1. r = t
      BY <1>2, <1>5
    <2>2. \A e \in ToSet(r) : t # <<>>
      <3>1. t = <<>> => DOMAIN t = {}
        OBVIOUS
      <3>2. QED BY <2>1, <3>1 DEF ToSet
    <2>3. IsRanked(r, opts, now)
      <3>1. opts.pin_most_recent => \A e \in ToSet(r) : e.last_ordinal <= r[1].last_ordinal
        BY <1>5, <2>2
      <3>2. ~(opts.pin_most_recent /\ r # <<>>)
        BY <1>5, <2>1
      <3>3. \A j, k \in DOMAIN r : j < k => FeedPrecedes(opts.mode, now, r[j], r[k])
        BY <1>1, <2>1
      <3>4. QED BY <3>1, <3>2, <3>3 DEF IsRanked
    <2>4. QED BY <1>1, <2>1, <2>3 DEF r
  <1>6. QED BY <1>4, <1>5

\* "pin_most_recent places the newest entry first unconditionally, and frecency
\* orders everything beneath it".
THEOREM PinMovesOne == QuestionsSpec => []MuscleMemory
  <1>1. ASSUME Faithful, Answered("feed")
        PROVE  /\ ToSet(answer.a.ranked) = ToSet(answer.a.entries)
               /\ Len(answer.a.ranked) = Len(answer.a.entries)
               /\ IsRanked(answer.a.ranked, asked.q.opts, FeedNow)
    <2> DEFINE entries == Accumulate(asked.q.history)
    <2>1. /\ answer.a.entries = entries
          /\ answer.a.ranked = RankEntries(entries, asked.q.opts, FeedNow)
      BY <1>1, FeedAnswered
    <2>2. asked.q.history \in Seq(Occurrences(Texts))
      BY <1>1, FeedAnswered, HistoryAsked
    <2>3. entries \in Seq(FeedEntries(Texts)) /\ OwnPlaces(entries)
      BY <2>2, AccumulateIsExact DEF OwnPlaces
    <2>4. FeedNow \in Int
      BY DEF FeedNow
    <2> HIDE DEF entries
    <2>5. QED BY <2>1, <2>3, <2>4, RankKeepsOrder
  <1>2. Faithful => MuscleMemory
    BY <1>1 DEF MuscleMemory
  <1>3. QED BY <1>2, AnswersFaithful, PTL
-----------------------------------------------------------------------------
(* Keywords, met one after the other.                                         *)

\* The bytes that a character takes by its first one.
Size(byte) == IF byte < 128 THEN 1 ELSE IF byte < 224 THEN 2 ELSE IF byte < 240 THEN 3 ELSE 4

\* The strings that begin with a character, and in which each character is whole
\* and another one follows it, if anything does.
Whole(s) ==
    /\ AtBoundary(s, 0)
    /\ \A i \in 1..Len(s) : s[i] \notin Continuing => AtBoundary(s, i - 1 + Size(s[i]))

Utf8 == {s \in Seq(Nat) : Whole(s)}

Chars == [width : Nat, lower : Utf8]

LEMMA SizeIs == \A byte \in Nat : Size(byte) \in Nat /\ Size(byte) >= 1
  BY DEF Size

LEMMA WholeJoined ==
    ASSUME NEW s \in Utf8, NEW t \in Utf8
    PROVE  s \o t \in Utf8
  <1> DEFINE u == s \o t
             m == Len(s)
             n == Len(t)
  <1>1. s \in Seq(Nat) /\ t \in Seq(Nat) /\ Whole(s) /\ Whole(t)
    BY DEF Utf8
  <1>2. /\ u \in Seq(Nat) /\ Len(u) = m + n /\ m \in Nat /\ n \in Nat
        /\ \A i \in 1..m : u[i] = s[i] /\ s[i] \in Nat
    BY <1>1
  <1>3. \A j \in 1..n : u[m + j] = t[j] /\ t[j] \in Nat
    BY <1>1
  <1>4. /\ \A at : AtBoundary(s, at) <=> at <= m /\ (at < m => s[at + 1] \notin Continuing)
        /\ \A at : AtBoundary(t, at) <=> at <= n /\ (at < n => t[at + 1] \notin Continuing)
    BY DEF AtBoundary
  <1>5. \A at : AtBoundary(u, at) <=> at <= m + n /\ (at < m + n => u[at + 1] \notin Continuing)
    BY <1>2 DEF AtBoundary
  <1>6. /\ AtBoundary(s, 0) /\ AtBoundary(t, 0)
        /\ \A i \in 1..m : s[i] \notin Continuing => AtBoundary(s, i - 1 + Size(s[i]))
        /\ \A j \in 1..n : t[j] \notin Continuing => AtBoundary(t, j - 1 + Size(t[j]))
    BY <1>1 DEF Whole
  <1> HIDE DEF u, m, n
  <1>7. ASSUME NEW at \in Nat, AtBoundary(s, at) PROVE AtBoundary(u, at)
    <2>1. at <= m /\ (at < m => s[at + 1] \notin Continuing)
      BY <1>4, <1>7
    <2>2. CASE at < m
      <3>1. at + 1 \in 1..m /\ s[at + 1] \notin Continuing
        BY <1>2, <2>1, <2>2
      <3>2. u[at + 1] \notin Continuing
        BY <1>2, <3>1
      <3>3. QED BY <1>2, <1>5, <2>1, <3>2
    <2>3. CASE at = m
      <3>1. n > 0 => u[m + 1] = t[1] /\ t[1] \notin Continuing
        <4>1. n > 0 => 1 \in 1..n /\ 0 < n /\ 0 + 1 = 1
          BY <1>2
        <4>2. QED BY <1>3, <1>4, <1>6, <4>1
      <3>2. QED BY <1>2, <1>5, <2>3, <3>1
    <2>4. QED BY <1>2, <2>1, <2>2, <2>3
  <1>8. ASSUME NEW at \in Nat, AtBoundary(t, at) PROVE AtBoundary(u, m + at)
    <2>1. at <= n /\ (at < n => t[at + 1] \notin Continuing)
      BY <1>4, <1>8
    <2>2. at < n => at + 1 \in 1..n
      BY <1>2
    <2>3. at < n => u[m + (at + 1)] \notin Continuing
      BY <1>3, <2>1, <2>2
    <2>4. m + (at + 1) = (m + at) + 1 /\ m + at <= m + n /\ (m + at < m + n => at < n)
      BY <1>2, <2>1
    <2>5. QED BY <1>5, <2>3, <2>4
  <1>9. AtBoundary(u, 0)
    BY <1>6, <1>7
  <1>10. ASSUME NEW i \in 1..(m + n), u[i] \notin Continuing
         PROVE  AtBoundary(u, i - 1 + Size(u[i]))
    <2>1. CASE i \in 1..m
      <3>1. u[i] = s[i] /\ Size(s[i]) \in Nat /\ Size(s[i]) >= 1
        BY <1>2, <2>1, SizeIs
      <3>2. i - 1 + Size(s[i]) \in Nat
        BY <1>2, <2>1, <3>1
      <3>3. AtBoundary(s, i - 1 + Size(s[i]))
        BY <1>6, <1>10, <2>1, <3>1
      <3>4. QED BY <1>7, <3>1, <3>2, <3>3
    <2>2. CASE i \notin 1..m
      <3>1. PICK j \in 1..n : i = m + j
        <4>1. i - m \in 1..n /\ i = m + (i - m)
          BY <1>2, <1>10, <2>2
        <4>2. QED BY <4>1
      <3>2. u[i] = t[j] /\ Size(t[j]) \in Nat /\ Size(t[j]) >= 1
        BY <1>3, <3>1, SizeIs
      <3> DEFINE z == Size(t[j])
      <3>3. AtBoundary(t, j - 1 + z)
        BY <1>6, <1>10, <3>1, <3>2
      <3>4. u[i] = t[j] /\ z \in Nat /\ z >= 1
        BY <3>2
      <3> HIDE DEF z
      <3>5. j - 1 + z \in Nat /\ m + (j - 1 + z) = i - 1 + z
        BY <1>2, <3>1, <3>4
      <3>6. AtBoundary(u, i - 1 + z)
        BY <1>8, <3>3, <3>5
      <3>7. QED BY <3>2, <3>6 DEF z
    <2>3. QED BY <2>1, <2>2
  <1>11. Whole(u)
    BY <1>2, <1>9, <1>10 DEF Whole
  <1>12. QED BY <1>2, <1>11 DEF Utf8, u

LEMMA WholeFew == <<>> \in Utf8 /\ <<SlashByte>> \in Utf8
  <1>1. <<>> \in Seq(Nat) /\ <<SlashByte>> \in Seq(Nat)
    BY DEF SlashByte
  <1>2. Whole(<<>>)
    BY DEF Whole, AtBoundary
  <1>3. Whole(<<SlashByte>>)
    BY DEF Whole, AtBoundary, SlashByte, Continuing, Size
  <1>4. QED BY <1>1, <1>2, <1>3 DEF Utf8

\* One more character, and one more component.
LowerWith(bytes, c) == bytes \o c.lower
WidthWith(n, c)     == n + c.width
HayWith(bytes, name) == bytes \o <<SlashByte>> \o Lower(name)

LEMMA LowerStepType ==
    ASSUME NEW bytes \in Utf8, NEW c \in Chars
    PROVE  LowerWith(bytes, c) \in Utf8
  <1>1. c.lower \in Utf8
    BY DEF Chars
  <1>2. QED BY <1>1, WholeJoined DEF LowerWith

LEMMA WidthStepType ==
    ASSUME NEW n \in Nat, NEW c \in Chars
    PROVE  WidthWith(n, c) \in Nat
  BY DEF Chars, WidthWith

\* The lower case, character by character.
IsLowerRun(a, text) ==
    /\ a \in [0..Len(text) -> Utf8] /\ a[0] = <<>>
    /\ \A k \in 1..Len(text) : a[k] = LowerWith(a[k - 1], text[k])

LowerStep(text) == [p \in (1..Len(text)) \X Utf8 |-> LowerWith(p[2], text[p[1]])]

LEMMA LowerRun ==
    ASSUME NEW text \in Seq(Chars)
    PROVE  \E a : IsLowerRun(a, text) /\ Lower(text) = a[Len(text)]
  <1> DEFINE n == Len(text)
             V == Utf8
             base == <<>>
             G == LowerStep(text)
             body(h) == [t \in SUBSET (DOMAIN text) |->
                            IF t = {} THEN <<>>
                            ELSE LowerWith(h[t \ {Max(t)}], text[Max(t)])]
             iter == CHOOSE h : h = body(h)
  <1>1. n \in Nat /\ DOMAIN text = 1..n /\ \A k \in 1..n : text[k] \in Chars
    OBVIOUS
  <1>2. Lower(text) = iter[DOMAIN text]
    BY DEF Lower, LowerWith, FoldLeft, MapThenFoldSet
  <1>3. G \in [(1..n) \X V -> V] /\ base \in V
    <2>1. \A p \in (1..n) \X V : LowerWith(p[2], text[p[1]]) \in V
      BY <1>1, LowerStepType
    <2>2. G \in [(1..n) \X V -> V]
      BY <2>1 DEF LowerStep
    <2>3. base \in V
      BY WholeFew
    <2>4. QED BY <2>2, <2>3
  <1>4. \A k \in 1..n, c \in V : G[<<k, c>>] = LowerWith(c, text[k])
    BY DEF LowerStep
  <1>5. PICK h : IsFold(h, n, V, base, G)
    <2> HIDE DEF n, V, base, G
    <2>1. QED BY <1>1, <1>3, FoldExists
  <1>6. h = body(h)
    <2>1. ASSUME NEW t \in SUBSET (1..n), t # {}
          PROVE  h[t] = LowerWith(h[t \ {Max(t)}], text[Max(t)])
      <3> HIDE DEF n, V, base, G
      <3>1. FoldsDown(h, n, V, G)
        BY <1>1, <1>5, FoldStep
      <3>2. /\ Max(t) \in 1..n /\ h[t \ {Max(t)}] \in V
            /\ h[t] = G[<<Max(t), h[t \ {Max(t)}]>>]
        BY <2>1, <3>1 DEF FoldsDown
      <3>3. QED BY <1>4, <3>2
    <2>2. h[{}] = base /\ h = [t \in SUBSET (1..n) |-> h[t]]
      BY <1>5 DEF IsFold
    <2>3. QED BY <1>1, <2>1, <2>2
  <1>7. iter = body(iter)
    BY <1>6
  <1> HIDE DEF iter
  <1>8. iter[{}] = base
    BY <1>7
  <1>9. ASSUME NEW k \in 1..n, iter[1..(k - 1)] \in V
        PROVE  iter[1..k] = G[<<k, iter[1..(k - 1)]>>]
    <2>1. Max(1..k) = k /\ (1..k) \ {k} = 1..(k - 1) /\ 1..k # {} /\ 1..k \in SUBSET DOMAIN text
      BY <1>1, MaxOfInterval
    <2>2. iter[1..k] = LowerWith(iter[(1..k) \ {Max(1..k)}], text[Max(1..k)])
      BY <1>7, <2>1
    <2>3. QED BY <1>4, <1>9, <2>1, <2>2
  <1>10. RunsBy(iter, n, V, base, G)
    <2> HIDE DEF n, V, base, G
    <2>1. QED BY <1>3, <1>8, <1>9 DEF RunsBy
  <1> HIDE DEF n, V, base, G
  <1>11. PICK a : IsRun(a, n, V, base, G) /\ iter[1..n] = a[n]
    BY <1>1, <1>10, RunAlong
  <1>12. /\ a \in [0..n -> V] /\ a[0] = base
         /\ \A k \in 1..n : a[k] = G[<<k, a[k - 1]>>]
    BY <1>11 DEF IsRun
  <1>13. \A k \in 1..n : k - 1 \in 0..n /\ a[k - 1] \in V
    BY <1>1, <1>12
  <1>14. \A k \in 1..n : a[k] = LowerWith(a[k - 1], text[k])
    BY <1>4, <1>12, <1>13
  <1>15. IsLowerRun(a, text)
    BY <1>12, <1>14 DEF IsLowerRun, n, V, base
  <1>16. QED BY <1>1, <1>2, <1>11, <1>15 DEF n

\* The width, character by character.
IsWidthRun(a, text) ==
    /\ a \in [0..Len(text) -> Nat] /\ a[0] = 0
    /\ \A k \in 1..Len(text) : a[k] = WidthWith(a[k - 1], text[k])

WidthStep(text) == [p \in (1..Len(text)) \X Nat |-> WidthWith(p[2], text[p[1]])]

LEMMA WidthRun ==
    ASSUME NEW text \in Seq(Chars)
    PROVE  \E a : IsWidthRun(a, text) /\ Width(text) = a[Len(text)]
  <1> DEFINE n == Len(text)
             V == Nat
             base == 0
             G == WidthStep(text)
             body(h) == [t \in SUBSET (DOMAIN text) |->
                            IF t = {} THEN 0
                            ELSE WidthWith(h[t \ {Max(t)}], text[Max(t)])]
             iter == CHOOSE h : h = body(h)
  <1>1. n \in Nat /\ DOMAIN text = 1..n /\ \A k \in 1..n : text[k] \in Chars
    OBVIOUS
  <1>2. Width(text) = iter[DOMAIN text]
    BY DEF Width, WidthWith, FoldLeft, MapThenFoldSet
  <1>3. G \in [(1..n) \X V -> V] /\ base \in V
    <2>1. \A p \in (1..n) \X V : WidthWith(p[2], text[p[1]]) \in V
      BY <1>1, WidthStepType
    <2>2. G \in [(1..n) \X V -> V]
      BY <2>1 DEF WidthStep
    <2>3. base \in V
      OBVIOUS
    <2>4. QED BY <2>2, <2>3
  <1>4. \A k \in 1..n, c \in V : G[<<k, c>>] = WidthWith(c, text[k])
    BY DEF WidthStep
  <1>5. PICK h : IsFold(h, n, V, base, G)
    <2> HIDE DEF n, V, base, G
    <2>1. QED BY <1>1, <1>3, FoldExists
  <1>6. h = body(h)
    <2>1. ASSUME NEW t \in SUBSET (1..n), t # {}
          PROVE  h[t] = WidthWith(h[t \ {Max(t)}], text[Max(t)])
      <3> HIDE DEF n, V, base, G
      <3>1. FoldsDown(h, n, V, G)
        BY <1>1, <1>5, FoldStep
      <3>2. /\ Max(t) \in 1..n /\ h[t \ {Max(t)}] \in V
            /\ h[t] = G[<<Max(t), h[t \ {Max(t)}]>>]
        BY <2>1, <3>1 DEF FoldsDown
      <3>3. QED BY <1>4, <3>2
    <2>2. h[{}] = base /\ h = [t \in SUBSET (1..n) |-> h[t]]
      BY <1>5 DEF IsFold
    <2>3. QED BY <1>1, <2>1, <2>2
  <1>7. iter = body(iter)
    BY <1>6
  <1> HIDE DEF iter
  <1>8. iter[{}] = base
    BY <1>7
  <1>9. ASSUME NEW k \in 1..n, iter[1..(k - 1)] \in V
        PROVE  iter[1..k] = G[<<k, iter[1..(k - 1)]>>]
    <2>1. Max(1..k) = k /\ (1..k) \ {k} = 1..(k - 1) /\ 1..k # {} /\ 1..k \in SUBSET DOMAIN text
      BY <1>1, MaxOfInterval
    <2>2. iter[1..k] = WidthWith(iter[(1..k) \ {Max(1..k)}], text[Max(1..k)])
      BY <1>7, <2>1
    <2>3. QED BY <1>4, <1>9, <2>1, <2>2
  <1>10. RunsBy(iter, n, V, base, G)
    <2> HIDE DEF n, V, base, G
    <2>1. QED BY <1>3, <1>8, <1>9 DEF RunsBy
  <1> HIDE DEF n, V, base, G
  <1>11. PICK a : IsRun(a, n, V, base, G) /\ iter[1..n] = a[n]
    BY <1>1, <1>10, RunAlong
  <1>12. /\ a \in [0..n -> V] /\ a[0] = base
         /\ \A k \in 1..n : a[k] = G[<<k, a[k - 1]>>]
    BY <1>11 DEF IsRun
  <1>13. \A k \in 1..n : k - 1 \in 0..n /\ a[k - 1] \in V
    BY <1>1, <1>12
  <1>14. \A k \in 1..n : a[k] = WidthWith(a[k - 1], text[k])
    BY <1>4, <1>12, <1>13
  <1>15. IsWidthRun(a, text)
    BY <1>12, <1>14 DEF IsWidthRun, n, V, base
  <1>16. QED BY <1>1, <1>2, <1>11, <1>15 DEF n

LEMMA TextType ==
    ASSUME NEW text \in Seq(Chars)
    PROVE  Lower(text) \in Utf8 /\ Width(text) \in Nat
  <1>1. Lower(text) \in Utf8
    <2>1. PICK a : IsLowerRun(a, text) /\ Lower(text) = a[Len(text)]
      BY LowerRun
    <2>2. Len(text) \in 0..Len(text)
      OBVIOUS
    <2>3. QED BY <2>1, <2>2 DEF IsLowerRun
  <1>2. Width(text) \in Nat
    <2>1. PICK a : IsWidthRun(a, text) /\ Width(text) = a[Len(text)]
      BY WidthRun
    <2>2. Len(text) \in 0..Len(text)
      OBVIOUS
    <2>3. QED BY <2>1, <2>2 DEF IsWidthRun
  <1>3. QED BY <1>1, <1>2

LEMMA HayStepType ==
    ASSUME NEW bytes \in Utf8, NEW name \in Seq(Chars)
    PROVE  HayWith(bytes, name) \in Utf8
  <1>1. Lower(name) \in Utf8 /\ <<SlashByte>> \in Utf8
    BY TextType, WholeFew
  <1>2. bytes \o <<SlashByte>> \in Utf8
    BY <1>1, WholeJoined
  <1>3. QED BY <1>1, <1>2, WholeJoined DEF HayWith

\* The string of a path, component by component.
IsHayRun(a, dir) ==
    /\ a \in [0..Len(dir) -> Utf8] /\ a[0] = <<>>
    /\ \A k \in 1..Len(dir) : a[k] = HayWith(a[k - 1], dir[k])

HayStep(dir) == [p \in (1..Len(dir)) \X Utf8 |-> HayWith(p[2], dir[p[1]])]

LEMMA HayRun ==
    ASSUME NEW dir \in Seq(Seq(Chars)), dir # <<>>
    PROVE  \E a : IsHayRun(a, dir) /\ Hay(dir) = a[Len(dir)]
  <1> DEFINE n == Len(dir)
             V == Utf8
             base == <<>>
             G == HayStep(dir)
             body(h) == [t \in SUBSET (DOMAIN dir) |->
                            IF t = {} THEN <<>>
                            ELSE HayWith(h[t \ {Max(t)}], dir[Max(t)])]
             iter == CHOOSE h : h = body(h)
  <1>1. n \in Nat /\ DOMAIN dir = 1..n /\ \A k \in 1..n : dir[k] \in Seq(Chars)
    OBVIOUS
  <1>2. Hay(dir) = iter[DOMAIN dir]
    BY DEF Hay, HayWith, FoldLeft, MapThenFoldSet
  <1>3. G \in [(1..n) \X V -> V] /\ base \in V
    <2>1. \A p \in (1..n) \X V : HayWith(p[2], dir[p[1]]) \in V
      BY <1>1, HayStepType
    <2>2. G \in [(1..n) \X V -> V]
      BY <2>1 DEF HayStep
    <2>3. base \in V
      BY WholeFew
    <2>4. QED BY <2>2, <2>3
  <1>4. \A k \in 1..n, c \in V : G[<<k, c>>] = HayWith(c, dir[k])
    BY DEF HayStep
  <1>5. PICK h : IsFold(h, n, V, base, G)
    <2> HIDE DEF n, V, base, G
    <2>1. QED BY <1>1, <1>3, FoldExists
  <1>6. h = body(h)
    <2>1. ASSUME NEW t \in SUBSET (1..n), t # {}
          PROVE  h[t] = HayWith(h[t \ {Max(t)}], dir[Max(t)])
      <3> HIDE DEF n, V, base, G
      <3>1. FoldsDown(h, n, V, G)
        BY <1>1, <1>5, FoldStep
      <3>2. /\ Max(t) \in 1..n /\ h[t \ {Max(t)}] \in V
            /\ h[t] = G[<<Max(t), h[t \ {Max(t)}]>>]
        BY <2>1, <3>1 DEF FoldsDown
      <3>3. QED BY <1>4, <3>2
    <2>2. h[{}] = base /\ h = [t \in SUBSET (1..n) |-> h[t]]
      BY <1>5 DEF IsFold
    <2>3. QED BY <1>1, <2>1, <2>2
  <1>7. iter = body(iter)
    BY <1>6
  <1> HIDE DEF iter
  <1>8. iter[{}] = base
    BY <1>7
  <1>9. ASSUME NEW k \in 1..n, iter[1..(k - 1)] \in V
        PROVE  iter[1..k] = G[<<k, iter[1..(k - 1)]>>]
    <2>1. Max(1..k) = k /\ (1..k) \ {k} = 1..(k - 1) /\ 1..k # {} /\ 1..k \in SUBSET DOMAIN dir
      BY <1>1, MaxOfInterval
    <2>2. iter[1..k] = HayWith(iter[(1..k) \ {Max(1..k)}], dir[Max(1..k)])
      BY <1>7, <2>1
    <2>3. QED BY <1>4, <1>9, <2>1, <2>2
  <1>10. RunsBy(iter, n, V, base, G)
    <2> HIDE DEF n, V, base, G
    <2>1. QED BY <1>3, <1>8, <1>9 DEF RunsBy
  <1> HIDE DEF n, V, base, G
  <1>11. PICK a : IsRun(a, n, V, base, G) /\ iter[1..n] = a[n]
    BY <1>1, <1>10, RunAlong
  <1>12. /\ a \in [0..n -> V] /\ a[0] = base
         /\ \A k \in 1..n : a[k] = G[<<k, a[k - 1]>>]
    BY <1>11 DEF IsRun
  <1>13. \A k \in 1..n : k - 1 \in 0..n /\ a[k - 1] \in V
    BY <1>1, <1>12
  <1>14. \A k \in 1..n : a[k] = HayWith(a[k - 1], dir[k])
    BY <1>4, <1>12, <1>13
  <1>15. IsHayRun(a, dir)
    BY <1>12, <1>14 DEF IsHayRun, n, V, base
  <1>16. QED BY <1>1, <1>2, <1>11, <1>15 DEF n

LEMMA HayType ==
    ASSUME NEW dir \in Seq(Seq(Chars))
    PROVE  Hay(dir) \in Utf8
  <1>1. CASE dir = <<>>
    BY <1>1, WholeFew DEF Hay
  <1>2. CASE dir # <<>>
    <2>1. PICK a : IsHayRun(a, dir) /\ Hay(dir) = a[Len(dir)]
      BY <1>2, HayRun
    <2>2. Len(dir) \in 0..Len(dir)
      OBVIOUS
    <2>3. QED BY <2>1, <2>2 DEF IsHayRun
  <1>3. QED BY <1>1, <1>2

LEMMA LowerType ==
    ASSUME NEW text \in Seq(Chars)
    PROVE  Lower(text) \in Seq(Nat) /\ Whole(Lower(text)) /\ Width(text) \in Nat
  BY TextType DEF Utf8

\* Where a search may go on.
Offsets == {NotMet, Panic} \cup Nat

Words == Seq(Seq(Chars))

\* The offsets from `from` on at which the lower case of k stands.
MetFrom(hay, from, k) ==
    {i \in 0..(Len(hay) - from) : StandsAt(Lower(k), hay, from + i)}

LEMMA MeetIs ==
    ASSUME NEW hay \in Seq(Nat), NEW from \in Offsets, NEW k \in Seq(Chars)
    PROVE  /\ Meet(hay, from, k) \in Offsets
           /\ from \notin Nat => Meet(hay, from, k) = from
           /\ from \in Nat /\ ~AtBoundary(hay, from) => Meet(hay, from, k) = Panic
           /\ from \in Nat /\ AtBoundary(hay, from) /\ MetFrom(hay, from, k) = {} =>
                 Meet(hay, from, k) = NotMet
           /\ from \in Nat /\ AtBoundary(hay, from) /\ MetFrom(hay, from, k) # {} =>
                 \E i \in MetFrom(hay, from, k) :
                    /\ i \in Nat /\ \A j \in MetFrom(hay, from, k) : i <= j
                    /\ Meet(hay, from, k) = from + i + Width(k)
  <1> DEFINE met == MetFrom(hay, from, k)
             w == Width(k)
             h == Len(hay)
             r == Meet(hay, from, k)
  <1>1. r = IF from \in {NotMet, Panic} THEN from
            ELSE IF ~AtBoundary(hay, from) THEN Panic
            ELSE IF met = {} THEN NotMet ELSE from + Min(met) + w
    BY DEF Meet, MetFrom, Advance
  <1>2. h \in Nat /\ w \in Nat
    BY LowerType
  <1>3. from \notin {NotMet, Panic} <=> from \in Nat
    BY DEF Offsets, NotMet, Panic
  <1>4. NotMet \in Offsets /\ Panic \in Offsets
    BY DEF Offsets
  <1>5. from \in Nat /\ met # {} =>
           /\ Min(met) \in met /\ Min(met) \in Nat
           /\ \A j \in met : Min(met) <= j
    <2>1. met \subseteq Nat
      BY DEF MetFrom
    <2> HIDE DEF met
    <2>2. QED BY <2>1, MinOf
  <1> HIDE DEF met, r, h, w
  <1>6. CASE from \notin Nat
    BY <1>1, <1>3, <1>6 DEF r, h, met
  <1>7. CASE from \in Nat /\ ~AtBoundary(hay, from)
    BY <1>1, <1>2, <1>3, <1>4, <1>7 DEF r, h, met
  <1>8. CASE from \in Nat /\ AtBoundary(hay, from) /\ met = {}
    BY <1>1, <1>2, <1>3, <1>4, <1>8 DEF r, h, met
  <1>9. CASE from \in Nat /\ AtBoundary(hay, from) /\ met # {}
    <2>1. r = from + Min(met) + w
      BY <1>1, <1>3, <1>9
    <2>2. Min(met) \in met /\ Min(met) \in Nat /\ \A j \in met : Min(met) <= j
      BY <1>5, <1>9
    <2> DEFINE i == Min(met)
    <2> HIDE DEF i
    <2>3. i \in met /\ i \in Nat /\ (\A j \in met : i <= j) /\ r = from + i + w
      BY <2>1, <2>2 DEF i
    <2>4. r \in Nat
      BY <1>2, <1>9, <2>3
    <2>5. r \in Offsets
      BY <2>4 DEF Offsets
    <2>6. AtBoundary(hay, from) /\ from \in Nat /\ met # {}
      BY <1>9
    <2>7. QED BY <2>3, <2>5, <2>6 DEF r, h, met, w
  <1>10. QED BY <1>6, <1>7, <1>8, <1>9

LEMMA MeetType ==
    ASSUME NEW hay \in Seq(Nat), NEW from \in Offsets, NEW k \in Seq(Chars)
    PROVE  Meet(hay, from, k) \in Offsets
  BY MeetIs

\* The cursor of matches_all, or why it stopped.
EndOf(hay, keywords) == FoldLeft(LAMBDA f, k : Meet(hay, f, k), 0, keywords)

\* ... keyword by keyword.
IsMeetRun(a, hay, keywords) ==
    /\ a \in [0..Len(keywords) -> Offsets] /\ a[0] = 0
    /\ \A k \in 1..Len(keywords) : a[k] = Meet(hay, a[k - 1], keywords[k])

MeetStep(hay, keywords) == [p \in (1..Len(keywords)) \X Offsets |-> Meet(hay, p[2], keywords[p[1]])]

LEMMA MeetRun ==
    ASSUME NEW hay \in Seq(Nat), NEW keywords \in Words
    PROVE  \E a : IsMeetRun(a, hay, keywords) /\ EndOf(hay, keywords) = a[Len(keywords)]
  <1> DEFINE n == Len(keywords)
             V == Offsets
             base == 0
             G == MeetStep(hay, keywords)
             body(h) == [t \in SUBSET (DOMAIN keywords) |->
                            IF t = {} THEN 0
                            ELSE Meet(hay, h[t \ {Max(t)}], keywords[Max(t)])]
             iter == CHOOSE h : h = body(h)
  <1>1. n \in Nat /\ DOMAIN keywords = 1..n /\ \A k \in 1..n : keywords[k] \in Seq(Chars)
    BY DEF Words
  <1>2. EndOf(hay, keywords) = iter[DOMAIN keywords]
    BY DEF EndOf, FoldLeft, MapThenFoldSet
  <1>3. G \in [(1..n) \X V -> V] /\ base \in V
    <2>1. \A p \in (1..n) \X V : Meet(hay, p[2], keywords[p[1]]) \in V
      BY <1>1, MeetType
    <2>2. G \in [(1..n) \X V -> V]
      BY <2>1 DEF MeetStep
    <2>3. base \in V
      BY DEF Offsets
    <2>4. QED BY <2>2, <2>3
  <1>4. \A k \in 1..n, c \in V : G[<<k, c>>] = Meet(hay, c, keywords[k])
    BY DEF MeetStep
  <1>5. PICK h : IsFold(h, n, V, base, G)
    <2> HIDE DEF n, V, base, G
    <2>1. QED BY <1>1, <1>3, FoldExists
  <1>6. h = body(h)
    <2>1. ASSUME NEW t \in SUBSET (1..n), t # {}
          PROVE  h[t] = Meet(hay, h[t \ {Max(t)}], keywords[Max(t)])
      <3> HIDE DEF n, V, base, G
      <3>1. FoldsDown(h, n, V, G)
        BY <1>1, <1>5, FoldStep
      <3>2. /\ Max(t) \in 1..n /\ h[t \ {Max(t)}] \in V
            /\ h[t] = G[<<Max(t), h[t \ {Max(t)}]>>]
        BY <2>1, <3>1 DEF FoldsDown
      <3>3. QED BY <1>4, <3>2
    <2>2. h[{}] = base /\ h = [t \in SUBSET (1..n) |-> h[t]]
      BY <1>5 DEF IsFold
    <2>3. QED BY <1>1, <2>1, <2>2
  <1>7. iter = body(iter)
    BY <1>6
  <1> HIDE DEF iter
  <1>8. iter[{}] = base
    BY <1>7
  <1>9. ASSUME NEW k \in 1..n, iter[1..(k - 1)] \in V
        PROVE  iter[1..k] = G[<<k, iter[1..(k - 1)]>>]
    <2>1. Max(1..k) = k /\ (1..k) \ {k} = 1..(k - 1) /\ 1..k # {} /\ 1..k \in SUBSET DOMAIN keywords
      <3>1. k \in Nat \ {0} /\ k <= n
        BY <1>1
      <3>2. 1..k # {} /\ 1..k \subseteq DOMAIN keywords
        BY <1>1, <3>1, UpTo
      <3>3. QED BY <3>1, <3>2, MaxOfInterval
    <2>2. iter[1..k] = Meet(hay, iter[(1..k) \ {Max(1..k)}], keywords[Max(1..k)])
      BY <1>7, <2>1
    <2>3. QED BY <1>4, <1>9, <2>1, <2>2
  <1>10. RunsBy(iter, n, V, base, G)
    <2> HIDE DEF n, V, base, G
    <2>1. QED BY <1>3, <1>8, <1>9 DEF RunsBy
  <1> HIDE DEF n, V, base, G
  <1>11. PICK a : IsRun(a, n, V, base, G) /\ iter[1..n] = a[n]
    BY <1>1, <1>10, RunAlong
  <1>12. /\ a \in [0..n -> V] /\ a[0] = base
         /\ \A k \in 1..n : a[k] = G[<<k, a[k - 1]>>]
    BY <1>11 DEF IsRun
  <1>13. \A k \in 1..n : k - 1 \in 0..n /\ a[k - 1] \in V
    BY <1>1, <1>12
  <1>14. \A k \in 1..n : a[k] = Meet(hay, a[k - 1], keywords[k])
    BY <1>4, <1>12, <1>13
  <1>15. IsMeetRun(a, hay, keywords)
    BY <1>12, <1>14 DEF IsMeetRun, n, V, base
  <1>16. QED BY <1>1, <1>2, <1>11, <1>15 DEF n

\* The offsets at which the keywords stand, one after the other.
IsLayout(at, hay, keywords) ==
    /\ at \in [DOMAIN keywords -> 0..Len(hay)]
    /\ \A j \in DOMAIN keywords : StandsAt(Lower(keywords[j]), hay, at[j])
    /\ \A j \in DOMAIN keywords \ {1} :
          at[j - 1] + Len(Lower(keywords[j - 1])) <= at[j]

LEMMA LaidOutIs ==
    ASSUME NEW dir, NEW keywords
    PROVE  LaidOut(dir, keywords) <=> \E at : IsLayout(at, Hay(dir), keywords)
  BY DEF LaidOut, IsLayout

\* A keyword that is met: where, and how far the cursor goes.
LEMMA MeetFinds ==
    ASSUME NEW hay \in Seq(Nat), NEW from \in Offsets, NEW k \in Seq(Chars),
           Meet(hay, from, k) \in Nat
    PROVE  /\ from \in Nat /\ from <= Len(hay)
           /\ from <= Meet(hay, from, k) - Width(k)
           /\ Meet(hay, from, k) - Width(k) <= Len(hay)
           /\ StandsAt(Lower(k), hay, Meet(hay, from, k) - Width(k))
  <1> DEFINE r == Meet(hay, from, k)
             w == Width(k)
             h == Len(hay)
  <1>1. w \in Nat /\ h \in Nat
    BY LowerType
  <1>2. r \in Nat /\ NotMet \notin Nat /\ Panic \notin Nat
    BY DEF NotMet, Panic
  <1>3. /\ from \notin Nat => r = from
        /\ from \in Nat /\ ~AtBoundary(hay, from) => r = Panic
        /\ from \in Nat /\ AtBoundary(hay, from) /\ MetFrom(hay, from, k) = {} => r = NotMet
        /\ from \in Nat /\ AtBoundary(hay, from) /\ MetFrom(hay, from, k) # {} =>
              \E i \in MetFrom(hay, from, k) :
                 i \in Nat /\ r = from + i + w
    BY MeetIs
  <1>4. \A i \in MetFrom(hay, from, k) :
           i \in 0..(h - from) /\ StandsAt(Lower(k), hay, from + i)
    BY DEF MetFrom
  <1> HIDE DEF r, w, h
  <1>5. from \in Nat /\ AtBoundary(hay, from)
    BY <1>2, <1>3
  <1>6. from <= h
    BY <1>5 DEF AtBoundary, h
  <1>7. PICK i \in MetFrom(hay, from, k) : i \in Nat /\ r = from + i + w
    BY <1>2, <1>3, <1>5, <1>6
  <1>8. i \in 0..(h - from) /\ StandsAt(Lower(k), hay, from + i)
    BY <1>4, <1>7
  <1>9. r - w = from + i /\ from + i <= h
    BY <1>1, <1>5, <1>7, <1>8
  <1>10. StandsAt(Lower(k), hay, r - w) /\ from <= r - w /\ r - w <= h
    BY <1>5, <1>7, <1>8, <1>9
  <1>11. QED BY <1>5, <1>6, <1>10 DEF r, w, h

\* A keyword that stands somewhere from the cursor on is met there or before.
LEMMA MeetMissesNone ==
    ASSUME NEW hay \in Seq(Nat), NEW from \in Nat, NEW k \in Seq(Chars),
           AtBoundary(hay, from),
           NEW p \in 0..Len(hay), from <= p, StandsAt(Lower(k), hay, p)
    PROVE  Meet(hay, from, k) \in Nat /\ Meet(hay, from, k) <= p + Width(k)
  <1> DEFINE r == Meet(hay, from, k)
             w == Width(k)
             h == Len(hay)
             M == MetFrom(hay, from, k)
  <1>1. w \in Nat /\ h \in Nat /\ p \in 0..h
    BY LowerType
  <1>2. p - from \in 0..(h - from) /\ from + (p - from) = p
    BY <1>1
  <1>3. p - from \in M
    BY <1>2 DEF MetFrom
  <1>4. from \in Offsets
    BY DEF Offsets
  <1>5. AtBoundary(hay, from) /\ M # {}
    BY <1>3
  <1>6. \E i \in M : /\ i \in Nat /\ \A j \in M : i <= j
                     /\ r = from + i + w
    BY <1>4, <1>5, MeetIs
  <1> HIDE DEF r, w, h, M
  <1>7. PICK i \in M : i \in Nat /\ (\A j \in M : i <= j) /\ r = from + i + w
    BY <1>6
  <1>8. i <= p - from
    BY <1>3, <1>7
  <1>9. r \in Nat /\ r <= p + w
    BY <1>1, <1>7, <1>8
  <1>10. QED BY <1>9 DEF r, w

\* A whole string ends in its string at the end of a character.
LEMMA WholeEndsWhole ==
    ASSUME NEW hay \in Utf8, NEW x \in Utf8, x # <<>>, NEW p \in Nat, StandsAt(x, hay, p)
    PROVE  AtBoundary(hay, p + Len(x))
  <1> DEFINE n == Len(x)
             T == {i \in 1..n : x[i] \notin Continuing}
             m == Max(T)
  <1>1. /\ hay \in Seq(Nat) /\ x \in Seq(Nat) /\ Whole(hay) /\ Whole(x)
        /\ n \in Nat \ {0} /\ Len(hay) \in Nat
    BY LenProperties, EmptySeq DEF Utf8
  <1>2. p + n <= Len(hay) /\ SubSeq(hay, p + 1, p + n) = x
    BY DEF StandsAt
  <1>3. \A i \in 1..n : hay[p + i] = x[i] /\ x[i] \in Nat
    <2> SUFFICES ASSUME NEW i \in 1..n PROVE hay[p + i] = x[i] /\ x[i] \in Nat
      OBVIOUS
    <2> HIDE DEF n
    <2>1. SubSeq(hay, p + 1, p + n)[i] = hay[p + i]
      BY <1>1, <1>2
    <2>2. x[i] \in Nat
      BY <1>1, ElementOfSeq DEF n
    <2>3. QED BY <1>2, <2>1, <2>2
  <1>4. x[1] \notin Continuing
    BY <1>1 DEF Whole, AtBoundary
  <1>5. T # {} /\ T \subseteq 0..n
    BY <1>1, <1>4
  <1>6. m \in T /\ \A y \in T : y <= m
    <2> HIDE DEF T, n
    <2>1. QED BY <1>1, <1>5, MaxOf
  <1>7. \A i \in 1..n : x[i] \notin Continuing => i \in T
    OBVIOUS
  <1>8. m \in 1..n /\ x[m] \notin Continuing
    BY <1>6
  <1> DEFINE e == m - 1 + Size(x[m])
  <1> HIDE DEF T, m
  <1>9. Size(x[m]) \in Nat /\ Size(x[m]) >= 1
    BY <1>3, <1>8, SizeIs
  <1>10. AtBoundary(x, e)
    BY <1>1, <1>8 DEF Whole
  <1>11. e \in Nat /\ m <= e
    BY <1>1, <1>8, <1>9
  <1> HIDE DEF e
  <1>12. e = n
    <2>1. e <= n /\ (e < n => x[e + 1] \notin Continuing)
      BY <1>10 DEF AtBoundary
    <2> HIDE DEF n
    <2>2. e < n => e + 1 \in T
      BY <1>1, <1>7, <1>11, <2>1
    <2>3. ~(e < n)
      BY <1>6, <1>8, <1>11, <1>1, <2>2
    <2>4. QED BY <1>1, <1>11, <2>1, <2>3
  <1>13. p + m \in 1..Len(hay) /\ hay[p + m] = x[m]
    BY <1>1, <1>2, <1>3, <1>8
  <1>14. AtBoundary(hay, p + m - 1 + Size(hay[p + m]))
    BY <1>1, <1>8, <1>13 DEF Whole
  <1>15. p + m - 1 + Size(hay[p + m]) = p + n
    <2> HIDE DEF n
    <2> DEFINE z == Size(x[m])
    <2>1. m - 1 + z = n /\ z \in Nat /\ Size(hay[p + m]) = z
      BY <1>9, <1>12, <1>13 DEF e
    <2> HIDE DEF z
    <2>2. QED BY <1>1, <1>8, <2>1
  <1>16. QED BY <1>14, <1>15

\* The cursor behind a keyword that keeps its width is the end of a character.
LEMMA MeetAtBoundary ==
    ASSUME NEW hay \in Utf8, NEW from \in Offsets, NEW k \in Seq(Chars),
           Meet(hay, from, k) \in Nat, Width(k) = Len(Lower(k))
    PROVE  AtBoundary(hay, Meet(hay, from, k))
  <1> DEFINE r == Meet(hay, from, k)
             w == Width(k)
  <1>1. hay \in Seq(Nat) /\ Lower(k) \in Utf8 /\ w \in Nat /\ r \in Nat
    BY TextType DEF Utf8
  <1>2. from \in Nat /\ from <= r - w /\ StandsAt(Lower(k), hay, r - w)
    BY <1>1, MeetFinds
  <1>3. CASE Lower(k) # <<>>
    <2> HIDE DEF r, w
    <2>1. r - w \in Nat /\ r - w + Len(Lower(k)) = r
      BY <1>1, <1>2 DEF w
    <2>2. AtBoundary(hay, r - w + Len(Lower(k)))
      BY <1>1, <1>2, <1>3, <2>1, WholeEndsWhole
    <2>3. QED BY <2>1, <2>2 DEF r
  <1>4. CASE Lower(k) = <<>>
    <2>1. w = 0 /\ Len(hay) \in Nat
      BY <1>1, <1>4
    <2>2. AtBoundary(hay, from) /\ MetFrom(hay, from, k) # {}
      BY <1>1, <1>2, MeetIs DEF NotMet, Panic
    <2>3. PICK i \in MetFrom(hay, from, k) :
             /\ i \in Nat /\ \A j \in MetFrom(hay, from, k) : i <= j
             /\ r = from + i + w
      BY <1>1, <1>2, <2>2, MeetIs
    <2>4. from <= Len(hay)
      BY <2>2 DEF AtBoundary
    <2>5. StandsAt(<<>>, hay, from + 0)
      <3>1. SubSeq(hay, from + 1, from) = <<>>
        BY <1>1, <1>2, <2>1, <2>4
      <3>2. QED BY <1>2, <2>4, <3>1 DEF StandsAt
    <2>6. 0 \in MetFrom(hay, from, k)
      BY <1>2, <1>4, <2>1, <2>4, <2>5 DEF MetFrom
    <2>7. i = 0 /\ r = from
      <3> HIDE DEF r, w
      <3>1. QED BY <1>2, <2>1, <2>3, <2>6
    <2>8. QED BY <2>2, <2>7
  <1>5. QED BY <1>3, <1>4

\* A run that met every keyword met each from a cursor within the string.
LEMMA RunMetAll ==
    ASSUME NEW hay \in Seq(Nat), NEW keywords \in Words, NEW a,
           IsMeetRun(a, hay, keywords), a[Len(keywords)] \in Nat
    PROVE  \A k \in 0..Len(keywords) : a[k] \in Nat
  <1> DEFINE n == Len(keywords)
             T == {k \in 0..n : a[k] \notin Nat}
  <1> SUFFICES ASSUME T # {} PROVE FALSE
    OBVIOUS
  <1>1. n \in Nat /\ a[n] \in Nat /\ \A k \in 1..n : keywords[k] \in Seq(Chars)
    BY DEF Words
  <1>2. \A k \in 1..n : a[k - 1] \in Offsets /\ a[k] = Meet(hay, a[k - 1], keywords[k])
    <2>1. \A k \in 1..n : k - 1 \in 0..n
      OBVIOUS
    <2>2. QED BY <2>1 DEF IsMeetRun
  <1>3. T \subseteq 0..n
    OBVIOUS
  <1>4. \A k \in 0..n : a[k] \notin Nat => k \in T
    OBVIOUS
  <1>5. \A k \in T : a[k] \notin Nat
    OBVIOUS
  <1> HIDE DEF n, T
  <1>6. Max(T) \in T /\ \A y \in T : y <= Max(T)
    BY <1>1, <1>3, MaxOf
  <1> DEFINE m == Max(T)
  <1> HIDE DEF m
  <1>7. m \in T /\ \A y \in T : y <= m
    BY <1>6 DEF m
  <1>8. m \in 0..n /\ m # n
    BY <1>1, <1>3, <1>5, <1>7
  <1>9. m + 1 \in 0..n /\ m + 1 \in 1..n /\ (m + 1) - 1 = m
    BY <1>1, <1>8
  <1>10. a[m + 1] \in Nat
    BY <1>4, <1>7, <1>8, <1>9
  <1>11. a[m] \in Offsets /\ a[m + 1] = Meet(hay, a[m], keywords[m + 1]) /\ keywords[m + 1] \in Seq(Chars)
    BY <1>1, <1>2, <1>9
  <1>12. a[m] \in Nat
    BY <1>10, <1>11, MeetFinds
  <1>13. QED BY <1>5, <1>7, <1>12

\* Where the keywords stood is a layout, when none is longer in lower case.
LEMMA RunIsLayout ==
    ASSUME NEW hay \in Seq(Nat), NEW keywords \in Words, NEW a,
           IsMeetRun(a, hay, keywords), a[Len(keywords)] \in Nat, Shrinks(keywords)
    PROVE  \E at : IsLayout(at, hay, keywords)
  <1> DEFINE n == Len(keywords)
             w(j) == Width(keywords[j])
             l(j) == Len(Lower(keywords[j]))
             at == [j \in 1..n |-> a[j] - w(j)]
             stands(j, p) == StandsAt(Lower(keywords[j]), hay, p)
  <1>1. n \in Nat /\ DOMAIN keywords = 1..n /\ \A j \in 1..n : keywords[j] \in Seq(Chars)
    BY DEF Words
  <1>2. \A j \in 1..n : w(j) \in Nat /\ l(j) \in Nat /\ w(j) >= l(j)
    <2>1. \A j \in 1..n : w(j) >= l(j)
      BY <1>1 DEF Shrinks
    <2>2. \A j \in 1..n : w(j) \in Nat /\ Lower(keywords[j]) \in Seq(Nat)
      BY <1>1, LowerType
    <2>3. QED BY <2>1, <2>2
  <1>3. \A j \in 0..n : a[j] \in Nat
    BY RunMetAll
  <1>4. \A j \in 1..n : j - 1 \in 0..n /\ j \in 0..n
    BY <1>1
  <1>5. ASSUME NEW j \in 1..n
        PROVE  /\ a[j - 1] <= a[j] - w(j) /\ a[j] - w(j) <= Len(hay)
               /\ stands(j, a[j] - w(j))
    <2>1. a[j] = Meet(hay, a[j - 1], keywords[j]) /\ a[j] \in Nat /\ a[j - 1] \in Nat
      BY <1>3, <1>4 DEF IsMeetRun
    <2>2. a[j - 1] \in Offsets /\ keywords[j] \in Seq(Chars)
      BY <1>1, <2>1 DEF Offsets
    <2>3. QED BY <2>1, <2>2, MeetFinds
  <1>6. Len(hay) \in Nat
    OBVIOUS
  <1>7. \A j \in 1..n : at[j] = a[j] - w(j)
    OBVIOUS
  <1>8. \A j \in 1..n : at[j] \in 0..Len(hay) /\ stands(j, at[j])
    <2> SUFFICES ASSUME NEW j \in 1..n PROVE at[j] \in 0..Len(hay) /\ stands(j, at[j])
      OBVIOUS
    <2> DEFINE p == at[j]
    <2> HIDE DEF w, l, stands, n, at
    <2>1. p = a[j] - w(j) /\ w(j) \in Nat /\ a[j] \in Nat /\ a[j - 1] \in Nat
      BY <1>2, <1>3, <1>4, <1>7
    <2>2. a[j - 1] <= p /\ p <= Len(hay) /\ stands(j, p)
      BY <1>5, <2>1
    <2> HIDE DEF p
    <2>3. p \in 0..Len(hay)
      BY <1>6, <2>1, <2>2
    <2>4. QED BY <2>2, <2>3 DEF p
  <1>9. at \in [1..n -> 0..Len(hay)]
    <2> HIDE DEF w, n
    <2>1. at = [j \in 1..n |-> at[j]]
      OBVIOUS
    <2> HIDE DEF at
    <2>2. QED BY <1>8, <2>1
  <1>10. ASSUME NEW j \in (1..n) \ {1} PROVE at[j - 1] + l(j - 1) <= at[j]
    <2> HIDE DEF w, l, stands, n, at
    <2>1. j \in 1..n /\ j - 1 \in 1..n
      BY <1>1
    <2>2. at[j - 1] = a[j - 1] - w(j - 1) /\ w(j - 1) >= l(j - 1)
          /\ w(j - 1) \in Nat /\ l(j - 1) \in Nat /\ a[j - 1] \in Nat
      BY <1>2, <1>3, <1>4, <1>7, <2>1
    <2>3. a[j - 1] <= at[j] /\ at[j] \in Nat
      BY <1>5, <1>7, <1>8, <2>1
    <2>4. QED BY <2>2, <2>3
  <1>11. IsLayout(at, hay, keywords)
    BY <1>1, <1>8, <1>9, <1>10 DEF IsLayout
  <1>12. QED BY <1>11

\* Whatever the layout, the search has met each keyword where it stands there or
\* before, when all keep their width.
LEMMA RunBeforeLayout ==
    ASSUME NEW hay \in Utf8, NEW keywords \in Words, NEW a, IsMeetRun(a, hay, keywords),
           KeepsWidth(keywords), NEW at, IsLayout(at, hay, keywords)
    PROVE  a[Len(keywords)] \in Nat
  <1> DEFINE n == Len(keywords)
             w(j) == Width(keywords[j])
             h == Len(hay)
             T == {k \in 0..n : ~(/\ a[k] \in Nat /\ AtBoundary(hay, a[k])
                                  /\ k # 0 => a[k] <= at[k] + w(k))}
  <1> SUFFICES ASSUME T # {} PROVE FALSE
    BY LenProperties DEF Words
  <1>1. n \in Nat /\ h \in Nat /\ DOMAIN keywords = 1..n
        /\ \A j \in 1..n : keywords[j] \in Seq(Chars) /\ w(j) \in Nat
    <2>1. n \in Nat /\ DOMAIN keywords = 1..n /\ \A j \in 1..n : keywords[j] \in Seq(Chars)
      BY DEF Words
    <2>2. h \in Nat
      BY DEF Utf8
    <2>3. QED BY <2>1, <2>2, LowerType
  <1>2. \A j \in 1..n : at[j] \in 0..h /\ StandsAt(Lower(keywords[j]), hay, at[j])
    BY <1>1 DEF IsLayout
  <1>3. \A j \in (1..n) \ {1} : at[j - 1] + w(j - 1) <= at[j]
    <2>1. \A j \in (1..n) \ {1} : at[j - 1] + Len(Lower(keywords[j - 1])) <= at[j]
      BY <1>1 DEF IsLayout
    <2>2. \A j \in 1..n : w(j) = Len(Lower(keywords[j]))
      BY <1>1 DEF KeepsWidth
    <2>3. \A j \in (1..n) \ {1} : j - 1 \in 1..n
      BY <1>1
    <2>4. QED BY <2>1, <2>2, <2>3
  <1>4. a[0] = 0 /\ \A k \in 1..n : a[k] = Meet(hay, a[k - 1], keywords[k])
    BY DEF IsMeetRun
  <1>5. T \subseteq Nat /\ T \subseteq 0..n
    OBVIOUS
  <1>6. \A k \in 0..n : k \in T <=> ~(/\ a[k] \in Nat /\ AtBoundary(hay, a[k])
                                      /\ k # 0 => a[k] <= at[k] + w(k))
    OBVIOUS
  <1>7. \A k \in 1..n : a[k - 1] \in Nat /\ AtBoundary(hay, a[k - 1]) /\ a[k - 1] <= at[k] =>
           a[k] \in Nat /\ AtBoundary(hay, a[k]) /\ a[k] <= at[k] + w(k)
    <2> SUFFICES ASSUME NEW k \in 1..n, a[k - 1] \in Nat, AtBoundary(hay, a[k - 1]),
                        a[k - 1] <= at[k]
                 PROVE  a[k] \in Nat /\ AtBoundary(hay, a[k]) /\ a[k] <= at[k] + w(k)
      OBVIOUS
    <2>1. /\ keywords[k] \in Seq(Chars) /\ at[k] \in 0..Len(hay)
          /\ StandsAt(Lower(keywords[k]), hay, at[k]) /\ a[k] = Meet(hay, a[k - 1], keywords[k])
      BY <1>1, <1>2, <1>4
    <2>2. a[k] \in Nat /\ a[k] <= at[k] + w(k)
      BY <2>1, MeetMissesNone DEF Utf8
    <2>3. Width(keywords[k]) = Len(Lower(keywords[k])) /\ a[k - 1] \in Offsets
      BY <1>1 DEF KeepsWidth, Offsets
    <2>4. QED BY <2>1, <2>2, <2>3, MeetAtBoundary
  <1> DEFINE m == Min(T)
  <1>8. m \in T /\ \A y \in T : m <= y
    BY <1>5, MinOf
  <1> HIDE DEF n, w, h, T, m
  <1>9. m \in 0..n /\ m # 0
    <2>1. AtBoundary(hay, 0)
      BY DEF Utf8, Whole
    <2>2. QED BY <1>1, <1>4, <1>5, <1>6, <1>8, <2>1
  <1>10. m \in 1..n /\ m - 1 \in 0..n /\ m - 1 \notin T
    BY <1>1, <1>8, <1>9
  <1>11. a[m - 1] \in Nat /\ AtBoundary(hay, a[m - 1]) /\ (m - 1 # 0 => a[m - 1] <= at[m - 1] + w(m - 1))
    BY <1>6, <1>10
  <1>12. a[m - 1] <= at[m]
    <2>1. CASE m = 1
      BY <1>2, <1>4, <1>10, <2>1
    <2>2. CASE m # 1
      <3>1. m - 1 # 0 /\ m \in (1..n) \ {1} /\ m - 1 \in 1..n
        BY <1>1, <1>10, <2>2
      <3>2. a[m - 1] <= at[m - 1] + w(m - 1) /\ at[m - 1] + w(m - 1) <= at[m]
        BY <1>3, <1>11, <3>1
      <3>3. at[m - 1] \in Nat /\ at[m] \in Nat /\ w(m - 1) \in Nat
        BY <1>1, <1>2, <1>10, <3>1
      <3>4. QED BY <1>11, <3>2, <3>3
    <2>3. QED BY <2>1, <2>2
  <1>13. QED BY <1>6, <1>7, <1>8, <1>9, <1>10, <1>11, <1>12

\* A search for keywords that keep their width never goes past the end or stops
\* inside a character.
LEMMA RunInBounds ==
    ASSUME NEW hay \in Utf8, NEW keywords \in Words, NEW a,
           IsMeetRun(a, hay, keywords), KeepsWidth(keywords)
    PROVE  a[Len(keywords)] # Panic
  <1> DEFINE n == Len(keywords)
             good(k) == a[k] # Panic /\ (a[k] \in Nat => AtBoundary(hay, a[k]))
             T == {k \in 0..n : ~good(k)}
  <1> SUFFICES ASSUME T # {} PROVE FALSE
    BY LenProperties DEF Words
  <1>1. n \in Nat /\ DOMAIN keywords = 1..n /\ \A j \in 1..n : keywords[j] \in Seq(Chars)
    BY DEF Words
  <1>2. a[0] = 0 /\ \A k \in 1..n : /\ a[k] = Meet(hay, a[k - 1], keywords[k])
                                   /\ a[k - 1] \in Offsets
    <2>1. \A k \in 1..n : k - 1 \in 0..n
      BY <1>1
    <2>2. QED BY <2>1 DEF IsMeetRun
  <1>3. T \subseteq Nat /\ T \subseteq 0..n
    OBVIOUS
  <1>4. \A k \in 0..n : k \in T <=> ~good(k)
    OBVIOUS
  <1>5. ASSUME NEW k \in 1..n, good(k - 1) PROVE good(k)
    <2> DEFINE from == a[k - 1]
               word == keywords[k]
    <2>1. /\ a[k] = Meet(hay, from, word) /\ from \in Offsets /\ word \in Seq(Chars)
          /\ Width(word) = Len(Lower(word)) /\ hay \in Seq(Nat)
      BY <1>1, <1>2 DEF KeepsWidth, Utf8
    <2>2. NotMet # Panic /\ Panic \notin Nat /\ Width(word) \in Nat
      BY <2>1, LowerType DEF NotMet, Panic
    <2>3. from # Panic /\ (from \in Nat => AtBoundary(hay, from))
      BY <1>5
    <2> HIDE DEF from, word
    <2>4. a[k] # Panic
      <3>1. CASE from \notin Nat
        BY <2>1, <2>3, <3>1, MeetIs
      <3>2. CASE from \in Nat /\ MetFrom(hay, from, word) = {}
        BY <2>1, <2>2, <2>3, <3>2, MeetIs
      <3>3. CASE from \in Nat /\ MetFrom(hay, from, word) # {}
        <4>1. \E i \in MetFrom(hay, from, word) : i \in Nat /\ a[k] = from + i + Width(word)
          BY <2>1, <2>3, <3>3, MeetIs
        <4>2. a[k] \in Nat
          BY <2>2, <3>3, <4>1
        <4>3. QED BY <2>2, <4>2
      <3>4. QED BY <3>1, <3>2, <3>3
    <2>5. a[k] \in Nat => AtBoundary(hay, a[k])
      BY <2>1, MeetAtBoundary
    <2>6. QED BY <2>4, <2>5
  <1>6. good(0)
    BY <1>2 DEF Utf8, Whole, Panic
  <1> DEFINE m == Min(T)
  <1>7. m \in T /\ \A y \in T : m <= y
    BY <1>3, MinOf
  <1> HIDE DEF n, T, m, good
  <1>8. m \in 0..n /\ m # 0
    BY <1>1, <1>3, <1>4, <1>6, <1>7
  <1>9. m \in 1..n /\ m - 1 \in 0..n /\ m - 1 \notin T
    BY <1>1, <1>7, <1>8
  <1>10. good(m)
    BY <1>4, <1>5, <1>9
  <1>11. QED BY <1>4, <1>7, <1>8, <1>10

\* For every path and all keywords: matches_all finds keywords that keep their
\* width in lower case exactly when they can be laid out, the last in the file
\* name; whatever shorter lower cases it passes, a match it reports is one.
THEOREM MatchesAllInOrder ==
    ASSUME NEW dir \in Words, NEW keywords \in Words
    PROVE  /\ KeepsWidth(keywords) =>
                 MatchesAll(dir, keywords) =
                    IF LaidOut(dir, keywords) /\ LastInName(dir, keywords) THEN "yes" ELSE "no"
           /\ Shrinks(keywords) /\ MatchesAll(dir, keywords) = "yes" =>
                 LaidOut(dir, keywords) /\ LastInName(dir, keywords)
  <1> DEFINE hay == Hay(dir)
             end == EndOf(hay, keywords)
             n == Len(keywords)
             found == \E at : IsLayout(at, hay, keywords)
             last == LastInName(dir, keywords)
             r == MatchesAll(dir, keywords)
  <1>1. hay \in Utf8 /\ hay \in Seq(Nat)
    BY HayType DEF Words, Utf8
  <1>2. r = IF end = Panic THEN "panic" ELSE IF end # NotMet /\ last THEN "yes" ELSE "no"
    BY DEF MatchesAll, EndOf
  <1>3. LaidOut(dir, keywords) <=> found
    BY LaidOutIs
  <1>4. last \in BOOLEAN
    BY DEF LastInName
  <1> HIDE DEF hay
  <1>5. PICK a : IsMeetRun(a, hay, keywords) /\ end = a[n]
    BY <1>1, MeetRun
  <1>6. end \in Offsets
    BY <1>5, LenProperties DEF IsMeetRun, Words
  <1>7. Shrinks(keywords) /\ end \in Nat => found
    BY <1>1, <1>5, RunIsLayout
  <1>8. KeepsWidth(keywords) /\ found => end \in Nat
    BY <1>1, <1>5, RunBeforeLayout
  <1>9. KeepsWidth(keywords) => end # Panic
    BY <1>1, <1>5, RunInBounds
  <1>10. KeepsWidth(keywords) => Shrinks(keywords)
    BY LowerType DEF KeepsWidth, Shrinks, Words
  <1>11. NotMet \notin Nat /\ Panic \notin Nat /\ NotMet # Panic
    BY DEF NotMet, Panic
  <1>12. end # Panic /\ end # NotMet <=> end \in Nat
    BY <1>6, <1>11 DEF Offsets
  <1> HIDE DEF end, found, last, r, n
  <1>13. Shrinks(keywords) /\ r = "yes" => found /\ last
    BY <1>2, <1>7, <1>12
  <1>14. KeepsWidth(keywords) => r = IF found /\ last THEN "yes" ELSE "no"
    BY <1>2, <1>4, <1>7, <1>8, <1>9, <1>10, <1>12
  <1>15. QED BY <1>3, <1>13, <1>14 DEF r, last

LEMMA KeywordsAnswered ==
    ASSUME Faithful, Answered("keywords")
    PROVE  /\ asked.q \in KeywordsAsked
           /\ answer.a = MatchesAll(asked.q.path, asked.q.keywords)
  BY DEF Faithful, Answered, Remembers, Silent

LEMMA WordsAsked ==
    ASSUME NEW q \in KeywordsAsked
    PROVE  q.path \in Words /\ q.keywords \in Words
  <1> DEFINE others == Letters \cup {Stroke}
             all == Letters \cup {Kelvin, Stroke}
             names == Strings(others, 1, 2)
             words == Strings(all, 1, 2)
  <1>1. others \subseteq Chars /\ all \subseteq Chars
    <2>1. /\ <<107>> \in Seq(Nat) /\ <<195, 169>> \in Seq(Nat)
          /\ <<226, 177, 165>> \in Seq(Nat)
      OBVIOUS
    <2>2. Whole(<<107>>)
      BY DEF Whole, AtBoundary, Continuing, Size
    <2>3. Whole(<<195, 169>>)
      BY DEF Whole, AtBoundary, Continuing, Size
    <2>4. Whole(<<226, 177, 165>>)
      BY DEF Whole, AtBoundary, Continuing, Size
    <2>5. <<107>> \in Utf8 /\ <<195, 169>> \in Utf8 /\ <<226, 177, 165>> \in Utf8
      BY <2>1, <2>2, <2>3, <2>4 DEF Utf8
    <2>6. QED BY <2>5 DEF Letters, Letter, Accent, Kelvin, Stroke, Chars
  <1>2. q.path \in Strings(names, 0, 2) /\ q.keywords \in Strings(words, 0, 2)
    BY DEF KeywordsAsked
  <1>3. names \subseteq Seq(Chars)
    <2> HIDE DEF others
    <2>1. QED BY <1>1, StringsOf
  <1>4. words \subseteq Seq(Chars)
    <2> HIDE DEF all
    <2>1. QED BY <1>1, StringsOf
  <1> HIDE DEF names, words, all, others
  <1>5. QED BY <1>2, <1>3, <1>4, StringsOf DEF Words

\* The keywords of the zoxide-compatible query are met in order.
THEOREM QueryInOrder == QuestionsSpec => []KeywordsInOrder
  <1>1. ASSUME Faithful, Answered("keywords") PROVE KeywordsInOrder
    <2>1. answer.a = MatchesAll(asked.q.path, asked.q.keywords)
          /\ asked.q.path \in Words /\ asked.q.keywords \in Words
      BY <1>1, KeywordsAnswered, WordsAsked
    <2> DEFINE dir == asked.q.path
               keywords == asked.q.keywords
               r == answer.a
    <2>2. r = MatchesAll(dir, keywords) /\ dir \in Words /\ keywords \in Words
      BY <2>1
    <2> HIDE DEF dir, keywords, r
    <2>3. /\ KeepsWidth(keywords) =>
                r = IF LaidOut(dir, keywords) /\ LastInName(dir, keywords) THEN "yes" ELSE "no"
          /\ Shrinks(keywords) /\ r = "yes" => LaidOut(dir, keywords) /\ LastInName(dir, keywords)
      BY <2>2, MatchesAllInOrder
    <2>4. QED BY <2>3 DEF KeywordsInOrder, dir, keywords, r
  <1>2. Faithful => KeywordsInOrder
    BY <1>1 DEF KeywordsInOrder
  <1>3. QED BY <1>2, AnswersFaithful, PTL
-----------------------------------------------------------------------------
(* The bytes of db.zo: parse takes exactly what encode writes.                *)

Bytestrings == Seq(Nat)

ByteRows == [path : Bytestrings, rank : Nat, last_accessed : Nat]

\* One more row in the file.
RowWith(bytes, d) == bytes \o <<Len(d.path)>> \o d.path \o <<d.rank, d.last_accessed>>

\* The row d stands in buf after `at` bytes.
RowAt(buf, at, d) ==
    LET l == Len(d.path)
    IN  /\ buf[at + 1] = l
        /\ \A i \in 1..l : buf[at + 1 + i] = d.path[i]
        /\ buf[at + l + 2] = d.rank
        /\ buf[at + l + 3] = d.last_accessed

\* The first n bytes of two files are the same.
Same(s, t, n) == \A i \in 1..n : s[i] = t[i]

\* s followed by t.
Joined(u, s, t) ==
    /\ u \in Seq(Nat) /\ Len(u) = Len(s) + Len(t)
    /\ \A i \in 1..Len(s) : u[i] = s[i]
    /\ \A i \in 1..Len(t) : u[Len(s) + i] = t[i]

LEMMA JoinBytes ==
    ASSUME NEW s \in Seq(Nat), NEW t \in Seq(Nat)
    PROVE  Joined(s \o t, s, t)
  <1> DEFINE u == s \o t
             m == Len(s)
             n == Len(t)
  <1>1. m \in Nat /\ n \in Nat /\ u \in Seq(Nat) /\ Len(u) = m + n
    OBVIOUS
  <1>2. \A i \in 1..Len(u) : u[i] = IF i <= m THEN s[i] ELSE t[i - m]
    OBVIOUS
  <1> HIDE DEF u, m, n
  <1>3. \A i \in 1..m : u[i] = s[i]
    BY <1>1, <1>2
  <1>4. ASSUME NEW i \in 1..n PROVE u[m + i] = t[i]
    <2>1. m + i \in 1..(m + n) /\ ~(m + i <= m) /\ (m + i) - m = i
      BY <1>1
    <2>2. QED BY <1>1, <1>2, <2>1
  <1>5. QED BY <1>1, <1>3, <1>4 DEF Joined, u, m, n

LEMMA RowBytes ==
    ASSUME NEW bytes \in Bytestrings, NEW d \in ByteRows
    PROVE  /\ RowWith(bytes, d) \in Bytestrings
           /\ Len(RowWith(bytes, d)) = Len(bytes) + Len(d.path) + 3
           /\ Same(RowWith(bytes, d), bytes, Len(bytes))
           /\ RowAt(RowWith(bytes, d), Len(bytes), d)
  <1> DEFINE p == d.path
             n == Len(bytes)
             l == Len(p)
             one == <<l>>
             two == <<d.rank, d.last_accessed>>
             x == bytes \o one
             y == x \o p
             z == y \o two
  <1>1. /\ bytes \in Seq(Nat) /\ p \in Seq(Nat) /\ d.rank \in Nat /\ d.last_accessed \in Nat
        /\ n \in Nat /\ l \in Nat
    <2>1. bytes \in Seq(Nat) /\ p \in Seq(Nat) /\ d.rank \in Nat /\ d.last_accessed \in Nat
      BY DEF ByteRows, Bytestrings
    <2> HIDE DEF p
    <2>2. QED BY <2>1
  <1> HIDE DEF p, n, l
  <1>2. one \in Seq(Nat) /\ Len(one) = 1 /\ one[1] = l
    BY <1>1
  <1>3. two \in Seq(Nat) /\ Len(two) = 2 /\ two[1] = d.rank /\ two[2] = d.last_accessed
    BY <1>1
  <1> HIDE DEF one, two
  <1>4. /\ x \in Seq(Nat) /\ Len(x) = n + 1 /\ x[n + 1] = one[1]
        /\ \A i \in 1..n : x[i] = bytes[i]
    <2>1. Joined(x, bytes, one)
      BY <1>1, <1>2, JoinBytes
    <2> HIDE DEF x
    <2>2. QED BY <1>1, <1>2, <2>1 DEF Joined, n
  <1>5. /\ y \in Seq(Nat) /\ Len(y) = n + 1 + l
        /\ \A i \in 1..(n + 1) : y[i] = x[i]
        /\ \A i \in 1..l : y[n + 1 + i] = p[i]
    <2> HIDE DEF x
    <2>1. Joined(y, x, p)
      BY <1>1, <1>4, JoinBytes
    <2> HIDE DEF y
    <2>2. QED BY <1>1, <1>4, <2>1 DEF Joined, l
  <1>6. /\ z \in Seq(Nat) /\ Len(z) = n + l + 3
        /\ \A i \in 1..(n + l + 1) : z[i] = y[i]
        /\ z[n + l + 2] = two[1] /\ z[n + l + 3] = two[2]
    <2> HIDE DEF y
    <2>1. Joined(z, y, two)
      BY <1>3, <1>5, JoinBytes
    <2> HIDE DEF z
    <2>2. Len(y) = n + l + 1 /\ 1 \in 1..2 /\ 2 \in 1..2
          /\ (n + l + 1) + 1 = n + l + 2 /\ (n + l + 1) + 2 = n + l + 3
      BY <1>1, <1>5
    <2>3. /\ z \in Seq(Nat) /\ Len(z) = (n + l + 1) + 2
          /\ \A i \in 1..(n + l + 1) : z[i] = y[i]
          /\ \A i \in 1..2 : z[(n + l + 1) + i] = two[i]
      BY <1>3, <2>1, <2>2 DEF Joined
    <2>4. QED BY <1>1, <2>2, <2>3
  <1> HIDE DEF x, y
  <1>7. z = RowWith(bytes, d)
    BY DEF RowWith, z, y, x, one, two, l, p
  <1> HIDE DEF z
  <1>8. \A i \in 1..n : z[i] = bytes[i]
    <2>1. \A i \in 1..n : i \in 1..(n + 1) /\ i \in 1..(n + l + 1)
      BY <1>1
    <2>2. QED BY <1>4, <1>5, <1>6, <2>1
  <1>9. z[n + 1] = l
    <2>1. n + 1 \in 1..(n + 1) /\ n + 1 \in 1..(n + l + 1)
      BY <1>1
    <2>2. QED BY <1>2, <1>4, <1>5, <1>6, <2>1
  <1>10. \A i \in 1..l : z[n + 1 + i] = p[i]
    <2>1. \A i \in 1..l : n + 1 + i \in 1..(n + l + 1)
      BY <1>1
    <2>2. QED BY <1>5, <1>6, <2>1
  <1>11. RowAt(z, n, d)
    BY <1>3, <1>6, <1>9, <1>10 DEF RowAt, l, p
  <1>12. QED BY <1>6, <1>7, <1>8, <1>11 DEF Same, Bytestrings, n, l, p

LEMMA RowWithType ==
    ASSUME NEW bytes \in Bytestrings, NEW d \in ByteRows
    PROVE  RowWith(bytes, d) \in Bytestrings
  BY RowBytes

\* The header.
Header(n) == <<SupportedVersion, n>>

LEMMA HeaderIs ==
    ASSUME NEW n \in Nat
    PROVE  /\ Header(n) \in Bytestrings /\ Len(Header(n)) = 2
           /\ Header(n)[1] = SupportedVersion /\ Header(n)[2] = n
  BY DEF Header, Bytestrings, SupportedVersion

\* The file, row by row.
IsEncodeRun(a, rows) ==
    /\ a \in [0..Len(rows) -> Bytestrings] /\ a[0] = Header(Len(rows))
    /\ \A k \in 1..Len(rows) : a[k] = RowWith(a[k - 1], rows[k])

EncodeStep(rows) == [p \in (1..Len(rows)) \X Bytestrings |-> RowWith(p[2], rows[p[1]])]

LEMMA EncodeRun ==
    ASSUME NEW rows \in Seq(ByteRows)
    PROVE  \E a : IsEncodeRun(a, rows) /\ Encode(rows) = a[Len(rows)]
  <1> DEFINE n == Len(rows)
             V == Bytestrings
             base == Header(Len(rows))
             G == EncodeStep(rows)
             body(h) == [t \in SUBSET (DOMAIN rows) |->
                            IF t = {} THEN Header(Len(rows))
                            ELSE RowWith(h[t \ {Max(t)}], rows[Max(t)])]
             iter == CHOOSE h : h = body(h)
  <1>1. n \in Nat /\ DOMAIN rows = 1..n /\ \A k \in 1..n : rows[k] \in ByteRows
    OBVIOUS
  <1>2. Encode(rows) = iter[DOMAIN rows]
    BY DEF Encode, RowWith, Header, FoldLeft, MapThenFoldSet
  <1>3. G \in [(1..n) \X V -> V] /\ base \in V
    <2>1. \A p \in (1..n) \X V : RowWith(p[2], rows[p[1]]) \in V
      BY <1>1, RowWithType
    <2>2. G \in [(1..n) \X V -> V]
      BY <2>1 DEF EncodeStep
    <2>3. base \in V
      BY <1>1, HeaderIs
    <2>4. QED BY <2>2, <2>3
  <1>4. \A k \in 1..n, c \in V : G[<<k, c>>] = RowWith(c, rows[k])
    BY DEF EncodeStep
  <1>5. PICK h : IsFold(h, n, V, base, G)
    <2> HIDE DEF n, V, base, G
    <2>1. QED BY <1>1, <1>3, FoldExists
  <1>6. h = body(h)
    <2>1. ASSUME NEW t \in SUBSET (1..n), t # {}
          PROVE  h[t] = RowWith(h[t \ {Max(t)}], rows[Max(t)])
      <3> HIDE DEF n, V, base, G
      <3>1. FoldsDown(h, n, V, G)
        BY <1>1, <1>5, FoldStep
      <3>2. /\ Max(t) \in 1..n /\ h[t \ {Max(t)}] \in V
            /\ h[t] = G[<<Max(t), h[t \ {Max(t)}]>>]
        BY <2>1, <3>1 DEF FoldsDown
      <3>3. QED BY <1>4, <3>2
    <2>2. h[{}] = base /\ h = [t \in SUBSET (1..n) |-> h[t]]
      BY <1>5 DEF IsFold
    <2>3. QED BY <1>1, <2>1, <2>2
  <1>7. iter = body(iter)
    BY <1>6
  <1> HIDE DEF iter
  <1>8. iter[{}] = base
    BY <1>7
  <1>9. ASSUME NEW k \in 1..n, iter[1..(k - 1)] \in V
        PROVE  iter[1..k] = G[<<k, iter[1..(k - 1)]>>]
    <2>1. Max(1..k) = k /\ (1..k) \ {k} = 1..(k - 1) /\ 1..k # {} /\ 1..k \in SUBSET DOMAIN rows
      BY <1>1, MaxOfInterval
    <2>2. iter[1..k] = RowWith(iter[(1..k) \ {Max(1..k)}], rows[Max(1..k)])
      BY <1>7, <2>1
    <2>3. QED BY <1>4, <1>9, <2>1, <2>2
  <1>10. RunsBy(iter, n, V, base, G)
    <2> HIDE DEF n, V, base, G
    <2>1. QED BY <1>3, <1>8, <1>9 DEF RunsBy
  <1> HIDE DEF n, V, base, G
  <1>11. PICK a : IsRun(a, n, V, base, G) /\ iter[1..n] = a[n]
    BY <1>1, <1>10, RunAlong
  <1>12. /\ a \in [0..n -> V] /\ a[0] = base
         /\ \A k \in 1..n : a[k] = G[<<k, a[k - 1]>>]
    BY <1>11 DEF IsRun
  <1>13. \A k \in 1..n : k - 1 \in 0..n /\ a[k - 1] \in V
    BY <1>1, <1>12
  <1>14. \A k \in 1..n : a[k] = RowWith(a[k - 1], rows[k])
    BY <1>4, <1>12, <1>13
  <1>15. IsEncodeRun(a, rows)
    BY <1>12, <1>14 DEF IsEncodeRun, n, V, base
  <1>16. QED BY <1>1, <1>2, <1>11, <1>15 DEF n

Errors == {"none", "Truncated", "NotUtf8", "Version", "Trailing"}

FileCursors == [at : Nat, rows : Seq(ByteRows), error : Errors]

LEMMA Stopped ==
    ASSUME NEW c \in FileCursors, NEW e \in Errors
    PROVE  Stop(c, e) \in FileCursors /\ Stop(c, e).error = e
  BY DEF Stop, FileCursors

\* What is left of ReadRow when it reads on: the row, and the room for it.
IsRead(buf, c, r, d) ==
    /\ d \in ByteRows /\ RowAt(buf, c.at, d)
    /\ c.at + Len(d.path) + 3 <= Len(buf)
    /\ r.at = c.at + Len(d.path) + 3
    /\ r.rows = Append(c.rows, d)
    /\ r.error = "none"

\* The bytes of s from the i-th to the j-th.
Piece(u, s, i, j) ==
    /\ u \in Seq(Nat) /\ Len(u) = j - i + 1
    /\ \A k \in 1..(j - i + 1) : u[k] = s[i + k - 1]

LEMMA PieceOf ==
    ASSUME NEW s \in Seq(Nat), NEW i \in Nat, NEW j \in Nat, i <= j + 1,
           \A k \in i..j : k \in 1..Len(s)
    PROVE  Piece(SubSeq(s, i, j), s, i, j)
  <1> DEFINE u == SubSeq(s, i, j)
             m == j - i + 1
  <1>1. m \in Nat
    OBVIOUS
  <1>2. Len(u) = m /\ u = [k \in 1..m |-> s[i + k - 1]]
    BY <1>1
  <1>3. \A k \in 1..m : s[i + k - 1] \in Nat
    <2>1. \A k \in 1..m : i + k - 1 \in i..j
      BY <1>1
    <2>2. QED BY <2>1
  <1> HIDE DEF u, m
  <1>4. \A k \in 1..m : u[k] = s[i + k - 1]
    BY <1>2
  <1>5. u \in Seq(Nat)
    BY <1>1, <1>2, <1>3
  <1>6. QED BY <1>2, <1>4, <1>5 DEF Piece, u, m

LEMMA ReadRowIs ==
    ASSUME NEW buf \in Bytestrings, NEW c \in FileCursors
    PROVE  /\ ReadRow(buf, c) \in FileCursors
           /\ c.error # "none" => ReadRow(buf, c) = c
           /\ ReadRow(buf, c).error = "none" => \E d : IsRead(buf, c, ReadRow(buf, c), d)
  <1> DEFINE at == c.at
             len == buf[at + 1]
             p == SubSeq(buf, at + 2, at + 1 + len)
             end == at + 1 + len
             d == [path |-> p, rank |-> buf[end + 1], last_accessed |-> buf[end + 2]]
             after == [at |-> end + 2, error |-> "none", rows |-> Append(c.rows, d)]
             r == ReadRow(buf, c)
             room == Fits(buf, at, 1) /\ Fits(buf, at + 1, len) /\ Fits(buf, end, 1) /\ Fits(buf, end + 1, 1)
  <1>1. \/ c.error # "none" /\ r = c
        \/ c.error = "none" /\ r = Stop(c, "Truncated")
        \/ c.error = "none" /\ r = Stop(c, "NotUtf8")
        \/ c.error = "none" /\ r = after /\ room
    BY Zenon DEF ReadRow
  <1> DEFINE n == Len(buf)
  <1>2. at \in Nat /\ c.rows \in Seq(ByteRows) /\ buf \in Seq(Nat) /\ n \in Nat
        /\ \A i \in 1..n : buf[i] \in Nat
    BY DEF FileCursors, Bytestrings
  <1>3. CASE c.error # "none" /\ r = c
    BY <1>3
  <1>4. CASE c.error = "none" /\ r = Stop(c, "Truncated")
    <2>1. Stop(c, "Truncated") \in FileCursors /\ Stop(c, "Truncated").error = "Truncated"
      BY Stopped DEF Errors
    <2>2. QED BY <1>4, <2>1
  <1>5. CASE c.error = "none" /\ r = Stop(c, "NotUtf8")
    <2>1. Stop(c, "NotUtf8") \in FileCursors /\ Stop(c, "NotUtf8").error = "NotUtf8"
      BY Stopped DEF Errors
    <2>2. QED BY <1>5, <2>1
  <1>6. CASE c.error = "none" /\ r = after /\ room
    <2>1. at + 1 <= n /\ (at + 1) + len <= n /\ end + 1 <= n /\ (end + 1) + 1 <= n
      BY <1>6 DEF Fits
    <2> HIDE DEF n, at
    <2>2. len \in Nat /\ end \in Nat /\ end = at + len + 1 /\ end + 2 <= n
      <3>1. at + 1 \in 1..n
        BY <1>2, <2>1
      <3>2. len \in Nat
        BY <1>2, <3>1
      <3> HIDE DEF len
      <3>3. QED BY <1>2, <2>1, <3>2
    <2> HIDE DEF len, end
    <2>3. /\ p \in Seq(Nat) /\ Len(p) = len
          /\ \A i \in 1..len : p[i] = buf[at + 1 + i]
      <3>1. p = SubSeq(buf, at + 2, end)
        BY DEF end
      <3> HIDE DEF p
      <3>2. at + 2 \in Nat /\ end \in Nat /\ end - (at + 2) + 1 = len /\ at + 2 <= end + 1
        BY <1>2, <2>2
      <3>3. \A i \in (at + 2)..end : i \in 1..n
        BY <1>2, <2>2
      <3>4. Piece(p, buf, at + 2, end)
        BY <1>2, <3>1, <3>2, <3>3, PieceOf DEF n
      <3>5. Len(p) = len /\ p \in Seq(Nat) /\ \A i \in 1..len : p[i] = buf[at + 2 + i - 1]
        BY <3>2, <3>4 DEF Piece
      <3>6. \A i \in 1..len : at + 2 + i - 1 = at + 1 + i
        BY <1>2, <2>2
      <3>7. QED BY <3>5, <3>6
    <2> HIDE DEF p
    <2>4. buf[end + 1] \in Nat /\ buf[end + 2] \in Nat
      <3>1. end + 1 \in 1..n /\ end + 2 \in 1..n
        BY <1>2, <2>2
      <3>2. QED BY <1>2, <3>1
    <2>5. d \in ByteRows /\ d.path = p /\ d.rank = buf[end + 1] /\ d.last_accessed = buf[end + 2]
      BY <2>3, <2>4 DEF ByteRows, Bytestrings
    <2> HIDE DEF d
    <2>6. after \in FileCursors /\ after.at = end + 2 /\ after.rows = Append(c.rows, d) /\ after.error = "none"
      <3>1. end + 2 \in Nat
        BY <2>2
      <3>2. Append(c.rows, d) \in Seq(ByteRows)
        BY <1>2, <2>5
      <3>3. QED BY <3>1, <3>2 DEF FileCursors, Errors
    <2> HIDE DEF after
    <2>7. end + 1 = at + len + 2 /\ end + 2 = at + len + 3
      BY <1>2, <2>2
    <2>8. RowAt(buf, at, d)
      <3>1. buf[at + 1] = len
        BY DEF len
      <3>2. QED BY <2>3, <2>5, <2>7, <3>1 DEF RowAt
    <2>9. at + Len(d.path) + 3 = end + 2 /\ end + 2 <= Len(buf)
      BY <1>2, <2>2, <2>3, <2>5, <2>7 DEF n
    <2>10. IsRead(buf, c, after, d)
      BY <2>5, <2>6, <2>8, <2>9 DEF IsRead, at
    <2>11. QED BY <1>6, <2>6, <2>10
  <1>7. QED BY <1>1, <1>3, <1>4, <1>5, <1>6

\* A row that is there, of text and within what the machine can address, is read.
LEMMA ReadRowOf ==
    ASSUME NEW buf \in Bytestrings, NEW c \in FileCursors, NEW d \in ByteRows,
           c.error = "none", RowAt(buf, c.at, d), c.at + Len(d.path) + 3 <= Len(buf),
           Len(buf) <= UsizeMax, NotText \notin ToSet(d.path)
    PROVE  IsRead(buf, c, ReadRow(buf, c), d)
  <1> DEFINE at == c.at
             n == Len(buf)
             len == buf[at + 1]
             p == SubSeq(buf, at + 2, at + 1 + len)
             end == at + 1 + len
             e == [path |-> p, rank |-> buf[end + 1], last_accessed |-> buf[end + 2]]
             after == [at |-> end + 2, error |-> "none", rows |-> Append(c.rows, e)]
             r == ReadRow(buf, c)
  <1>1. Fits(buf, at, 1) /\ Fits(buf, at + 1, len) /\ NotText \notin ToSet(p)
        /\ Fits(buf, end, 1) /\ Fits(buf, end + 1, 1) => r = after
    BY Zenon DEF ReadRow
  <1>2. /\ at \in Nat /\ n \in Nat /\ UsizeMax \in Nat /\ n <= UsizeMax /\ buf \in Seq(Nat)
        /\ d.path \in Seq(Nat) /\ Len(d.path) \in Nat /\ at + Len(d.path) + 3 <= n
        /\ d = [path |-> d.path, rank |-> d.rank, last_accessed |-> d.last_accessed]
    <2>1. d.path \in Seq(Nat) /\ d = [path |-> d.path, rank |-> d.rank, last_accessed |-> d.last_accessed]
      BY DEF ByteRows, Bytestrings
    <2>2. Len(d.path) \in Nat
      BY <2>1
    <2>3. QED BY <2>1, <2>2, FormatAssumption DEF FileCursors, Bytestrings
  <1> DEFINE l == Len(d.path)
  <1>3. /\ len = l /\ \A i \in 1..l : buf[at + 1 + i] = d.path[i]
        /\ buf[at + l + 2] = d.rank /\ buf[at + l + 3] = d.last_accessed
    BY DEF RowAt
  <1> HIDE DEF at, n, len, l
  <1>4. at + l + 3 <= n /\ l \in Nat /\ at \in Nat /\ n \in Nat /\ UsizeMax \in Nat /\ n <= UsizeMax
    BY <1>2 DEF l
  <1>5. end = at + l + 1 /\ end + 1 = at + l + 2 /\ end + 2 = at + l + 3 /\ end \in Nat
    <2>1. len = l
      BY <1>3
    <2>2. QED BY <1>4, <2>1
  <1>6. Fits(buf, at, 1) /\ Fits(buf, at + 1, len) /\ Fits(buf, end, 1) /\ Fits(buf, end + 1, 1)
    <2>1. len = l
      BY <1>3
    <2> HIDE DEF end
    <2>2. /\ at + 1 <= n /\ (at + 1) + l <= n /\ end + 1 <= n /\ (end + 1) + 1 <= n
      BY <1>5, <1>4
    <2>3. /\ at + 1 <= UsizeMax /\ (at + 1) + l <= UsizeMax
          /\ end + 1 <= UsizeMax /\ (end + 1) + 1 <= UsizeMax
      BY <1>5, <1>4
    <2>4. QED BY <2>1, <2>2, <2>3 DEF Fits, n
  <1>7. p = d.path
    <2>1. p = SubSeq(buf, at + 2, end)
      OBVIOUS
    <2> HIDE DEF p, end
    <2>2. at + 2 \in Nat /\ end - (at + 2) + 1 = l /\ at + 2 <= end + 1
          /\ \A k \in (at + 2)..end : k \in 1..n
      BY <1>5, <1>4
    <2>3. Piece(p, buf, at + 2, end)
      BY <1>2, <1>5, <2>1, <2>2, PieceOf DEF n
    <2>4. p \in Seq(Nat) /\ Len(p) = l /\ \A i \in 1..l : p[i] = buf[at + 2 + i - 1]
      BY <2>2, <2>3 DEF Piece
    <2>5. \A i \in 1..l : at + 2 + i - 1 = at + 1 + i
      BY <1>2, <1>4
    <2>6. \A i \in 1..l : p[i] = d.path[i]
      BY <1>3, <2>4, <2>5
    <2> DEFINE q == d.path
    <2>7. q \in Seq(Nat) /\ Len(q) = l /\ \A i \in 1..l : p[i] = q[i]
      BY <1>2, <2>6 DEF l
    <2> HIDE DEF q
    <2>8. p = q
      BY <2>4, <2>7
    <2>9. QED BY <2>8 DEF q
  <1>8. e = d
    <2> HIDE DEF p, end
    <2>1. QED BY <1>2, <1>3, <1>5, <1>7
  <1> HIDE DEF p, e
  <1>9. r = after
    <2> HIDE DEF r, end, after
    <2>1. QED BY <1>1, <1>6, <1>7
  <1>10. after.at = at + l + 3 /\ after.rows = Append(c.rows, d) /\ after.error = "none"
    BY <1>5, <1>8
  <1> HIDE DEF r, after
  <1>11. QED BY <1>2, <1>4, <1>9, <1>10 DEF IsRead, at, l, n, r

\* The cursor before the first row; one turn of the loop, whose count is not looked at.
Begin == [Start EXCEPT !.at = 2]

LEMMA BeginType == Begin \in FileCursors /\ Begin.at = 2 /\ Begin.rows = <<>> /\ Begin.error = "none"
  <1>1. Begin = [at |-> 2, rows |-> <<>>, error |-> "none"]
    BY DEF Begin, Start
  <1>2. <<>> \in Seq(ByteRows)
    OBVIOUS
  <1>3. QED BY <1>1, <1>2 DEF FileCursors, Errors

ReadNext(buf, c, k) == ReadRow(buf, c)

\* The cursor after all turns of the loop.
ReadAll(buf, turns) == FoldLeft(LAMBDA c, n : ReadRow(buf, c), Begin, turns)

\* ... turn by turn.
IsReadRun(a, buf, turns) ==
    /\ a \in [0..Len(turns) -> FileCursors] /\ a[0] = Begin
    /\ \A k \in 1..Len(turns) : a[k] = ReadNext(buf, a[k - 1], turns[k])

ReadStep(buf, turns) == [p \in (1..Len(turns)) \X FileCursors |-> ReadNext(buf, p[2], turns[p[1]])]

LEMMA ReadNextType ==
    ASSUME NEW buf \in Bytestrings, NEW c \in FileCursors, NEW k
    PROVE  ReadNext(buf, c, k) \in FileCursors
  BY ReadRowIs DEF ReadNext

LEMMA ReadRun ==
    ASSUME NEW buf \in Bytestrings, NEW turns \in Seq(Nat)
    PROVE  \E a : IsReadRun(a, buf, turns) /\ ReadAll(buf, turns) = a[Len(turns)]
  <1> DEFINE n == Len(turns)
             V == FileCursors
             base == Begin
             G == ReadStep(buf, turns)
             body(h) == [t \in SUBSET (DOMAIN turns) |->
                            IF t = {} THEN Begin
                            ELSE ReadNext(buf, h[t \ {Max(t)}], turns[Max(t)])]
             iter == CHOOSE h : h = body(h)
  <1>1. n \in Nat /\ DOMAIN turns = 1..n
    OBVIOUS
  <1>2. ReadAll(buf, turns) = iter[DOMAIN turns]
    BY DEF ReadAll, ReadNext, FoldLeft, MapThenFoldSet
  <1>3. G \in [(1..n) \X V -> V] /\ base \in V
    <2>1. \A p \in (1..n) \X V : ReadNext(buf, p[2], turns[p[1]]) \in V
      BY <1>1, ReadNextType
    <2>2. G \in [(1..n) \X V -> V]
      BY <2>1 DEF ReadStep
    <2>3. base \in V
      BY BeginType
    <2>4. QED BY <2>2, <2>3
  <1>4. \A k \in 1..n, c \in V : G[<<k, c>>] = ReadNext(buf, c, turns[k])
    BY DEF ReadStep
  <1>5. PICK h : IsFold(h, n, V, base, G)
    <2> HIDE DEF n, V, base, G
    <2>1. QED BY <1>1, <1>3, FoldExists
  <1>6. h = body(h)
    <2>1. ASSUME NEW t \in SUBSET (1..n), t # {}
          PROVE  h[t] = ReadNext(buf, h[t \ {Max(t)}], turns[Max(t)])
      <3> HIDE DEF n, V, base, G
      <3>1. FoldsDown(h, n, V, G)
        BY <1>1, <1>5, FoldStep
      <3>2. /\ Max(t) \in 1..n /\ h[t \ {Max(t)}] \in V
            /\ h[t] = G[<<Max(t), h[t \ {Max(t)}]>>]
        BY <2>1, <3>1 DEF FoldsDown
      <3>3. QED BY <1>4, <3>2
    <2>2. h[{}] = base /\ h = [t \in SUBSET (1..n) |-> h[t]]
      BY <1>5 DEF IsFold
    <2>3. QED BY <1>1, <2>1, <2>2
  <1>7. iter = body(iter)
    BY <1>6
  <1> HIDE DEF iter
  <1>8. iter[{}] = base
    BY <1>7
  <1>9. ASSUME NEW k \in 1..n, iter[1..(k - 1)] \in V
        PROVE  iter[1..k] = G[<<k, iter[1..(k - 1)]>>]
    <2>1. Max(1..k) = k /\ (1..k) \ {k} = 1..(k - 1) /\ 1..k # {} /\ 1..k \in SUBSET DOMAIN turns
      BY <1>1, MaxOfInterval
    <2>2. iter[1..k] = ReadNext(buf, iter[(1..k) \ {Max(1..k)}], turns[Max(1..k)])
      BY <1>7, <2>1
    <2>3. QED BY <1>4, <1>9, <2>1, <2>2
  <1>10. RunsBy(iter, n, V, base, G)
    <2> HIDE DEF n, V, base, G
    <2>1. QED BY <1>3, <1>8, <1>9 DEF RunsBy
  <1> HIDE DEF n, V, base, G
  <1>11. PICK a : IsRun(a, n, V, base, G) /\ iter[1..n] = a[n]
    BY <1>1, <1>10, RunAlong
  <1>12. /\ a \in [0..n -> V] /\ a[0] = base
         /\ \A k \in 1..n : a[k] = G[<<k, a[k - 1]>>]
    BY <1>11 DEF IsRun
  <1>13. \A k \in 1..n : k - 1 \in 0..n /\ a[k - 1] \in V
    BY <1>1, <1>12
  <1>14. \A k \in 1..n : a[k] = ReadNext(buf, a[k - 1], turns[k])
    BY <1>4, <1>12, <1>13
  <1>15. IsReadRun(a, buf, turns)
    BY <1>12, <1>14 DEF IsReadRun, n, V, base
  <1>16. QED BY <1>1, <1>2, <1>11, <1>15 DEF n

\* The count of the header, turn by turn.
Turns(m) == [n \in 1..m |-> n]

LEMMA TurnsType == \A m \in Nat : Turns(m) \in Seq(Nat) /\ Len(Turns(m)) = m
  BY DEF Turns

LEMMA ParseIs ==
    ASSUME NEW buf \in Bytestrings, buf # <<>>
    PROVE  /\ Parse(buf).error = "none" =>
                 /\ Len(buf) >= 2 /\ buf[1] = SupportedVersion
                 /\ Parse(buf) = ReadAll(buf, Turns(buf[2]))
                 /\ Parse(buf).at = Len(buf)
           /\ Len(buf) >= 2 /\ Len(buf) <= UsizeMax /\ buf[1] = SupportedVersion
                 /\ ReadAll(buf, Turns(buf[2])).at = Len(buf) =>
                 Parse(buf) = ReadAll(buf, Turns(buf[2]))
  <1> DEFINE n == Len(buf)
             c == ReadAll(buf, Turns(buf[2]))
             r == Parse(buf)
             room == Fits(buf, 0, 1) /\ Fits(buf, 1, 1)
             right == buf[1] = SupportedVersion
             truncated == Stop(Start, "Truncated")
             version == Stop(Start, "Version")
             over == Stop(c, "Trailing")
             done == IF c.error = "none" /\ c.at # n THEN over ELSE c
  <1>1. r = IF ~Fits(buf, 0, 1)     THEN truncated
            ELSE IF ~right            THEN version
            ELSE IF ~Fits(buf, 1, 1)  THEN truncated
            ELSE done
    <2>1. Finish(buf, c) = done
      BY DEF Finish
    <2>2. r = IF ~Fits(buf, 0, 1)     THEN truncated
            ELSE IF ~right            THEN version
            ELSE IF ~Fits(buf, 1, 1)  THEN truncated
            ELSE Finish(buf, c)
      <3> HIDE DEF right, truncated, version
      <3>1. QED BY Zenon DEF Parse, ReadAll, Turns, Begin, right, truncated, version
    <2>3. QED BY <2>1, <2>2
  <1>2. n \in Nat /\ UsizeMax \in Nat
    BY FormatAssumption DEF Bytestrings
  <1>3. /\ truncated.error = "Truncated" /\ version.error = "Version"
    BY DEF Stop, Start
  <1>4. n >= 2 /\ c.error = "none" /\ c.at # n => over.error = "Trailing"
    <2> SUFFICES ASSUME n >= 2 PROVE over.error = "Trailing"
      OBVIOUS
    <2>1. buf[2] \in Nat
      BY DEF Bytestrings
    <2>2. c \in FileCursors
      <3> DEFINE turns == Turns(buf[2])
      <3>0. turns \in Seq(Nat)
        BY <2>1, TurnsType
      <3> HIDE DEF turns
      <3>1. turns \in Seq(Nat) /\ Len(turns) \in 0..Len(turns)
        BY <3>0
      <3>2. PICK a : IsReadRun(a, buf, turns) /\ ReadAll(buf, turns) = a[Len(turns)]
        BY <3>1, ReadRun
      <3>3. ReadAll(buf, turns) \in FileCursors
        BY <3>1, <3>2 DEF IsReadRun
      <3>4. QED BY <3>3 DEF turns
    <2> HIDE DEF c
    <2>3. QED BY <2>2, Stopped DEF Errors
  <1> HIDE DEF c, r, truncated, version, over, right
  <1>5. ASSUME r.error = "none"
        PROVE  n >= 2 /\ right /\ r = c /\ r.at = n
    <2>1. room /\ right /\ r = done
      BY <1>1, <1>3, <1>5
    <2>2. n >= 2
      BY <1>2, <2>1 DEF Fits
    <2>3. r = c /\ r.at = n
      BY <1>4, <1>5, <2>1, <2>2
    <2>4. QED BY <2>1, <2>2, <2>3
  <1>6. ASSUME n >= 2, n <= UsizeMax, right, c.at = n
        PROVE  r = c
    <2>1. room
      BY <1>2, <1>6 DEF Fits
    <2>2. QED BY <1>1, <1>6, <2>1
  <1>7. QED BY <1>5, <1>6 DEF c, r, right

\* t is s and one more row.
RowMore(t, s, d) ==
    /\ Len(t) = Len(s) + Len(d.path) + 3
    /\ Same(t, s, Len(s))
    /\ RowAt(t, Len(s), d)

LEMMA EncodeStepIs ==
    ASSUME NEW rows \in Seq(ByteRows), NEW e, IsEncodeRun(e, rows), NEW k \in 1..Len(rows)
    PROVE  /\ e[k - 1] \in Bytestrings /\ e[k] \in Bytestrings
           /\ rows[k] \in ByteRows /\ Len(rows[k].path) \in Nat
           /\ RowMore(e[k], e[k - 1], rows[k])
  <1>1. k - 1 \in 0..Len(rows) /\ k \in 0..Len(rows)
    OBVIOUS
  <1>2. rows[k] \in ByteRows
    OBVIOUS
  <1>3. e[k - 1] \in Bytestrings /\ e[k] = RowWith(e[k - 1], rows[k])
    BY <1>1 DEF IsEncodeRun
  <1>4. Len(rows[k].path) \in Nat
    BY <1>2 DEF ByteRows, Bytestrings
  <1> DEFINE d == rows[k]
             s == e[k - 1]
             t == e[k]
  <1>5. d \in ByteRows /\ s \in Bytestrings /\ t = RowWith(s, d)
    BY <1>2, <1>3
  <1> HIDE DEF d, s, t
  <1>6. t \in Bytestrings /\ RowMore(t, s, d)
    BY <1>5, RowBytes DEF RowMore
  <1>7. QED BY <1>2, <1>3, <1>4, <1>6 DEF d, s, t

LEMMA SameRow ==
    ASSUME NEW s, NEW t, NEW n \in Nat, Same(s, t, n), NEW at \in Nat, NEW d \in ByteRows,
           at + Len(d.path) + 3 <= n, RowAt(t, at, d)
    PROVE  RowAt(s, at, d)
  <1> DEFINE l == Len(d.path)
  <1>1. l \in Nat
    BY DEF ByteRows, Bytestrings
  <1>2. /\ t[at + 1] = l /\ \A i \in 1..l : t[at + 1 + i] = d.path[i]
        /\ t[at + l + 2] = d.rank /\ t[at + l + 3] = d.last_accessed
    BY DEF RowAt
  <1>3. at + l + 3 <= n
    OBVIOUS
  <1> HIDE DEF l
  <1>4. at + 1 \in 1..n /\ at + l + 2 \in 1..n /\ at + l + 3 \in 1..n
        /\ \A i \in 1..l : at + 1 + i \in 1..n
    BY <1>1, <1>3
  <1>5. \A i \in 1..n : s[i] = t[i]
    BY DEF Same
  <1>6. /\ s[at + 1] = l /\ \A i \in 1..l : s[at + 1 + i] = d.path[i]
        /\ s[at + l + 2] = d.rank /\ s[at + l + 3] = d.last_accessed
    BY <1>2, <1>4, <1>5
  <1>7. QED BY <1>6 DEF RowAt, l

\* What is written of the first rows stays where it is.
LEMMA WrittenStays ==
    ASSUME NEW rows \in Seq(ByteRows), NEW e, IsEncodeRun(e, rows)
    PROVE  \A k \in 0..Len(rows) :
              /\ Len(e[k]) <= Len(e[Len(rows)])
              /\ Same(e[Len(rows)], e[k], Len(e[k]))
  <1> DEFINE n == Len(rows)
             z == e[n]
             stays(k) == Len(e[k]) <= Len(z) /\ Same(z, e[k], Len(e[k]))
             T == {k \in 0..n : ~stays(k)}
  <1> SUFFICES ASSUME T # {} PROVE FALSE
    OBVIOUS
  <1>1. n \in Nat /\ \A k \in 0..n : Len(e[k]) \in Nat
    <2>1. \A k \in 0..n : e[k] \in Seq(Nat)
      BY DEF IsEncodeRun, Bytestrings
    <2>2. QED BY <2>1
  <1>2. stays(n)
    <2>1. n \in 0..n /\ Len(z) <= Len(z)
      BY <1>1
    <2>2. QED BY <2>1 DEF Same
  <1>3. T \subseteq 0..n
    OBVIOUS
  <1>4. \A k \in 0..n : k \in T <=> ~stays(k)
    OBVIOUS
  <1>5. ASSUME NEW k \in 0..n, k + 1 \in 0..n, stays(k + 1) PROVE stays(k)
    <2>1. k + 1 \in 1..n /\ (k + 1) - 1 = k
      BY <1>1, <1>5
    <2>2. RowMore(e[k + 1], e[k], rows[k + 1]) /\ Len(rows[k + 1].path) \in Nat
      BY <2>1, EncodeStepIs
    <2> DEFINE s == e[k]
               t == e[k + 1]
               l == Len(rows[k + 1].path)
    <2>3. /\ Len(t) = Len(s) + l + 3 /\ Same(t, s, Len(s)) /\ l \in Nat
          /\ Len(t) <= Len(z) /\ Same(z, t, Len(t))
          /\ Len(s) \in Nat /\ Len(t) \in Nat /\ Len(z) \in Nat
      <3>1. Len(t) <= Len(z) /\ Same(z, t, Len(t))
        BY <1>5
      <3>2. Len(s) \in Nat /\ Len(t) \in Nat /\ Len(z) \in Nat
        <4>1. n \in 0..n
          BY <1>1
        <4> HIDE DEF n
        <4>2. QED BY <1>1, <1>5, <4>1
      <3>3. Len(t) = Len(s) + l + 3 /\ Same(t, s, Len(s)) /\ l \in Nat
        BY <2>2 DEF RowMore
      <3> HIDE DEF s, t, l, z
      <3>4. QED BY <3>1, <3>2, <3>3
    <2> HIDE DEF s, t, l, z
    <2>4. Len(s) <= Len(z) /\ \A i \in 1..Len(s) : i \in 1..Len(t)
      BY <2>3
    <2>5. Same(z, s, Len(s))
      BY <2>3, <2>4 DEF Same
    <2>6. QED BY <2>4, <2>5 DEF s
  <1> DEFINE m == Max(T)
  <1>6. m \in T /\ \A y \in T : y <= m
    BY <1>1, <1>3, MaxOf
  <1> HIDE DEF n, T, m, stays
  <1>7. m \in 0..n /\ m # n
    BY <1>2, <1>3, <1>4, <1>6
  <1>8. m + 1 \in 0..n /\ m + 1 \notin T
    BY <1>1, <1>6, <1>7
  <1>9. QED BY <1>4, <1>5, <1>6, <1>7, <1>8

\* The first k of the rows.
FirstRows(s, rows, k) == Len(s) = k /\ \A i \in 1..k : s[i] = rows[i]

LEMMA MoreRows ==
    ASSUME NEW s \in Seq(ByteRows), NEW rows, NEW k \in Nat \ {0}, FirstRows(s, rows, k - 1)
    PROVE  FirstRows(Append(s, rows[k]), rows, k)
  <1> DEFINE d == rows[k]
             t == Append(s, d)
  <1>1. Len(s) = k - 1 /\ \A i \in 1..(k - 1) : s[i] = rows[i]
    BY DEF FirstRows
  <1>2. Len(t) = k /\ t[k] = d /\ \A i \in 1..(k - 1) : t[i] = s[i]
    BY <1>1
  <1> HIDE DEF t
  <1>3. \A i \in 1..k : t[i] = rows[i]
    <2>1. \A i \in 1..k : i = k \/ i \in 1..(k - 1)
      OBVIOUS
    <2>2. QED BY <1>1, <1>2, <2>1
  <1>4. QED BY <1>2, <1>3 DEF FirstRows, t

LEMMA AllRows ==
    ASSUME NEW s \in Seq(ByteRows), NEW rows \in Seq(ByteRows), FirstRows(s, rows, Len(rows))
    PROVE  s = rows
  BY DEF FirstRows

\* "inverse of parse": whatever rows are written, of text and as much as the
\* machine can address, parse reads them back and is at the end of the file.
THEOREM EncodedIsParsed ==
    ASSUME NEW rows \in Seq(ByteRows), Len(Encode(rows)) <= UsizeMax,
           \A k \in 1..Len(rows) : NotText \notin ToSet(rows[k].path)
    PROVE  /\ Parse(Encode(rows)).error = "none" /\ Parse(Encode(rows)).rows = rows
  <1> DEFINE n == Len(rows)
             buf == Encode(rows)
             turns == Turns(n)
  <1>1. PICK e : IsEncodeRun(e, rows) /\ buf = e[n]
    BY EncodeRun
  <1> HIDE DEF buf
  <1>2. n \in Nat /\ buf \in Bytestrings /\ Len(buf) \in Nat
    <2>1. n \in Nat /\ n \in 0..n
      OBVIOUS
    <2>2. buf \in Seq(Nat)
      BY <1>1, <2>1 DEF IsEncodeRun, Bytestrings
    <2>3. QED BY <2>1, <2>2 DEF Bytestrings
  <1>3. turns \in Seq(Nat) /\ Len(turns) = n
    BY <1>2, TurnsType
  <1>4. e[0] = Header(n) /\ Len(e[0]) = 2
    BY <1>1, <1>2, HeaderIs DEF IsEncodeRun
  <1>5. /\ \A k \in 0..n : Len(e[k]) \in Nat /\ Len(e[k]) <= Len(buf) /\ Same(buf, e[k], Len(e[k]))
    <2>1. \A k \in 0..n : Len(e[k]) <= Len(buf) /\ Same(buf, e[k], Len(e[k]))
      BY <1>1, WrittenStays
    <2>2. \A k \in 0..n : e[k] \in Seq(Nat)
      BY <1>1 DEF IsEncodeRun, Bytestrings
    <2>3. QED BY <2>1, <2>2
  <1>6. Len(buf) >= 2 /\ buf[1] = SupportedVersion /\ buf[2] = n
    <2>1. 0 \in 0..n /\ 1 \in 1..2 /\ 2 \in 1..2
      BY <1>2
    <2>2. 2 <= Len(buf) /\ Same(buf, Header(n), 2)
      BY <1>4, <1>5, <2>1
    <2>3. buf[1] = Header(n)[1] /\ buf[2] = Header(n)[2]
      BY <2>1, <2>2 DEF Same
    <2>4. QED BY <1>2, <2>2, <2>3, HeaderIs
  <1>7. PICK c : IsReadRun(c, buf, turns) /\ ReadAll(buf, turns) = c[n]
    BY <1>2, <1>3, ReadRun
  <1> HIDE DEF n, turns
  <1>8. /\ c[0] = Begin /\ \A k \in 0..n : c[k] \in FileCursors
        /\ \A k \in 1..n : c[k] = ReadRow(buf, c[k - 1])
    BY <1>3, <1>7 DEF IsReadRun, ReadNext
  <1> DEFINE reads(k) == c[k].error = "none" /\ c[k].at = Len(e[k]) /\ FirstRows(c[k].rows, rows, k)
             P == {k \in Nat : k <= n => reads(k)}
  <1>9. reads(0)
    <2>1. c[0].error = "none" /\ c[0].at = 2 /\ c[0].rows = <<>>
      BY <1>8, BeginType
    <2>2. QED BY <1>4, <2>1 DEF FirstRows
  <1>10. ASSUME NEW k \in Nat, k + 1 <= n, reads(k) PROVE reads(k + 1)
    <2> DEFINE d == rows[k + 1]
               l == Len(d.path)
               at == Len(e[k])
               b == c[k]
               r == c[k + 1]
    <2>1. k \in 0..n /\ k + 1 \in 0..n /\ k + 1 \in 1..n /\ (k + 1) - 1 = k /\ k + 1 \in Nat \ {0}
      BY <1>2, <1>10
    <2>2. RowMore(e[k + 1], e[k], d) /\ d \in ByteRows /\ l \in Nat
      BY <1>1, <2>1, EncodeStepIs DEF n
    <2>3. Len(e[k + 1]) = at + l + 3 /\ RowAt(e[k + 1], at, d)
      BY <2>2 DEF RowMore
    <2>4. at \in Nat /\ Len(e[k + 1]) \in Nat /\ Len(e[k + 1]) <= Len(buf)
          /\ Same(buf, e[k + 1], Len(e[k + 1]))
      BY <1>5, <2>1
    <2>5. b.error = "none" /\ b.at = at /\ FirstRows(b.rows, rows, k) /\ b \in FileCursors
          /\ r = ReadRow(buf, b)
      BY <1>8, <1>10, <2>1
    <2>6. NotText \notin ToSet(d.path)
      BY <2>1 DEF n
    <2> HIDE DEF d, l, at, b, r
    <2>7. RowAt(buf, at, d) /\ at + l + 3 <= Len(buf)
      BY <2>2, <2>3, <2>4, SameRow DEF l
    <2>8. IsRead(buf, b, r, d)
      BY <1>2, <2>2, <2>5, <2>6, <2>7, ReadRowOf DEF l, buf
    <2>9. r.error = "none" /\ r.at = at + l + 3 /\ r.rows = Append(b.rows, d)
      BY <2>5, <2>8 DEF IsRead, l
    <2>10. b.rows \in Seq(ByteRows)
      BY <2>5 DEF FileCursors
    <2>11. FirstRows(Append(b.rows, d), rows, k + 1)
      BY <2>1, <2>5, <2>10, MoreRows DEF d
    <2>12. QED BY <2>3, <2>9, <2>11 DEF r
  <1>11. reads(n)
    <2> HIDE DEF reads
    <2>1. 0 \in P
      BY <1>9
    <2>2. \A k \in Nat : k \in P => k + 1 \in P
      BY <1>2, <1>10
    <2> HIDE DEF P
    <2>3. Nat \subseteq P
      BY <2>1, <2>2, Induction
    <2>4. QED BY <1>2, <2>3 DEF P
  <1>12. c[n].error = "none" /\ c[n].at = Len(buf) /\ c[n].rows = rows
    <2>1. c[n].rows \in Seq(ByteRows)
      BY <1>2, <1>8 DEF FileCursors
    <2>2. QED BY <1>1, <1>11, <2>1, AllRows DEF n
  <1>13. buf # <<>>
    BY <1>6
  <1>14. Parse(buf) = c[n]
    BY <1>2, <1>6, <1>7, <1>12, <1>13, ParseIs DEF turns, buf
  <1>15. QED BY <1>12, <1>14 DEF buf

\* A loop that ends without an error has read a row at every turn.
LEMMA NoneFails ==
    ASSUME NEW buf \in Bytestrings, NEW m \in Nat, NEW c, IsReadRun(c, buf, Turns(m)),
           c[m].error = "none"
    PROVE  /\ c[0] = Begin /\ \A k \in 0..m : c[k] \in FileCursors
           /\ \A k \in 1..m : \E d : IsRead(buf, c[k - 1], c[k], d)
  <1> DEFINE T == {k \in 0..m : c[k].error # "none"}
  <1>1. Len(Turns(m)) = m
    BY TurnsType
  <1>2. /\ c[0] = Begin /\ \A k \in 0..m : c[k] \in FileCursors
        /\ \A k \in 1..m : c[k] = ReadRow(buf, c[k - 1])
    BY <1>1 DEF IsReadRun, ReadNext
  <1>3. \A k \in 1..m : k - 1 \in 0..m /\ k \in 0..m
    OBVIOUS
  <1>4. T = {}
    <2> SUFFICES ASSUME T # {} PROVE FALSE
      OBVIOUS
    <2>1. T \subseteq 0..m /\ \A k \in 0..m : k \in T <=> c[k].error # "none"
      OBVIOUS
    <2> DEFINE x == Max(T)
    <2>2. x \in T /\ \A y \in T : y <= x
      BY <2>1, MaxOf
    <2> HIDE DEF T, x
    <2>3. x \in 0..m /\ x # m
      BY <2>1, <2>2
    <2>4. x + 1 \in 1..m /\ x + 1 \in 0..m /\ (x + 1) - 1 = x /\ x + 1 \notin T
      BY <2>2, <2>3
    <2>5. c[x + 1] = ReadRow(buf, c[x]) /\ c[x] \in FileCursors /\ c[x + 1].error = "none"
      BY <1>2, <2>1, <2>3, <2>4
    <2>6. c[x].error # "none"
      BY <2>1, <2>2
    <2>7. QED BY <2>5, <2>6, ReadRowIs
  <1>5. ASSUME NEW k \in 1..m PROVE \E d : IsRead(buf, c[k - 1], c[k], d)
    <2>1. c[k].error = "none" /\ c[k] = ReadRow(buf, c[k - 1]) /\ c[k - 1] \in FileCursors
      BY <1>2, <1>3, <1>4
    <2>2. QED BY <2>1, ReadRowIs
  <1>6. QED BY <1>2, <1>5

\* ... and the rows read so far are the first of those it returns.
LEMMA ReadStays ==
    ASSUME NEW buf \in Bytestrings, NEW m \in Nat, NEW c, IsReadRun(c, buf, Turns(m)),
           c[m].error = "none"
    PROVE  \A k \in 0..m : FirstRows(c[k].rows, c[m].rows, k)
  <1> DEFINE rows == c[m].rows
             s(k) == c[k].rows
             P == {k \in Nat : k <= m => Len(s(k)) = k}
             T == {k \in 0..m : ~FirstRows(s(k), rows, k)}
  <1>1. /\ s(0) = <<>> /\ \A k \in 0..m : s(k) \in Seq(ByteRows)
        /\ \A k \in 1..m : \E d \in ByteRows : s(k) = Append(s(k - 1), d)
    <2>1. /\ c[0] = Begin /\ \A k \in 0..m : c[k] \in FileCursors
          /\ \A k \in 1..m : \E d : IsRead(buf, c[k - 1], c[k], d)
      BY NoneFails
    <2>2. QED BY <2>1, BeginType DEF IsRead, FileCursors
  <1> HIDE DEF s
  <1>2. ASSUME NEW k \in Nat, k + 1 <= m
        PROVE  \E d \in ByteRows : s(k + 1) = Append(s(k), d) /\ s(k) \in Seq(ByteRows)
    <2>1. k + 1 \in 1..m /\ (k + 1) - 1 = k /\ k \in 0..m
      BY <1>2
    <2>2. QED BY <1>1, <2>1
  <1>3. \A k \in 0..m : Len(s(k)) = k
    <2>1. 0 \in P
      BY <1>1
    <2>2. ASSUME NEW k \in Nat, k \in P PROVE k + 1 \in P
      <3>1. CASE k + 1 <= m
        <4>1. PICK d \in ByteRows : s(k + 1) = Append(s(k), d) /\ s(k) \in Seq(ByteRows)
          BY <1>2, <3>1
        <4>2. Len(s(k)) = k
          BY <2>2, <3>1
        <4>3. Len(s(k + 1)) = k + 1
          BY <4>1, <4>2
        <4>4. QED BY <4>3
      <3>2. QED BY <3>1
    <2> HIDE DEF P
    <2>3. Nat \subseteq P
      BY <2>1, <2>2, Induction
    <2>4. QED BY <2>3 DEF P
  <1>4. T = {}
    <2> SUFFICES ASSUME T # {} PROVE FALSE
      OBVIOUS
    <2>1. T \subseteq 0..m /\ \A k \in 0..m : k \in T <=> ~FirstRows(s(k), rows, k)
      OBVIOUS
    <2> DEFINE x == Max(T)
    <2>2. x \in T /\ \A y \in T : y <= x
      BY <2>1, MaxOf
    <2>3. FirstRows(s(m), rows, m)
      BY <1>3 DEF FirstRows, s
    <2> HIDE DEF T, x, rows
    <2>4. x \in 0..m /\ x # m
      BY <2>1, <2>2, <2>3
    <2>5. x \in Nat /\ x + 1 <= m /\ x + 1 \in 0..m /\ x + 1 \notin T
      BY <2>2, <2>4
    <2>6. PICK d \in ByteRows : s(x + 1) = Append(s(x), d) /\ s(x) \in Seq(ByteRows)
      BY <1>2, <2>5
    <2>7. Len(s(x)) = x /\ \A i \in 1..(x + 1) : s(x + 1)[i] = rows[i]
      BY <1>3, <2>1, <2>4, <2>5 DEF FirstRows
    <2>8. \A i \in 1..x : s(x + 1)[i] = s(x)[i] /\ i \in 1..(x + 1)
      BY <2>5, <2>6, <2>7
    <2>9. FirstRows(s(x), rows, x)
      BY <2>7, <2>8 DEF FirstRows
    <2>10. QED BY <2>1, <2>2, <2>4, <2>9
  <1>5. QED BY <1>4 DEF s

\* What parse accepts is what encode writes of the rows it gives: nothing is
\* missing, nothing is over, no length is other than it says.
THEOREM ParsedIsEncoded ==
    ASSUME NEW buf \in Bytestrings, buf # <<>>, Parse(buf).error = "none"
    PROVE  Encode(Parse(buf).rows) = buf
  <1> DEFINE m == buf[2]
             turns == Turns(m)
             rows == Parse(buf).rows
  <1>1. /\ Len(buf) >= 2 /\ buf[1] = SupportedVersion
        /\ Parse(buf) = ReadAll(buf, turns) /\ Parse(buf).at = Len(buf)
    BY ParseIs
  <1>2. m \in Nat /\ turns \in Seq(Nat) /\ Len(turns) = m
    <2>1. m \in Nat
      BY <1>1 DEF Bytestrings
    <2> HIDE DEF m
    <2>2. QED BY <2>1, TurnsType
  <1>3. PICK c : IsReadRun(c, buf, turns) /\ ReadAll(buf, turns) = c[m]
    <2> HIDE DEF turns, m
    <2>1. QED BY <1>2, ReadRun
  <1>4. c[m].error = "none" /\ rows = c[m].rows /\ c[m].at = Len(buf)
    BY <1>1, <1>3
  <1> HIDE DEF m, rows
  <1>5. /\ c[0] = Begin /\ \A k \in 0..m : c[k] \in FileCursors
        /\ \A k \in 1..m : \E d : IsRead(buf, c[k - 1], c[k], d)
    BY <1>2, <1>3, <1>4, NoneFails
  <1>6. \A k \in 0..m : FirstRows(c[k].rows, rows, k)
    BY <1>2, <1>3, <1>4, ReadStays
  <1>7. rows \in Seq(ByteRows) /\ Len(rows) = m
    BY <1>2, <1>4, <1>5, <1>6 DEF FileCursors, FirstRows
  <1>8. PICK e : IsEncodeRun(e, rows) /\ Encode(rows) = e[m]
    BY <1>7, EncodeRun
  <1> HIDE DEF turns
  <1> DEFINE agrees(k) == Len(e[k]) = c[k].at /\ Same(e[k], buf, Len(e[k]))
             P == {k \in Nat : k <= m => agrees(k)}
  <1>9. agrees(0)
    <2>1. e[0] = Header(m)
      BY <1>7, <1>8 DEF IsEncodeRun
    <2>2. c[0].at = 2
      BY <1>5, BeginType
    <2>3. Len(e[0]) = 2 /\ e[0][1] = buf[1] /\ e[0][2] = buf[2]
      BY <1>1, <1>2, <2>1, HeaderIs DEF m
    <2>4. \A i \in 1..2 : i = 1 \/ i = 2
      OBVIOUS
    <2>5. QED BY <2>2, <2>3, <2>4 DEF Same
  <1>10. ASSUME NEW k \in Nat, k + 1 <= m, agrees(k) PROVE agrees(k + 1)
    <2> DEFINE s == e[k]
               t == e[k + 1]
               b == c[k]
               r == c[k + 1]
               d == rows[k + 1]
               l == Len(d.path)
               at == Len(s)
    <2>1. k \in 0..m /\ k + 1 \in 0..m /\ k + 1 \in 1..m /\ (k + 1) - 1 = k
      BY <1>2, <1>10
    <2>2. PICK x : IsRead(buf, b, r, x)
      BY <1>5, <2>1
    <2>3. x = d
      <3>1. b.rows \in Seq(ByteRows) /\ FirstRows(b.rows, rows, k) /\ FirstRows(r.rows, rows, k + 1)
        BY <1>5, <1>6, <2>1 DEF FileCursors
      <3>2. r.rows = Append(b.rows, x) /\ x \in ByteRows
        BY <2>2 DEF IsRead
      <3> HIDE DEF b, r, d
      <3>3. Len(b.rows) = k /\ r.rows[k + 1] = rows[k + 1]
        <4>1. k + 1 \in 1..(k + 1)
          BY <2>1
        <4>2. QED BY <3>1, <4>1 DEF FirstRows
      <3>4. r.rows[k + 1] = x
        BY <3>1, <3>2, <3>3
      <3>5. QED BY <3>3, <3>4 DEF d
    <2>4. /\ s \in Seq(Nat) /\ t \in Seq(Nat) /\ d \in ByteRows /\ l \in Nat /\ RowMore(t, s, d)
      BY <1>7, <1>8, <2>1, EncodeStepIs DEF Bytestrings
    <2>5. at = b.at /\ Same(s, buf, at)
      BY <1>10
    <2>6. RowAt(buf, b.at, x) /\ r.at = b.at + Len(x.path) + 3
      BY <2>2 DEF IsRead
    <2>7. Len(t) = at + l + 3 /\ Same(t, s, at) /\ RowAt(t, at, d)
      BY <2>4 DEF RowMore
    <2>8. RowAt(buf, at, d) /\ r.at = at + l + 3 /\ at \in Nat
      BY <2>3, <2>4, <2>5, <2>6
    <2> HIDE DEF s, t, b, r, d, l, at
    <2>9. \A i \in 1..at : t[i] = buf[i]
      BY <2>5, <2>7 DEF Same
    <2>10. /\ t[at + 1] = buf[at + 1]
           /\ \A i \in 1..l : t[at + 1 + i] = buf[at + 1 + i]
           /\ t[at + l + 2] = buf[at + l + 2] /\ t[at + l + 3] = buf[at + l + 3]
      BY <2>7, <2>8 DEF RowAt, l
    <2>11. \A i \in 1..(at + l + 3) : t[i] = buf[i]
      <3>1. ASSUME NEW i \in (at + 2)..(at + l + 1) PROVE t[i] = buf[i]
        <4>1. i - (at + 1) \in 1..l /\ at + 1 + (i - (at + 1)) = i
          BY <2>4, <2>8
        <4>2. QED BY <2>10, <4>1
      <3>2. \A i \in 1..(at + l + 3) :
               \/ i \in 1..at \/ i = at + 1 \/ i \in (at + 2)..(at + l + 1)
               \/ i = at + l + 2 \/ i = at + l + 3
        BY <2>4, <2>8
      <3>3. QED BY <2>9, <2>10, <3>1, <3>2
    <2>12. QED BY <2>7, <2>8, <2>11 DEF Same, t, r
  <1>11. agrees(m)
    <2> HIDE DEF agrees
    <2>1. 0 \in P
      BY <1>9
    <2>2. \A k \in Nat : k \in P => k + 1 \in P
      BY <1>2, <1>10
    <2> HIDE DEF P
    <2>3. Nat \subseteq P
      BY <2>1, <2>2, Induction
    <2>4. QED BY <1>2, <2>3 DEF P
  <1>12. e[m] = buf
    <2> DEFINE z == e[m]
    <2>1. z \in Seq(Nat)
      BY <1>2, <1>7, <1>8 DEF IsEncodeRun, Bytestrings
    <2>2. Len(z) = Len(buf) /\ \A i \in 1..Len(z) : z[i] = buf[i]
      BY <1>4, <1>11 DEF Same
    <2> HIDE DEF z
    <2>3. z = buf
      BY <2>1, <2>2 DEF Bytestrings
    <2>4. QED BY <2>3 DEF z
  <1>13. QED BY <1>8, <1>12 DEF rows

LEMMA FileAnswered ==
    ASSUME Faithful, Answered("file")
    PROVE  asked.q \in FileAsked /\ answer.a = Parse(asked.q)
  BY DEF Faithful, Answered, Remembers, Silent

LEMMA RowsAnswered ==
    ASSUME Faithful, Answered("rows")
    PROVE  asked.q \in RowsAsked /\ answer.a = Parse(Encode(asked.q))
  BY DEF Faithful, Answered, Remembers, Silent

LEMMA BytesAsked ==
    ASSUME NEW q \in FileAsked
    PROVE  q \in Bytestrings
  <1>1. ASSUME NEW v \in Nat PROVE FilesOf(v) \subseteq Seq(Nat)
    <2> DEFINE S == Strings({0, 1, 2, UsizeMax}, 0, 6)
    <2>1. S \subseteq Seq(Nat)
      BY FormatAssumption, StringsOf
    <2>2. FilesOf(v) = {<<v>> \o s : s \in S}
      BY DEF FilesOf
    <2> HIDE DEF S
    <2>3. ASSUME NEW s \in S PROVE <<v>> \o s \in Seq(Nat)
      <3>1. <<v>> \in Seq(Nat) /\ s \in Seq(Nat)
        BY <2>1
      <3>2. QED BY <3>1
    <2>4. QED BY <2>2, <2>3
  <1>2. 0 \in Nat /\ SupportedVersion \in Nat /\ <<>> \in Seq(Nat)
    BY DEF SupportedVersion
  <1>3. QED BY <1>1, <1>2 DEF FileAsked, Bytestrings

LEMMA AskedRows ==
    ASSUME NEW q \in RowsAsked
    PROVE  /\ q \in Seq(ByteRows) /\ Len(q) <= 2
           /\ \A k \in 1..Len(q) : Len(q[k].path) <= 2 /\ NotText \notin ToSet(q[k].path)
  <1> DEFINE P == Strings({1, 2}, 0, 2)
             R == [path : P, rank : {0, 2}, last_accessed : {1, 9}]
  <1>1. \A p \in P : p \in Seq(Nat) /\ Len(p) <= 2 /\ NotText \notin ToSet(p)
    <2> SUFFICES ASSUME NEW p \in P PROVE p \in Seq(Nat) /\ Len(p) <= 2 /\ NotText \notin ToSet(p)
      OBVIOUS
    <2>1. PICK k \in 0..2 : p \in [1..k -> {1, 2}]
      BY DEF Strings
    <2>2. p \in Seq(Nat) /\ Len(p) = k /\ DOMAIN p = 1..k
      BY <2>1
    <2>3. ToSet(p) \subseteq {1, 2}
      BY <2>1 DEF ToSet
    <2>4. QED BY <2>2, <2>3, RowsAskedAssumption
  <1> HIDE DEF P
  <1>2. R \subseteq ByteRows
    BY <1>1 DEF ByteRows, Bytestrings
  <1>3. q \in Strings(R, 0, 2)
    BY DEF RowsAsked, P
  <1>4. \A r \in R : r.path \in P
    OBVIOUS
  <1> HIDE DEF R
  <1>5. PICK k \in 0..2 : q \in [1..k -> R]
    BY <1>3 DEF Strings
  <1>6. q \in Seq(ByteRows) /\ Len(q) = k /\ \A j \in 1..k : q[j] \in R
    <2>1. q \in [1..k -> ByteRows] /\ k \in Nat
      BY <1>2, <1>5
    <2>2. q \in Seq(ByteRows) /\ Len(q) = k
      BY <2>1
    <2>3. QED BY <1>5, <2>2
  <1>7. QED BY <1>1, <1>4, <1>6

LEMMA AskedFits ==
    ASSUME NEW q \in RowsAsked
    PROVE  Len(Encode(q)) <= UsizeMax
  <1> DEFINE n == Len(q)
             len(k) == Len(q[k].path)
  <1>1. q \in Seq(ByteRows) /\ n \in 0..2 /\ \A k \in 1..n : len(k) <= 2
    <2>1. q \in Seq(ByteRows) /\ n <= 2 /\ \A k \in 1..n : len(k) <= 2
      BY AskedRows
    <2>2. n \in Nat
      BY <2>1
    <2> HIDE DEF n, len
    <2>3. QED BY <2>1, <2>2
  <1>2. PICK e : IsEncodeRun(e, q) /\ Encode(q) = e[n]
    BY <1>1, EncodeRun
  <1>3. Len(e[0]) = 2
    <2>1. n \in Nat
      BY <1>1
    <2>2. QED BY <1>2, <2>1, HeaderIs DEF IsEncodeRun
  <1>4. \A k \in 1..n : Len(e[k]) = Len(e[k - 1]) + len(k) + 3 /\ len(k) \in Nat
    BY <1>1, <1>2, EncodeStepIs DEF RowMore
  <1> DEFINE size(k) == Len(e[k])
  <1>5. size(0) = 2 /\ \A k \in 1..n : size(k) = size(k - 1) + len(k) + 3 /\ len(k) \in Nat /\ len(k) <= 2
    BY <1>1, <1>3, <1>4
  <1>6. size(n) = Len(Encode(q))
    BY <1>2
  <1> HIDE DEF n, len, size
  <1>7. size(n) <= 12
    <2>1. CASE n = 0
      BY <1>5, <2>1
    <2>2. CASE n = 1
      <3>1. 1 \in 1..n /\ 1 - 1 = 0
        BY <2>2
      <3>2. QED BY <1>5, <2>2, <3>1
    <2>3. CASE n = 2
      <3>1. 1 \in 1..n /\ 1 - 1 = 0 /\ 2 \in 1..n /\ 2 - 1 = 1
        BY <2>3
      <3>2. size(1) = 2 + len(1) + 3 /\ size(2) = size(1) + len(2) + 3
            /\ len(1) \in Nat /\ len(2) \in Nat /\ len(1) <= 2 /\ len(2) <= 2
        BY <1>5, <3>1
      <3>3. QED BY <2>3, <3>2
    <2>4. QED BY <1>1, <2>1, <2>2, <2>3
  <1>8. UsizeMax >= 12 /\ UsizeMax \in Nat
    BY RowsAskedAssumption, FormatAssumption
  <1>9. Len(Encode(q)) \in Nat
    <2>1. n \in 0..n
      BY <1>1
    <2>2. e[n] \in Seq(Nat)
      BY <1>2, <2>1 DEF IsEncodeRun, Bytestrings, n
    <2>3. QED BY <1>2, <2>2
  <1>10. QED BY <1>6, <1>7, <1>8, <1>9

\* parse takes exactly the files that encode writes.
THEOREM FilesAreExact == QuestionsSpec => []ExactlyTheFiles
  <1>1. ASSUME Faithful, Answered("rows")
        PROVE  answer.a.error = "none" /\ answer.a.rows = asked.q
    BY <1>1, RowsAnswered, AskedRows, AskedFits, EncodedIsParsed
  <1>2. ASSUME Faithful, Answered("file"), answer.a.error = "none", asked.q # <<>>
        PROVE  Encode(answer.a.rows) = asked.q
    BY <1>2, FileAnswered, BytesAsked, ParsedIsEncoded
  <1>3. Faithful => ExactlyTheFiles
    BY <1>1, <1>2 DEF ExactlyTheFiles
  <1>4. QED BY <1>3, AnswersFaithful, PTL
-----------------------------------------------------------------------------
(* The bytes of a path and its components.                                    *)

\* Where the slashes of s are, how many there are up to i, what ends the name
\* after i, the name, and the n-th slash: what Components looks at.
SlashesOf(s)    == {i \in DOMAIN s : s[i] = Slash}
PlaceIn(s, i)   == Cardinality({j \in SlashesOf(s) : j <= i})
EndsAfter(s, i) == {j \in SlashesOf(s) : j > i} \cup {Len(s) + 1}
EndOfName(s, i) == CHOOSE j \in EndsAfter(s, i) : \A k \in EndsAfter(s, i) : j <= k
NameAfter(s, i) == SubSeq(s, i + 1, EndOfName(s, i) - 1)
SlashAt(s, n)   == CHOOSE i \in SlashesOf(s) : PlaceIn(s, i) = n

LEMMA ComponentsAre ==
    ASSUME NEW s
    PROVE  Components(s) = IF Len(s) = 1 THEN <<>>
                           ELSE [n \in 1..Cardinality(SlashesOf(s)) |-> NameAfter(s, SlashAt(s, n))]
  BY DEF Components, SlashesOf, PlaceIn, EndsAfter, EndOfName, NameAfter, SlashAt

\* The strings at hand: absolute ones.
Absolutes == {s \in Seq(Nat) : s # <<>> /\ s[1] = Slash}

LEMMA SlashesFew ==
    ASSUME NEW s \in Absolutes
    PROVE  /\ Len(s) \in Nat \ {0} /\ SlashesOf(s) \subseteq 1..Len(s) /\ 1 \in SlashesOf(s)
           /\ IsFiniteSet(SlashesOf(s)) /\ Cardinality(SlashesOf(s)) \in Nat
  <1>1. s \in Seq(Nat) /\ s # <<>> /\ s[1] = Slash
    BY DEF Absolutes
  <1>2. Len(s) \in Nat \ {0} /\ DOMAIN s = 1..Len(s)
    BY <1>1
  <1>3. SlashesOf(s) \subseteq 1..Len(s) /\ 1 \in SlashesOf(s)
    BY <1>1, <1>2 DEF SlashesOf
  <1>4. IsFiniteSet(1..Len(s))
    BY <1>2, FS_Interval
  <1>5. IsFiniteSet(SlashesOf(s))
    BY <1>3, <1>4, FS_Subset
  <1>6. QED BY <1>2, <1>3, <1>5, FS_CardinalityType

\* What ends a name is the next slash or the end of the string.
LEMMA NameEnds ==
    ASSUME NEW s \in Absolutes, NEW i \in 1..Len(s)
    PROVE  /\ EndOfName(s, i) \in (i + 1)..(Len(s) + 1)
           /\ EndOfName(s, i) <= Len(s) => EndOfName(s, i) \in SlashesOf(s)
           /\ \A j \in SlashesOf(s) : i < j => EndOfName(s, i) <= j
  <1> DEFINE n == Len(s)
             S == SlashesOf(s)
             E == EndsAfter(s, i)
             e == EndOfName(s, i)
  <1>1. n \in Nat /\ i \in 1..n /\ S \subseteq 1..n
    BY SlashesFew
  <1>2. E = {j \in S : j > i} \cup {n + 1}
    BY DEF EndsAfter
  <1> HIDE DEF n, S, E
  <1>3. E \subseteq Nat /\ E # {}
    <2>1. n + 1 \in E /\ n + 1 \in Nat
      BY <1>1, <1>2
    <2>2. \A j \in S : j \in Nat
      BY <1>1
    <2>3. \A j \in E : j \in Nat
      BY <1>2, <2>1, <2>2
    <2>4. QED BY <2>1, <2>3
  <1>4. \E j \in E : \A k \in E : j <= k
    BY <1>3, LeastElement
  <1>5. e \in E /\ \A k \in E : e <= k
    BY <1>4 DEF EndOfName, E
  <1> HIDE DEF e
  <1>6. e \in (i + 1)..(n + 1)
    BY <1>1, <1>2, <1>5
  <1>7. e <= n => e \in S
    BY <1>1, <1>2, <1>5
  <1>8. \A j \in S : i < j => e <= j
    BY <1>1, <1>2, <1>5
  <1>9. QED BY <1>6, <1>7, <1>8 DEF e, n, S

\* The end of a name is whatever has no slash before it and ends it.
LEMMA EndIs ==
    ASSUME NEW s \in Absolutes, NEW i \in 1..Len(s), NEW j \in (i + 1)..(Len(s) + 1),
           j <= Len(s) => j \in SlashesOf(s),
           \A k \in SlashesOf(s) : i < k => j <= k
    PROVE  EndOfName(s, i) = j
  <1> DEFINE n == Len(s)
             S == SlashesOf(s)
             e == EndOfName(s, i)
  <1>1. n \in Nat /\ i \in 1..n /\ S \subseteq 1..n /\ j \in (i + 1)..(n + 1)
    BY SlashesFew
  <1>2. /\ e \in (i + 1)..(n + 1)
        /\ e <= n => e \in S
        /\ \A k \in S : i < k => e <= k
    BY NameEnds
  <1>3. /\ j <= n => j \in S
        /\ \A k \in S : i < k => j <= k
    OBVIOUS
  <1> HIDE DEF n, S, e
  <1>4. j <= e /\ e <= j
    BY <1>1, <1>2, <1>3
  <1>5. e = j
    BY <1>1, <1>2, <1>4
  <1>6. QED BY <1>5 DEF e

\* Slashes are counted one by one.
LEMMA PlacesCount ==
    ASSUME NEW s \in Absolutes
    PROVE  /\ PlaceIn(s, 1) = 1
           /\ \A i \in SlashesOf(s) : /\ PlaceIn(s, i) \in 1..Cardinality(SlashesOf(s))
                                      /\ EndOfName(s, i) <= Len(s) =>
                                            PlaceIn(s, EndOfName(s, i)) = PlaceIn(s, i) + 1
                                      /\ EndOfName(s, i) > Len(s) =>
                                            PlaceIn(s, i) = Cardinality(SlashesOf(s))
           /\ \A i, j \in SlashesOf(s) : PlaceIn(s, i) = PlaceIn(s, j) => i = j
  <1> DEFINE n == Len(s)
             S == SlashesOf(s)
             upTo(i) == {j \in S : j <= i}
  <1>1. n \in Nat /\ S \subseteq 1..n /\ 1 \in S /\ IsFiniteSet(S) /\ Cardinality(S) \in Nat
    BY SlashesFew
  <1>2. \A i \in S : /\ EndOfName(s, i) \in (i + 1)..(n + 1)
                     /\ EndOfName(s, i) <= n => EndOfName(s, i) \in S
                     /\ \A j \in S : i < j => EndOfName(s, i) <= j
    BY <1>1, NameEnds
  <1>3. \A i : PlaceIn(s, i) = Cardinality(upTo(i))
    BY DEF PlaceIn
  <1>4. \A i : upTo(i) \subseteq S /\ IsFiniteSet(upTo(i)) /\ Cardinality(upTo(i)) \in Nat
               /\ Cardinality(upTo(i)) <= Cardinality(S)
    <2> SUFFICES ASSUME NEW i
                 PROVE  upTo(i) \subseteq S /\ IsFiniteSet(upTo(i)) /\ Cardinality(upTo(i)) \in Nat
                        /\ Cardinality(upTo(i)) <= Cardinality(S)
      OBVIOUS
    <2> DEFINE U == upTo(i)
    <2>1. U \subseteq S
      OBVIOUS
    <2> HIDE DEF U, S
    <2>2. IsFiniteSet(U) /\ Cardinality(U) <= Cardinality(S)
      BY <1>1, <2>1, FS_Subset
    <2>3. QED BY <2>1, <2>2, FS_CardinalityType DEF U
  <1>5. PlaceIn(s, 1) = 1
    <2>1. upTo(1) = {1}
      BY <1>1
    <2>2. Cardinality({1}) = 1
      BY FS_Singleton
    <2> HIDE DEF upTo
    <2>3. QED BY <1>3, <2>1, <2>2
  <1>6. ASSUME NEW i \in S PROVE PlaceIn(s, i) \in 1..Cardinality(S)
    <2>1. i \in upTo(i)
      BY <1>1
    <2>2. Cardinality(upTo(i)) # 0
      BY <1>4, <2>1, FS_EmptySet
    <2>3. PlaceIn(s, i) \in Nat /\ PlaceIn(s, i) <= Cardinality(S) /\ PlaceIn(s, i) # 0
      BY <1>3, <1>4, <2>2
    <2>4. QED BY <1>1, <2>3
  <1>7. ASSUME NEW i \in S, EndOfName(s, i) <= n
        PROVE  PlaceIn(s, EndOfName(s, i)) = PlaceIn(s, i) + 1
    <2> DEFINE e == EndOfName(s, i)
    <2>1. e \in S /\ i < e /\ \A j \in S : i < j => e <= j
      BY <1>1, <1>2, <1>7
    <2> HIDE DEF e, n
    <2>2. upTo(e) = upTo(i) \cup {e} /\ e \notin upTo(i)
      BY <1>1, <2>1
    <2> HIDE DEF upTo
    <2>3. Cardinality(upTo(i) \cup {e}) = Cardinality(upTo(i)) + 1
      BY <1>4, <2>2, FS_AddElement
    <2>4. QED BY <1>3, <2>2, <2>3 DEF e
  <1>8. ASSUME NEW i \in S, EndOfName(s, i) > n PROVE PlaceIn(s, i) = Cardinality(S)
    <2>1. \A j \in S : ~(i < j)
      BY <1>1, <1>2, <1>8
    <2>2. upTo(i) = S
      BY <1>1, <2>1
    <2>3. QED BY <1>3, <2>2
  <1>9. ASSUME NEW i \in S, NEW j \in S, i < j PROVE PlaceIn(s, i) # PlaceIn(s, j)
    <2>1. upTo(i) \subseteq upTo(j) /\ j \in upTo(j) /\ j \notin upTo(i)
      BY <1>1, <1>9
    <2> HIDE DEF upTo
    <2>2. Cardinality(upTo(i)) = Cardinality(upTo(j)) => upTo(i) = upTo(j)
      BY <1>4, <2>1, FS_Subset
    <2>3. QED BY <1>3, <2>1, <2>2
  <1>10. ASSUME NEW i \in S, NEW j \in S, PlaceIn(s, i) = PlaceIn(s, j) PROVE i = j
    <2>1. i \in Nat /\ j \in Nat
      BY <1>1
    <2>2. ~(i < j) /\ ~(j < i)
      BY <1>9, <1>10
    <2>3. QED BY <2>1, <2>2
  <1>11. QED BY <1>5, <1>6, <1>7, <1>8, <1>10

\* How many names, and what stands before the n-th of them, or after the last.
NamesIn(s)    == Cardinality(SlashesOf(s))
BoundOf(s, n) == IF n <= NamesIn(s) THEN SlashAt(s, n) ELSE Len(s) + 1

LEMMA SlashAtIs ==
    ASSUME NEW s \in Absolutes, NEW k \in 1..NamesIn(s)
    PROVE  SlashAt(s, k) \in SlashesOf(s) /\ PlaceIn(s, SlashAt(s, k)) = k
  <1> DEFINE S == SlashesOf(s)
             m == NamesIn(s)
             n == Len(s)
             P == {x \in Nat : x + 1 <= m => \E i \in S : PlaceIn(s, i) = x + 1}
  <1>1. m \in Nat /\ 1 \in S /\ n \in Nat /\ S \subseteq 1..n
    BY SlashesFew DEF NamesIn
  <1>2. /\ PlaceIn(s, 1) = 1
        /\ \A i \in S : /\ EndOfName(s, i) <= n => PlaceIn(s, EndOfName(s, i)) = PlaceIn(s, i) + 1
                        /\ EndOfName(s, i) > n => PlaceIn(s, i) = m
    BY PlacesCount DEF NamesIn
  <1>3. \A i \in S : EndOfName(s, i) \in Nat /\ (EndOfName(s, i) <= n => EndOfName(s, i) \in S)
    BY <1>1, NameEnds
  <1> HIDE DEF S, m, n
  <1>4. 0 \in P
    BY <1>1, <1>2
  <1>5. ASSUME NEW x \in Nat, x \in P PROVE x + 1 \in P
    <2> SUFFICES ASSUME x + 2 <= m PROVE \E i \in S : PlaceIn(s, i) = x + 2
      OBVIOUS
    <2>1. PICK i \in S : PlaceIn(s, i) = x + 1
      BY <1>1, <1>5
    <2>2. EndOfName(s, i) <= n
      BY <1>1, <1>2, <1>3, <2>1
    <2>3. EndOfName(s, i) \in S /\ PlaceIn(s, EndOfName(s, i)) = x + 2
      BY <1>2, <1>3, <2>1, <2>2
    <2>4. QED BY <2>3
  <1>6. Nat \subseteq P
    <2> HIDE DEF P
    <2>1. QED BY <1>4, <1>5, Induction
  <1>7. k - 1 \in Nat /\ (k - 1) + 1 = k /\ k <= m
    BY <1>1 DEF m
  <1>8. \E i \in S : PlaceIn(s, i) = k
    BY <1>6, <1>7
  <1>9. QED BY <1>8 DEF SlashAt, S

LEMMA Bounds ==
    ASSUME NEW s \in Absolutes
    PROVE  /\ NamesIn(s) \in Nat \ {0} /\ BoundOf(s, 1) = 1
           /\ BoundOf(s, NamesIn(s) + 1) = Len(s) + 1
           /\ \A k \in 1..NamesIn(s) : /\ BoundOf(s, k) \in SlashesOf(s) /\ BoundOf(s, k) = SlashAt(s, k)
                                       /\ EndOfName(s, BoundOf(s, k)) = BoundOf(s, k + 1)
  <1> DEFINE S == SlashesOf(s)
             m == NamesIn(s)
             n == Len(s)
             at(k) == SlashAt(s, k)
             end(i) == EndOfName(s, i)
             place(i) == PlaceIn(s, i)
  <1>1. m \in Nat /\ 1 \in S /\ n \in Nat /\ S \subseteq 1..n
    BY SlashesFew DEF NamesIn
  <1>2. /\ place(1) = 1
        /\ \A i \in S : /\ place(i) \in 1..m
                        /\ end(i) <= n => place(end(i)) = place(i) + 1
                        /\ end(i) > n => place(i) = m
        /\ \A i, j \in S : place(i) = place(j) => i = j
    BY PlacesCount DEF NamesIn
  <1>3. \A i \in S : end(i) \in Nat /\ end(i) <= n + 1 /\ (end(i) <= n => end(i) \in S)
    <2>1. \A i \in S : i \in 1..n
      BY <1>1
    <2>2. QED BY <1>1, <2>1, NameEnds
  <1>4. \A k \in 1..m : at(k) \in S /\ place(at(k)) = k
    BY SlashAtIs
  <1>5. \A k : BoundOf(s, k) = IF k <= m THEN at(k) ELSE n + 1
    BY DEF BoundOf
  <1> HIDE DEF S, m, n, at, end, place
  <1>6. m # 0 /\ 1 \in 1..m
    BY <1>1, <1>2
  <1>7. at(1) = 1
    BY <1>1, <1>2, <1>4, <1>6
  <1>8. ASSUME NEW k \in 1..m PROVE end(at(k)) = BoundOf(s, k + 1)
    <2>1. at(k) \in S /\ place(at(k)) = k
      BY <1>4
    <2> DEFINE e == end(at(k))
    <2>2. e \in Nat /\ e <= n + 1 /\ (e > n => m = k)
      BY <1>2, <1>3, <2>1
    <2> HIDE DEF e
    <2>3. CASE k + 1 <= m
      <3>1. k + 1 \in 1..m /\ k # m
        BY <1>1, <2>3
      <3>2. e <= n
        BY <1>1, <2>2, <3>1
      <3>3. end(at(k)) \in S /\ place(end(at(k))) = k + 1
        BY <1>2, <1>3, <2>1, <3>2 DEF e
      <3>4. at(k + 1) \in S /\ place(at(k + 1)) = k + 1
        BY <1>4, <3>1
      <3>5. end(at(k)) = at(k + 1)
        BY <1>2, <3>3, <3>4
      <3>6. QED BY <1>5, <2>3, <3>5
    <2>4. CASE ~(k + 1 <= m)
      <3>1. k = m /\ k + 1 \notin 1..m
        BY <1>1, <2>4
      <3>2. ~(e <= n)
        <4>1. SUFFICES ASSUME e <= n PROVE FALSE
          OBVIOUS
        <4>2. end(at(k)) \in S /\ place(end(at(k))) = k + 1
          BY <1>2, <1>3, <2>1, <4>1 DEF e
        <4>3. QED BY <1>2, <3>1, <4>2
      <3>3. e = n + 1
        BY <1>1, <2>2, <3>2
      <3>4. QED BY <1>5, <2>4, <3>3 DEF e
    <2>5. QED BY <2>3, <2>4
  <1>9. BoundOf(s, 1) = 1 /\ BoundOf(s, m + 1) = n + 1
    BY <1>1, <1>5, <1>6, <1>7
  <1>10. \A k \in 1..m : BoundOf(s, k) = at(k)
    BY <1>1, <1>5
  <1>11. QED BY <1>1, <1>4, <1>6, <1>8, <1>9, <1>10 DEF S, m, n, at, end

\* Every byte is a slash before a name or in one.
LEMMA BoundsCover ==
    ASSUME NEW s \in Absolutes, NEW i \in 1..Len(s)
    PROVE  \E k \in 1..NamesIn(s) : BoundOf(s, k) <= i /\ i < BoundOf(s, k + 1)
  <1> DEFINE m == NamesIn(s)
             b(k) == BoundOf(s, k)
             T == {k \in 1..m : b(k) <= i}
  <1>1. /\ m \in Nat \ {0} /\ b(1) = 1 /\ b(m + 1) = Len(s) + 1
        /\ \A k \in 1..m : b(k) \in Nat
    <2>1. SlashesOf(s) \subseteq Nat
      BY SlashesFew
    <2>2. QED BY <2>1, Bounds
  <1>2. i \in Nat /\ 1 <= i /\ i < Len(s) + 1
    BY SlashesFew
  <1> HIDE DEF m, b
  <1>3. 1 \in T /\ T \subseteq 0..m
    BY <1>1, <1>2
  <1>4. Max(T) \in T /\ \A k \in T : k <= Max(T)
    <2> HIDE DEF T
    <2>1. QED BY <1>1, <1>3, MaxOf
  <1> DEFINE x == Max(T)
  <1> HIDE DEF x
  <1>5. x \in 1..m /\ b(x) <= i /\ x + 1 \notin T
    <2>1. x \in T /\ \A k \in T : k <= x
      BY <1>4 DEF x
    <2>2. QED BY <1>1, <2>1
  <1>6. i < b(x + 1)
    <2>1. CASE x = m
      BY <1>1, <1>2, <2>1
    <2>2. CASE x # m
      <3>1. x + 1 \in 1..m
        BY <1>1, <1>5, <2>2
      <3>2. ~(b(x + 1) <= i) /\ b(x + 1) \in Nat
        BY <1>1, <1>5, <3>1
      <3>3. QED BY <1>2, <3>2
    <2>3. QED BY <2>1, <2>2
  <1>7. QED BY <1>5, <1>6 DEF m, b

LEMMA NameIs ==
    ASSUME NEW s \in Absolutes, NEW k \in 1..NamesIn(s)
    PROVE  /\ BoundOf(s, k) \in 1..Len(s)
           /\ BoundOf(s, k + 1) \in (BoundOf(s, k) + 1)..(Len(s) + 1)
           /\ Piece(NameAfter(s, BoundOf(s, k)), s, BoundOf(s, k) + 1, BoundOf(s, k + 1) - 1)
  <1> DEFINE i == BoundOf(s, k)
             e == BoundOf(s, k + 1)
             n == Len(s)
  <1>1. s \in Seq(Nat) /\ n \in Nat /\ i \in 1..n /\ e = EndOfName(s, i)
    BY SlashesFew, Bounds DEF Absolutes
  <1>2. e \in (i + 1)..(n + 1)
    BY <1>1, NameEnds
  <1>3. NameAfter(s, i) = SubSeq(s, i + 1, e - 1)
    BY <1>1 DEF NameAfter
  <1> HIDE DEF i, e, n
  <1>4. i + 1 \in Nat /\ e - 1 \in Nat /\ i + 1 <= (e - 1) + 1
        /\ \A j \in (i + 1)..(e - 1) : j \in 1..n
    BY <1>1, <1>2
  <1>5. Piece(NameAfter(s, i), s, i + 1, e - 1)
    BY <1>1, <1>3, <1>4, PieceOf DEF n
  <1>6. QED BY <1>1, <1>2, <1>5 DEF i, e, n

LEMMA ComponentIs ==
    ASSUME NEW s \in Absolutes, Len(s) # 1
    PROVE  /\ Len(Components(s)) = NamesIn(s)
           /\ \A k \in 1..NamesIn(s) : Components(s)[k] = NameAfter(s, BoundOf(s, k))
  <1>1. Components(s) = [n \in 1..NamesIn(s) |-> NameAfter(s, SlashAt(s, n))]
    BY ComponentsAre DEF NamesIn
  <1>2. NamesIn(s) \in Nat /\ \A k \in 1..NamesIn(s) : BoundOf(s, k) = SlashAt(s, k)
    BY Bounds
  <1>3. QED BY <1>1, <1>2

\* Below p in bytes: the slashes of p are the first of x, and so are its names.
LEMMA BelowInNames ==
    ASSUME NEW x \in Absolutes, NEW p \in Absolutes, Len(p) # 1,
           Len(p) < Len(x), StartsWith(x, p), x[Len(p) + 1] = Slash
    PROVE  SameOrUnder(Components(x), Components(p))
  <1> DEFINE n == Len(p)
             h == Len(x)
             mp == NamesIn(p)
             mx == NamesIn(x)
             bp(k) == BoundOf(p, k)
             bx(k) == BoundOf(x, k)
             good(k) == k <= mx /\ bx(k) = bp(k)
             P == {k \in Nat : k <= mp => good(k + 1)}
  <1>1. n \in Nat /\ h \in Nat /\ n < h /\ h # 1
    BY SlashesFew
  <1>2. (\A i \in 1..n : x[i] = p[i]) /\ x[n + 1] = Slash
    BY DEF StartsWith
  <1>3. /\ \A j \in 1..n : j \in SlashesOf(x) <=> j \in SlashesOf(p)
        /\ n + 1 \in SlashesOf(x) /\ SlashesOf(x) \subseteq 1..h /\ SlashesOf(p) \subseteq 1..n
    <2>1. x \in Seq(Nat) /\ p \in Seq(Nat)
      BY DEF Absolutes
    <2>2. DOMAIN x = 1..h /\ DOMAIN p = 1..n
      BY <2>1
    <2> HIDE DEF n, h
    <2>3. QED BY <1>1, <1>2, <2>2 DEF SlashesOf
  <1>4. /\ mp \in Nat \ {0} /\ bp(1) = 1
        /\ \A k \in 1..mp : bp(k) \in SlashesOf(p) /\ EndOfName(p, bp(k)) = bp(k + 1)
    BY Bounds
  <1>5. /\ mx \in Nat \ {0} /\ bx(1) = 1 /\ bx(mx + 1) = h + 1
        /\ \A k \in 1..mx : bx(k) \in SlashesOf(x) /\ EndOfName(x, bx(k)) = bx(k + 1)
    BY Bounds
  <1>6. ASSUME NEW i \in SlashesOf(p) PROVE EndOfName(x, i) = EndOfName(p, i) /\ EndOfName(p, i) \in (i + 1)..(n + 1)
    <2> DEFINE j == EndOfName(p, i)
    <2>1. i \in 1..n /\ i \in 1..h
      BY <1>1, <1>3
    <2>2. /\ j \in (i + 1)..(n + 1) /\ (j <= n => j \in SlashesOf(p))
          /\ \A k \in SlashesOf(p) : i < k => j <= k
      BY <2>1, NameEnds
    <2> HIDE DEF n, h, j
    <2>3. j \in (i + 1)..(h + 1) /\ j \in SlashesOf(x)
      <3>1. CASE j <= n
        BY <1>1, <1>3, <2>1, <2>2, <3>1
      <3>2. CASE ~(j <= n)
        <4>1. j = n + 1
          BY <1>1, <2>1, <2>2, <3>2
        <4>2. QED BY <1>1, <1>3, <2>1, <4>1
      <3>3. QED BY <3>1, <3>2
    <2>4. \A k \in SlashesOf(x) : i < k => j <= k
      <3> SUFFICES ASSUME NEW k \in SlashesOf(x), i < k PROVE j <= k
        OBVIOUS
      <3>1. k \in 1..h
        BY <1>3
      <3>2. CASE k <= n
        BY <1>1, <1>3, <2>2, <3>1, <3>2
      <3>3. CASE ~(k <= n)
        BY <1>1, <2>1, <2>2, <3>1, <3>3
      <3>4. QED BY <3>2, <3>3
    <2>5. EndOfName(x, i) = j
      BY <2>1, <2>3, <2>4, EndIs DEF h
    <2>6. QED BY <2>2, <2>5 DEF j
  <1> HIDE DEF n, h, mp, mx, bp, bx
  <1>7. good(1)
    BY <1>4, <1>5
  <1>8. ASSUME NEW k \in 1..mp, good(k) PROVE good(k + 1)
    <2>1. k \in 1..mx /\ k + 1 \in 1..(mx + 1)
      BY <1>4, <1>5, <1>8
    <2>2. bx(k + 1) = bp(k + 1) /\ bp(k + 1) <= n + 1 /\ bp(k + 1) \in Int
      BY <1>3, <1>4, <1>5, <1>6, <1>8, <2>1
    <2>3. k + 1 # mx + 1
      BY <1>1, <1>5, <2>2
    <2>4. k + 1 <= mx
      BY <1>5, <2>1, <2>3
    <2>5. QED BY <2>2, <2>4
  <1>9. \A k \in 1..(mp + 1) : good(k)
    <2> HIDE DEF good
    <2>1. 0 \in P
      BY <1>7
    <2>2. ASSUME NEW k \in Nat, k \in P PROVE k + 1 \in P
      <3>1. k + 1 <= mp => k + 1 \in 1..mp /\ good(k + 1)
        BY <1>4, <2>2
      <3>2. k + 1 <= mp => good((k + 1) + 1)
        BY <1>8, <3>1
      <3>3. QED BY <3>2
    <2> HIDE DEF P
    <2>3. Nat \subseteq P
      BY <2>1, <2>2, Induction
    <2>4. ASSUME NEW k \in 1..(mp + 1) PROVE good(k)
      <3>1. k - 1 \in Nat /\ k - 1 <= mp /\ (k - 1) + 1 = k
        BY <1>4
      <3>2. k - 1 \in P
        BY <2>3, <3>1
      <3>3. good((k - 1) + 1)
        BY <3>1, <3>2 DEF P
      <3>4. QED BY <3>1, <3>3
    <2>5. QED BY <2>4
  <1>10. mp <= mx
    <2>1. mp + 1 \in 1..(mp + 1)
      BY <1>4
    <2>2. mp + 1 <= mx
      BY <1>9, <2>1
    <2>3. QED BY <1>4, <1>5, <2>2
  <1>11. ASSUME NEW k \in 1..mp PROVE Components(x)[k] = Components(p)[k]
    <2> DEFINE i == bp(k)
               e == bp(k + 1)
               s == NameAfter(p, i)
               t == NameAfter(x, i)
    <2>1. k \in 1..mx /\ k \in 1..(mp + 1) /\ k + 1 \in 1..(mp + 1)
      BY <1>4, <1>5, <1>10
    <2>2. bx(k) = i /\ bx(k + 1) = e
      BY <1>9, <2>1
    <2>3. /\ i \in 1..n /\ e \in (i + 1)..(n + 1)
          /\ Piece(s, p, i + 1, e - 1)
      BY NameIs DEF n, bp, mp
    <2>4. Piece(t, x, i + 1, e - 1)
      BY <2>1, <2>2, NameIs DEF bx, mx
    <2> HIDE DEF i, e, s, t
    <2>5. /\ (e - 1) - (i + 1) + 1 \in Nat
          /\ \A j \in 1..((e - 1) - (i + 1) + 1) : (i + 1) + j - 1 \in 1..n
      BY <1>1, <2>3
    <2>6. /\ s \in Seq(Nat) /\ t \in Seq(Nat) /\ Len(s) = Len(t)
          /\ \A j \in 1..Len(s) : s[j] = t[j]
      BY <1>2, <2>3, <2>4, <2>5 DEF Piece
    <2>7. s = t
      BY <2>6, SeqEqual
    <2>8. Components(p)[k] = s /\ Components(x)[k] = t
      BY <1>1, <2>1, <2>2, ComponentIs DEF s, t, i, bp, bx, mp, mx, h
    <2>9. QED BY <2>7, <2>8
  <1>12. Len(Components(p)) = mp /\ Len(Components(x)) = mx
    BY <1>1, ComponentIs DEF mp, mx, h
  <1>13. QED BY <1>10, <1>11, <1>12 DEF SameOrUnder

\* Below p in names: x has the bytes of p, and after them nothing or a slash.
LEMMA NamesInBelow ==
    ASSUME NEW x \in Absolutes, NEW p \in Absolutes, Len(p) # 1,
           SameOrUnder(Components(x), Components(p))
    PROVE  PathIsSameOrUnder(x, p)
  <1> DEFINE n == Len(p)
             h == Len(x)
             mp == NamesIn(p)
             mx == NamesIn(x)
             bp(k) == BoundOf(p, k)
             bx(k) == BoundOf(x, k)
             same(k) == bx(k) = bp(k)
             P == {k \in Nat : k <= mp => same(k + 1)}
  <1>1. /\ n \in Nat \ {0} /\ h \in Nat \ {0} /\ mp \in Nat \ {0} /\ mx \in Nat \ {0}
        /\ bp(1) = 1 /\ bx(1) = 1 /\ bp(mp + 1) = n + 1 /\ bx(mx + 1) = h + 1
    BY SlashesFew, Bounds
  <1>2. Len(Components(p)) = mp /\ \A k \in 1..mp : Components(p)[k] = NameAfter(p, bp(k))
    BY ComponentIs
  <1>3. mp <= Len(Components(x)) /\ \A k \in 1..mp : Components(x)[k] = Components(p)[k]
    BY <1>2 DEF SameOrUnder
  <1>4. h # 1
    <2> SUFFICES ASSUME h = 1 PROVE FALSE
      OBVIOUS
    <2>1. Components(x) = <<>>
      BY ComponentsAre
    <2>2. Len(Components(x)) = 0
      BY <2>1
    <2> HIDE DEF mp
    <2>3. QED BY <1>1, <1>3, <2>2
  <1>5. mp <= mx /\ \A k \in 1..mx : Components(x)[k] = NameAfter(x, bx(k))
    BY <1>3, <1>4, ComponentIs
  <1>6. \A k \in 1..mp : /\ bp(k) \in 1..n /\ bp(k + 1) \in (bp(k) + 1)..(n + 1)
                         /\ Piece(NameAfter(p, bp(k)), p, bp(k) + 1, bp(k + 1) - 1)
                         /\ bp(k) \in SlashesOf(p)
    BY NameIs, Bounds
  <1>7. \A k \in 1..mx : /\ bx(k) \in 1..h /\ bx(k + 1) \in (bx(k) + 1)..(h + 1)
                         /\ Piece(NameAfter(x, bx(k)), x, bx(k) + 1, bx(k + 1) - 1)
                         /\ bx(k) \in SlashesOf(x)
    BY NameIs, Bounds
  <1>8. x \in Seq(Nat) /\ p \in Seq(Nat)
    BY DEF Absolutes
  <1>9. (\A i \in SlashesOf(x) : x[i] = Slash) /\ (\A i \in SlashesOf(p) : p[i] = Slash)
    BY DEF SlashesOf
  <1> HIDE DEF n, h, mp, mx, bp, bx
  \* The names have the same bytes, so the next bounds are the same too.
  <1>10. ASSUME NEW k \in 1..mp, same(k)
         PROVE  same(k + 1) /\ \A i \in bp(k)..(bp(k + 1) - 1) : x[i] = p[i]
    <2> DEFINE s == NameAfter(p, bp(k))
               t == NameAfter(x, bx(k))
               b == bp(k)
               e == bp(k + 1)
               f == bx(k + 1)
    <2>1. k \in 1..mx
      BY <1>1, <1>5
    <2>2. s = t
      BY <1>2, <1>3, <1>5, <2>1
    <2>3. /\ b \in 1..n /\ e \in (b + 1)..(n + 1) /\ Piece(s, p, b + 1, e - 1) /\ b \in SlashesOf(p)
      BY <1>6
    <2>4. /\ b \in 1..h /\ f \in (b + 1)..(h + 1) /\ Piece(t, x, b + 1, f - 1) /\ b \in SlashesOf(x)
      BY <1>7, <1>10, <2>1
    <2> HIDE DEF s, t, b, e, f
    <2>5. Len(s) = (e - 1) - (b + 1) + 1 /\ Len(t) = (f - 1) - (b + 1) + 1
      BY <2>3, <2>4 DEF Piece
    <2>6. e = f
      BY <1>1, <2>2, <2>3, <2>4, <2>5
    <2>7. \A j \in 1..((e - 1) - (b + 1) + 1) : p[b + 1 + j - 1] = x[b + 1 + j - 1]
      BY <2>2, <2>3, <2>4, <2>6 DEF Piece
    <2>8. ASSUME NEW i \in b..(e - 1) PROVE x[i] = p[i]
      <3>1. CASE i = b
        BY <1>9, <2>3, <2>4, <3>1
      <3>2. CASE i # b
        <4>1. i - b \in 1..((e - 1) - (b + 1) + 1) /\ b + 1 + (i - b) - 1 = i
          BY <1>1, <2>3, <3>2
        <4>2. QED BY <2>7, <4>1
      <3>3. QED BY <3>1, <3>2
    <2>9. QED BY <2>6, <2>8 DEF b, e, f
  <1>11. \A k \in 1..(mp + 1) : same(k)
    <2>1. same(1)
      BY <1>1
    <2> HIDE DEF same
    <2>2. 0 \in P
      BY <2>1
    <2>3. ASSUME NEW k \in Nat, k \in P PROVE k + 1 \in P
      <3>1. k + 1 <= mp => k + 1 \in 1..mp /\ same(k + 1)
        BY <1>1, <2>3
      <3>2. k + 1 <= mp => same((k + 1) + 1)
        BY <1>10, <3>1
      <3>3. QED BY <3>2
    <2> HIDE DEF P
    <2>4. Nat \subseteq P
      BY <2>2, <2>3, Induction
    <2>5. ASSUME NEW k \in 1..(mp + 1) PROVE same(k)
      <3>1. k - 1 \in Nat /\ k - 1 <= mp /\ (k - 1) + 1 = k
        BY <1>1
      <3>2. k - 1 \in P
        BY <2>4, <3>1
      <3>3. same((k - 1) + 1)
        BY <3>1, <3>2 DEF P
      <3>4. QED BY <3>1, <3>3
    <2>6. QED BY <2>5
  <1>12. ASSUME NEW i \in 1..n PROVE x[i] = p[i]
    <2>1. PICK k \in 1..mp : bp(k) <= i /\ i < bp(k + 1)
      BY BoundsCover DEF bp, mp, n
    <2>2. i \in bp(k)..(bp(k + 1) - 1) /\ same(k)
      BY <1>1, <1>6, <1>11, <2>1
    <2>3. QED BY <1>10, <2>2
  <1>13. bx(mp + 1) = n + 1
    <2>1. mp + 1 \in 1..(mp + 1)
      BY <1>1
    <2>2. QED BY <1>1, <1>11, <2>1
  <1>14. CASE mp = mx
    <2>1. Len(x) = Len(p) /\ \A i \in 1..Len(p) : x[i] = p[i]
      BY <1>1, <1>12, <1>13, <1>14 DEF n, h
    <2>2. x = p
      BY <1>8, <2>1, SeqEqual
    <2>3. QED BY <2>2 DEF PathIsSameOrUnder
  <1>15. CASE mp # mx
    <2>1. mp + 1 \in 1..mx
      BY <1>1, <1>5, <1>15
    <2>2. n + 1 \in 1..h /\ x[n + 1] = Slash
      BY <1>7, <1>9, <1>13, <2>1
    <2>3. n < h
      BY <1>1, <2>2
    <2>4. StartsWith(x, p) /\ Len(p) < Len(x) /\ x[Len(p) + 1] = Slash
      BY <1>1, <1>12, <2>2, <2>3 DEF StartsWith, n, h
    <2>5. QED BY <2>4 DEF PathIsSameOrUnder
  <1>16. QED BY <1>14, <1>15

\* For all canonical paths, path_is_same_or_under on their bytes is the
\* component-wise relation that the models of the stores and of the indexer use;
\* the prefix "/" is the exception.
THEOREM BytesAreComponents ==
    ASSUME NEW x \in Seq(Nat), NEW p \in Seq(Nat), Canonical(x), Canonical(p), p # <<Slash>>
    PROVE  PathIsSameOrUnder(x, p) <=> SameOrUnder(Components(x), Components(p))
  <1>1. x \in Absolutes /\ p \in Absolutes
    BY DEF Canonical, Absolutes
  <1>2. Len(p) # 1
    <2> SUFFICES ASSUME Len(p) = 1 PROVE FALSE
      OBVIOUS
    <2>1. p[1] = Slash
      BY DEF Canonical
    <2>2. p = <<Slash>>
      BY <2>1
    <2>3. QED BY <2>2
  <1>3. SameOrUnder(Components(x), Components(p)) => PathIsSameOrUnder(x, p)
    BY <1>1, <1>2, NamesInBelow
  <1>4. CASE x = p
    <2>1. Len(Components(p)) = NamesIn(p) /\ NamesIn(p) \in Nat
      BY <1>1, <1>2, ComponentIs, Bounds
    <2>2. SameOrUnder(Components(x), Components(p))
      BY <1>4, <2>1 DEF SameOrUnder
    <2>3. QED BY <1>4, <2>2 DEF PathIsSameOrUnder
  <1>5. CASE x # p
    <2>1. PathIsSameOrUnder(x, p) => SameOrUnder(Components(x), Components(p))
      BY <1>1, <1>2, <1>5, BelowInNames DEF PathIsSameOrUnder
    <2>2. QED BY <1>3, <2>1
  <1>6. QED BY <1>4, <1>5

\* Both stores answer for canonical paths by components.
THEOREM StoresAnswerByComponents == RangeSpec => []ComponentWise
  <1>1. ASSUME StoresInv, Canonical(path), Canonical(prefix), prefix # <<Slash>>,
               NEW answered \in {mem, sqlite} \ {"unasked"}
        PROVE  answered = "under" <=> SameOrUnder(Components(path), Components(prefix))
    <2>1. path \in Seq(Nat) /\ prefix \in Seq(Nat)
      BY <1>1 DEF StoresInv
    <2>2. PathIsSameOrUnder(path, prefix) <=> SameOrUnder(Components(path), Components(prefix))
      BY <1>1, <2>1, BytesAreComponents
    <2>3. PathIsSameOrUnder(path, prefix) <=> InRange(path, prefix)
      BY <2>1, RangeIsSubtree
    <2>4. answered = "under" <=> PathIsSameOrUnder(path, prefix)
      BY <1>1, <2>3 DEF StoresInv
    <2>5. QED BY <2>2, <2>4
  <1>2. StoresInv => ComponentWise
    BY <1>1 DEF ComponentWise
  <1>3. QED BY <1>2, StoresStay, PTL
-----------------------------------------------------------------------------
(* The composition.                                                           *)

\* Whoever asks the questions, the pipeline and the stores take their own steps
\* or none: what is proved of their specifications holds here.
THEOREM AskedOneByOne == QuestionsSpec => Spec /\ RangeSpec
  <1>1. QuestionsInit => Init /\ RangeInit
    BY DEF QuestionsInit
  <1>2. ASSUME [QuestionsNext]_<<vars, rangeVars, pureVars>>
        PROVE  [Next]_vars /\ [RangeNext]_rangeVars
    <2>1. CASE UNCHANGED <<vars, rangeVars, pureVars>>
      BY <2>1
    <2>2. CASE Next /\ UNCHANGED <<rangeVars, pureVars>>
      BY <2>2
    <2>3. CASE RangeNext /\ UNCHANGED <<vars, pureVars>>
      BY <2>3
    <2>4. CASE AskPure /\ UNCHANGED <<vars, rangeVars>>
      BY <2>4
    <2>5. QED BY <1>2, <2>1, <2>2, <2>3, <2>4 DEF QuestionsNext
  <1>3. QED BY <1>1, <1>2, PTL DEF QuestionsSpec, Spec, RangeSpec

\* The two subtree tests, asked among the other questions.
THEOREM SubtreesWhoeverAsks == QuestionsSpec => []StoresAgree /\ []ComponentWise
  BY AskedOneByOne, StoresAnswerAlike, StoresAnswerByComponents, PTL

\* The ranking, asked among the other questions.
THEOREM RankingWhoeverAsks == QuestionsSpec => []BestFirst /\ []NoFlood /\ []CounterAgrees
  <1>1. Spec => []BestFirst
    BY PipelinesAssumption, ShippedIsBestFirst
  <1>2. Spec => []NoFlood
    BY PipelinesAssumption, NoFloodAtLast
  <1>3. Spec => []CounterAgrees
    BY PipelinesAssumption, LogAndCounterAgree
  <1>4. QED BY <1>1, <1>2, <1>3, AskedOneByOne, PTL
=============================================================================
