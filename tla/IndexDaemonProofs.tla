-------------------------- MODULE IndexDaemonProofs --------------------------
(* Machine-checked proofs about the daemon, for every file tree, every set   *)
(* of roots and every bound.                                                 *)
EXTENDS IndexDaemon, FiniteSetTheorems, TLAPS


-----------------------------------------------------------------------------
(* Facts about paths.                                                        *)

LEMMA PathIsSeq == ASSUME NEW p \in Paths
                   PROVE  p \in Seq(STRING) /\ Len(p) \in Nat /\ Len(p) > 0
  BY PathsAssumption

LEMMA RootIsPath == ASSUME NEW r \in Roots PROVE r \in Paths
  BY PathsAssumption

\* Two paths, one at or below the other and no longer, are the same path.
LEMMA SameLength ==
    ASSUME NEW p \in Paths, NEW q \in Paths, SameOrUnder(q, p), Len(q) = Len(p)
    PROVE  q = p
  BY PathIsSeq DEF SameOrUnder

LEMMA UnderTransitive ==
    ASSUME NEW p \in Paths, NEW q \in Paths, NEW s \in Paths,
           SameOrUnder(p, q), SameOrUnder(q, s)
    PROVE  SameOrUnder(p, s)
  BY PathIsSeq DEF SameOrUnder

LEMMA StrictTransitive ==
    ASSUME NEW p \in Paths, NEW q \in Paths, NEW s \in Paths,
           SameOrUnder(p, q), StrictlyUnder(q, s)
    PROVE  StrictlyUnder(p, s)
  BY PathIsSeq, UnderTransitive DEF SameOrUnder, StrictlyUnder

\* The ancestors of a path form a chain.
LEMMA AncestorsComparable ==
    ASSUME NEW a \in Paths, NEW b \in Paths, NEW p \in Paths,
           SameOrUnder(a, b), SameOrUnder(a, p), ~SameOrUnder(b, p)
    PROVE  StrictlyUnder(p, b)
  BY PathIsSeq DEF SameOrUnder, StrictlyUnder

\* What walk_root takes from a directory is what apply_event_path would admit.
LEMMA ChildAdmissible ==
    ASSUME NEW r \in Roots, NEW d \in Paths, d = r \/ Admissible(r, d),
           Len(d) - Len(r) < MaxDepth[r],
           NEW c \in WalkChildren(d)
    PROVE  c \in Paths /\ Admissible(r, c)
  <1>1. c \in Paths /\ SameOrUnder(c, d) /\ Len(c) = Len(d) + 1 /\ c[Len(c)] \notin SkippedNames
    BY DEF WalkChildren, ChildrenIn, FileName
  <1>2. r \in Paths /\ SameOrUnder(d, r) /\ ~SkipsBelow(r, d)
    BY RootIsPath, PathIsSeq DEF Admissible, StrictlyUnder, SameOrUnder, SkipsBelow
  <1>3. StrictlyUnder(c, r)
    <2>1. SameOrUnder(c, r)
      BY <1>1, <1>2, UnderTransitive
    <2>2. Len(r) <= Len(d) /\ Len(r) \in Nat /\ Len(d) \in Nat
      BY <1>2, PathIsSeq DEF SameOrUnder
    <2>3. QED BY <2>1, <2>2, <1>1 DEF StrictlyUnder
  <1>4. ~SkipsBelow(r, c)
    <2>1. SUFFICES ASSUME NEW i \in (Len(r) + 1)..Len(c) PROVE c[i] \notin SkippedNames
      BY DEF SkipsBelow
    <2>2. CASE i = Len(c)
      BY <2>2, <1>1
    <2>3. CASE i # Len(c)
      <3>1. i \in 1..Len(d) /\ i \in (Len(r) + 1)..Len(d)
        BY <2>3, <1>1, <1>2, PathIsSeq
      <3>2. c[i] = d[i]
        BY <3>1, <1>1 DEF SameOrUnder
      <3>3. QED BY <3>1, <3>2, <1>2 DEF SkipsBelow
    <2>4. QED BY <2>2, <2>3
  <1>5. Len(c) - Len(r) <= MaxDepth[r]
    BY <1>1, <1>2, PathIsSeq, BoundsAssumption
  <1>6. QED BY <1>1, <1>3, <1>4, <1>5 DEF Admissible
-----------------------------------------------------------------------------
(* Type correctness.                                                         *)

LEMMA ReadsArePairs ==
    \A r \in Roots, d \in Paths : Reads(r, d) \subseteq Roots \X Paths
  BY DEF Reads, WalkChildren, ChildrenIn

LEMMA WalksArePairs == \A rs \in SUBSET Roots : Walks(rs) \subseteq Roots \X Paths
  BY PathsAssumption DEF Walks

LEMMA NoneIsFewer == Cardinality({}) < MaxPending
  BY FS_EmptySet, BoundsAssumption

LEMMA InitType == Init => TypeOK
  <1> SUFFICES ASSUME Init PROVE TypeOK
    OBVIOUS
  <1>1. kind \in [Paths -> Kinds]
    BY InitKindAssumption DEF Init
  <1>2. fsOps \in 0..MaxFsOps /\ crashes \in 0..MaxCrashes
    BY BoundsAssumption DEF Init
  <1>3. stack \subseteq Roots \X Paths /\ found \subseteq Roots \X Paths
    BY WalksArePairs DEF Init
  <1>4. QED BY <1>1, <1>2, <1>3, NoneIsFewer DEF Init, TypeOK

LEMMA FileSystemType == TypeOK /\ FileSystem => TypeOK'
  <1> SUFFICES ASSUME TypeOK, FileSystem PROVE TypeOK'
    OBVIOUS
  <1> USE DEF TypeOK, passVars, gateVars, watchVars, fsVars
  <1>1. ASSUME NEW p \in Paths, NEW k \in [Paths -> Kinds], ChangeFs(p, k),
               NEW gone \in SUBSET Roots, NEW fresh \in SUBSET Roots,
               DirTimes(p, gone, fresh), watched' \subseteq watched, degraded' \subseteq degraded
        PROVE  TypeOK'
    BY <1>1, BoundsAssumption DEF ChangeFs, Observe, Emit, DirTimes
  <1>2. ASSUME NEW p \in Paths, NEW k \in {"dir", "file", "link"}, Create(p, k)
        PROVE  TypeOK'
    BY <1>2, <1>1 DEF Create, Kinds
  <1>3. ASSUME NEW p \in Paths, MoveIn(p) PROVE TypeOK'
    <2>1. [q \in Paths |-> IF SameOrUnder(q, p) THEN "dir" ELSE kind[q]] \in [Paths -> Kinds]
      BY DEF Kinds
    <2>2. Subtree(Roots, p) \subseteq Roots
      BY DEF Subtree
    <2>3. PICK fresh \in SUBSET Subtree(Roots, p) : DirTimes(p, Subtree(Roots, p), fresh)
      BY <1>3 DEF MoveIn
    <2>4. QED BY <1>1, <1>3, <2>1, <2>2, <2>3 DEF MoveIn
  <1>4. ASSUME NEW p \in Paths, Remove(p) PROVE TypeOK'
    <2> DEFINE k == [q \in Paths |-> IF SameOrUnder(q, p) THEN "absent" ELSE kind[q]]
    <2>1. k \in [Paths -> Kinds]
      BY DEF Kinds
    <2>2. Subtree(Roots, p) \in SUBSET Roots /\ {} \in SUBSET Roots
      BY DEF Subtree
    <2>3. /\ ChangeFs(p, k) /\ DirTimes(p, Subtree(Roots, p), {})
          /\ watched' \subseteq watched /\ degraded' \subseteq degraded
      BY <1>4 DEF Remove
    <2> HIDE DEF k
    <2>4. QED BY <1>1, <2>1, <2>2, <2>3
  <1>5. ASSUME NEW p \in Paths, Chmod(p) PROVE TypeOK'
    <2>1. \A x \in {"dir", "locked"} : [kind EXCEPT ![p] = x] \in [Paths -> Kinds]
      BY DEF Kinds
    <2>2. PICK k \in [Paths -> Kinds] : ChangeFs(p, k)
      BY <1>5, <2>1 DEF Chmod
    <2>3. QED BY <1>5, <2>2, BoundsAssumption DEF Chmod, ChangeFs, Observe, Emit
  <1>6. ASSUME NEW p \in Busy, WriteBusy(p) PROVE TypeOK'
    BY <1>6, PathsAssumption DEF WriteBusy, Emit
  <1>7. QED BY <1>2, <1>3, <1>4, <1>5, <1>6 DEF FileSystem

LEMMA PassType ==
    ASSUME TypeOK,
           WalkStep \/ WalkDone \/ IndexNext \/ UpsertFound \/ ListKnown
             \/ PruneLook \/ PruneDone \/ MarkWalked \/ GateCheck
    PROVE  TypeOK'
  <1> USE DEF TypeOK, passVars, gateVars, watchVars, fsVars
  <1>1. CASE WalkStep
    <2>1. PICK w \in stack :
             /\ stack' = (stack \ {w}) \cup Reads(w[1], w[2])
             /\ found' = found \cup Reads(w[1], w[2])
             /\ dirty' = dirty \ ({w[1]} \cap {w[2]})
      BY <1>1 DEF WalkStep
    <2>2. Reads(w[1], w[2]) \subseteq Roots \X Paths
      BY ReadsArePairs
    <2>3. stack' \subseteq Roots \X Paths /\ found' \subseteq Roots \X Paths
          /\ dirty' \subseteq Roots
      BY <2>1, <2>2
    <2>4. QED BY <1>1, <2>3 DEF WalkStep
  <1>2. CASE WalkDone
    BY <1>2 DEF WalkDone
  <1>3. CASE IndexNext
    BY <1>3 DEF IndexNext
  <1>4. CASE UpsertFound
    BY <1>4 DEF UpsertFound
  <1>5. CASE ListKnown
    BY <1>5 DEF ListKnown, Subtree
  <1>6. CASE PruneLook
    BY <1>6 DEF PruneLook, NoAct
  <1>7. CASE PruneDone
    BY <1>7 DEF PruneDone
  <1>8. CASE MarkWalked
    BY <1>8 DEF MarkWalked
  <1>9. CASE GateCheck
    <2>1. {r \in Roots : Stale(r)} \in SUBSET Roots
      OBVIOUS
    <2>2. QED BY <1>9, <2>1, WalksArePairs DEF GateCheck
  <1>10. QED BY <1>1, <1>2, <1>3, <1>4, <1>5, <1>6, <1>7, <1>8, <1>9

LEMMA LoopType ==
    ASSUME TypeOK,
           WatchRoot \/ EnterLoop \/ Receive \/ BackendError \/ QuietTimeout
             \/ ApplyLook \/ SecondLook \/ Write \/ ApplyDone
    PROVE  TypeOK'
  <1> USE DEF TypeOK, passVars, gateVars, watchVars, fsVars
  <1>1. CASE WatchRoot
    BY <1>1 DEF WatchRoot
  <1>2. CASE EnterLoop
    BY <1>2 DEF EnterLoop
  <1>3. CASE Receive
    <2>1. PICK p \in channel :
             /\ channel' = channel \ {p}
             /\ IF Cardinality(pending \cup {p}) < MaxPending
                THEN pending' = pending \cup {p} /\ UNCHANGED <<pc, batch>>
                ELSE pending' = {} /\ batch' = pending \cup {p} /\ pc' = "apply"
      BY <1>3 DEF Receive
    <2>2. p \in Paths
      OBVIOUS
    <2>3. pending' \subseteq Paths /\ Cardinality(pending') < MaxPending /\ batch' \subseteq Paths
      BY <2>1, <2>2, NoneIsFewer
    <2>4. QED BY <1>3, <2>1, <2>3 DEF Receive
  <1>4. CASE BackendError
    BY <1>4 DEF BackendError
  <1>5. CASE QuietTimeout
    BY <1>5, NoneIsFewer DEF QuietTimeout
  <1>6. CASE ApplyLook
    BY <1>6 DEF ApplyLook, NoAct
  <1>7. CASE SecondLook
    BY <1>7 DEF SecondLook, NoAct
  <1>8. CASE Write
    BY <1>8 DEF Write, NoAct, Subtree
  <1>9. CASE ApplyDone
    BY <1>9 DEF ApplyDone
  <1>10. QED BY <1>1, <1>2, <1>3, <1>4, <1>5, <1>6, <1>7, <1>8, <1>9

LEMMA ProcessType ==
    ASSUME TypeOK,
           (\E r \in Roots : IntervalElapses(r)) \/ GateTick \/ Crash \/ Restart
    PROVE  TypeOK'
  <1> USE DEF TypeOK, passVars, gateVars, watchVars, fsVars
  <1>1. ASSUME NEW r \in Roots, IntervalElapses(r) PROVE TypeOK'
    BY <1>1 DEF IntervalElapses
  <1>2. CASE GateTick
    BY <1>2 DEF GateTick
  <1>3. CASE Crash
    <2>1. crashes' \in 0..MaxCrashes
      BY <1>3, BoundsAssumption DEF Crash
    <2>2. QED BY <1>3, <2>1, NoneIsFewer DEF Crash
  <1>4. CASE Restart
    BY <1>4, WalksArePairs DEF Restart
  <1>5. QED BY <1>1, <1>2, <1>3, <1>4

LEMMA StutterType == TypeOK /\ UNCHANGED vars => TypeOK'
  BY DEF TypeOK, vars, passVars, gateVars, watchVars, fsVars

LEMMA NextType == TypeOK /\ [Next]_vars => TypeOK'
  BY FileSystemType, PassType, LoopType, ProcessType, StutterType DEF Next, Daemon

\* The daemon's state, the store and the filesystem keep their types.
THEOREM TypeCorrect == Spec => []TypeOK
  BY InitType, NextType, PTL DEF Spec
-----------------------------------------------------------------------------
(* Every row is admissible.  The rows come from two places that decide it    *)
(* differently: the walk, which cuts at ignored names and at the depth as it *)
(* descends, and the event path, which is judged whole.  The invariant says  *)
(* what each of them holds before the row is written.                        *)

Rightful(p) == \E r \in Roots : Admissible(r, p)

Walked ==
    /\ \A w \in stack : w[2] = w[1] \/ Admissible(w[1], w[2])
    /\ \A w \in found : Admissible(w[1], w[2])

Decided == act.op \in {"upsert", "second_look"} => Rightful(act.path)

AdmissibleInv == Walked /\ Decided /\ DiscoveredAdmissible

LEMMA ReadsAdmissible ==
    ASSUME NEW r \in Roots, NEW d \in Paths, d = r \/ Admissible(r, d),
           NEW w \in Reads(r, d)
    PROVE  Admissible(w[1], w[2])
  <1>1. PICK c \in WalkChildren(d) : w = <<r, c>>
    BY DEF Reads
  <1>2. ~(Len(d) - Len(r) >= MaxDepth[r])
    BY DEF Reads
  <1>3. Len(d) - Len(r) < MaxDepth[r]
    BY <1>2, PathIsSeq, RootIsPath, BoundsAssumption
  <1>4. QED BY <1>1, <1>3, ChildAdmissible

LEMMA InitAdmissible == Init => AdmissibleInv
  BY DEF Init, AdmissibleInv, Walked, Decided, DiscoveredAdmissible, Walks, NoAct

LEMMA AdmissibleUnchanged ==
    AdmissibleInv /\ UNCHANGED <<stack, found, act, discovered>> => AdmissibleInv'
  BY DEF AdmissibleInv, Walked, Decided, DiscoveredAdmissible, Rightful, Admissible

LEMMA NextAdmissible == TypeOK /\ AdmissibleInv /\ [Next]_vars => AdmissibleInv'
  <1> SUFFICES ASSUME TypeOK, AdmissibleInv, [Next]_vars PROVE AdmissibleInv'
    OBVIOUS
  <1> USE DEF AdmissibleInv, Walked, Decided, DiscoveredAdmissible, Rightful
  <1>1. CASE FileSystem
    <2>1. UNCHANGED <<stack, found, act, discovered>>
      BY <1>1 DEF FileSystem, Create, MoveIn, Remove, Chmod, WriteBusy, ChangeFs, passVars
    <2>2. QED BY <2>1, AdmissibleUnchanged
  <1>2. CASE WalkStep
    <2>1. PICK w \in stack :
             /\ stack' = (stack \ {w}) \cup Reads(w[1], w[2])
             /\ found' = found \cup Reads(w[1], w[2])
      BY <1>2 DEF WalkStep
    <2>2. w[1] \in Roots /\ w[2] \in Paths /\ (w[2] = w[1] \/ Admissible(w[1], w[2]))
      BY DEF TypeOK
    <2>3. \A v \in Reads(w[1], w[2]) : Admissible(v[1], v[2])
      BY <2>2, ReadsAdmissible
    <2>4. UNCHANGED <<act, discovered>>
      BY <1>2 DEF WalkStep
    <2>5. QED BY <2>1, <2>3, <2>4
  <1>3. CASE IndexNext \/ WalkDone \/ ListKnown \/ PruneDone \/ MarkWalked
    BY <1>3, AdmissibleUnchanged
    DEF IndexNext, WalkDone, ListKnown, PruneDone, MarkWalked, passVars
  <1>4. CASE UpsertFound
    <2>1. PICK w \in found : discovered' = discovered \cup {w[2]} /\ found' = found \ {w}
      BY <1>4 DEF UpsertFound
    <2>2. w[1] \in Roots /\ Admissible(w[1], w[2])
      BY DEF TypeOK
    <2>3. UNCHANGED <<stack, act>>
      BY <1>4 DEF UpsertFound
    <2>4. QED BY <2>1, <2>2, <2>3
  <1>5. CASE PruneLook
    <2>1. act'.op \notin {"upsert", "second_look"} /\ UNCHANGED <<stack, found, discovered>>
      BY <1>5 DEF PruneLook, NoAct
    <2>2. QED BY <2>1
  <1>6. CASE GateCheck
    <2>1. \A w \in Walks({r \in Roots : Stale(r)}) : w[2] = w[1]
      BY DEF Walks
    <2>2. stack' = stack \/ stack' = Walks({r \in Roots : Stale(r)})
      BY <1>6 DEF GateCheck
    <2>3. UNCHANGED <<found, act, discovered>>
      BY <1>6 DEF GateCheck
    <2>4. QED BY <2>1, <2>2, <2>3
  <1>7. CASE WatchRoot \/ EnterLoop \/ Receive \/ BackendError \/ QuietTimeout \/ ApplyDone
    BY <1>7, AdmissibleUnchanged
    DEF WatchRoot, EnterLoop, Receive, BackendError, QuietTimeout, ApplyDone, passVars
  <1>8. CASE ApplyLook
    <2>1. act' = NoAct \/ Rightful(act'.path)
      BY <1>8 DEF ApplyLook, IsDeepestRoot, RootsOf
    <2>2. UNCHANGED <<stack, found, discovered>>
      BY <1>8 DEF ApplyLook, passVars
    <2>3. QED BY <2>1, <2>2 DEF NoAct
  <1>9. CASE SecondLook
    <2>1. act'.op \notin {"upsert", "second_look"}
      BY <1>9 DEF SecondLook, NoAct, TypeOK
    <2>2. UNCHANGED <<stack, found, discovered>>
      BY <1>9 DEF SecondLook, passVars
    <2>3. QED BY <2>1, <2>2
  <1>10. CASE Write
    <2>1. \A p \in discovered' : p \in discovered \/ (act.op = "upsert" /\ p = act.path)
      BY <1>10 DEF Write
    <2>2. act'.op \notin {"upsert", "second_look"} /\ UNCHANGED <<stack, found>>
      BY <1>10 DEF Write, NoAct, passVars
    <2>3. QED BY <2>1, <2>2
  <1>11. CASE (\E r \in Roots : IntervalElapses(r)) \/ GateTick
    BY <1>11, AdmissibleUnchanged DEF IntervalElapses, GateTick, passVars
  <1>12. CASE Crash
    BY <1>12 DEF Crash, NoAct
  <1>13. CASE Restart
    BY <1>13 DEF Restart, Walks
  <1>14. CASE UNCHANGED vars
    BY <1>14, AdmissibleUnchanged DEF vars, passVars
  <1>15. QED BY <1>1, <1>2, <1>3, <1>4, <1>5, <1>6, <1>7, <1>8, <1>9, <1>10, <1>11,
               <1>12, <1>13, <1>14 DEF Next, Daemon

\* Whatever the tree, the roots and the bounds: no row outside them.
THEOREM RowsAdmissible == Spec => []DiscoveredAdmissible
  <1>1. TypeOK /\ AdmissibleInv /\ [Next]_vars => AdmissibleInv'
    BY NextAdmissible
  <1>2. AdmissibleInv => DiscoveredAdmissible
    BY DEF AdmissibleInv
  <1>3. QED BY InitAdmissible, TypeCorrect, <1>1, <1>2, PTL DEF Spec
-----------------------------------------------------------------------------
(* The filesystem stays a tree: every action of the environment keeps        *)
(* directories above whatever there is.                                      *)

Tree == TreeClosed(kind)

\* Creating one path, below directories only.
LEMMA CreateKeepsTree ==
    ASSUME TypeOK, Tree, NEW p \in Paths, NEW x \in Kinds,
           kind[p] = "absent", ParentReady(p), kind' = [kind EXCEPT ![p] = x]
    PROVE  Tree'
  <1>1. SUFFICES ASSUME NEW a \in Paths, NEW b \in Paths, StrictlyUnder(a, b),
                        kind'[a] # "absent"
                 PROVE  kind'[b] \in {"dir", "locked"}
    BY DEF Tree, TreeClosed
  <1>2. ~StrictlyUnder(p, p)
    BY DEF StrictlyUnder
  <1>3. CASE a = p
    BY <1>1, <1>2, <1>3 DEF ParentReady, TypeOK
  <1>4. CASE a # p
    <2>1. kind[a] # "absent" /\ kind[b] \in {"dir", "locked"}
      BY <1>1, <1>4 DEF Tree, TreeClosed, TypeOK
    <2>2. b # p
      BY <2>1
    <2>3. QED BY <2>1, <2>2 DEF TypeOK
  <1>5. QED BY <1>3, <1>4

LEMMA MoveInKeepsTree ==
    ASSUME TypeOK, Tree, NEW p \in Paths, ParentReady(p),
           kind' = [q \in Paths |-> IF SameOrUnder(q, p) THEN "dir" ELSE kind[q]]
    PROVE  Tree'
  <1>1. SUFFICES ASSUME NEW a \in Paths, NEW b \in Paths, StrictlyUnder(a, b),
                        kind'[a] # "absent"
                 PROVE  kind'[b] \in {"dir", "locked"}
    BY DEF Tree, TreeClosed
  <1>2. CASE SameOrUnder(b, p)
    BY <1>2
  <1>3. CASE ~SameOrUnder(b, p) /\ SameOrUnder(a, p)
    <2>1. StrictlyUnder(p, b)
      BY <1>1, <1>3, AncestorsComparable DEF StrictlyUnder
    <2>2. QED BY <1>3, <2>1 DEF ParentReady
  <1>4. CASE ~SameOrUnder(b, p) /\ ~SameOrUnder(a, p)
    BY <1>1, <1>4 DEF Tree, TreeClosed
  <1>5. QED BY <1>2, <1>3, <1>4

LEMMA RemoveKeepsTree ==
    ASSUME TypeOK, Tree, NEW p \in Paths,
           kind' = [q \in Paths |-> IF SameOrUnder(q, p) THEN "absent" ELSE kind[q]]
    PROVE  Tree'
  <1>1. SUFFICES ASSUME NEW a \in Paths, NEW b \in Paths, StrictlyUnder(a, b),
                        kind'[a] # "absent"
                 PROVE  kind'[b] \in {"dir", "locked"}
    BY DEF Tree, TreeClosed
  <1>2. ~SameOrUnder(a, p) /\ kind[a] # "absent"
    BY <1>1
  <1>3. ~SameOrUnder(b, p)
    BY <1>1, <1>2, UnderTransitive DEF StrictlyUnder
  <1>4. kind[b] \in {"dir", "locked"}
    BY <1>1, <1>2 DEF Tree, TreeClosed
  <1>5. QED BY <1>3, <1>4

LEMMA ChmodKeepsTree ==
    ASSUME TypeOK, Tree, NEW p \in Paths, kind[p] \in {"dir", "locked"},
           NEW x \in {"dir", "locked"}, kind' = [kind EXCEPT ![p] = x]
    PROVE  Tree'
  BY DEF TypeOK, Tree, TreeClosed

LEMMA NextKeepsTree == TypeOK /\ Tree /\ [Next]_vars => Tree'
  <1> SUFFICES ASSUME TypeOK, Tree, [Next]_vars PROVE Tree'
    OBVIOUS
  <1>1. CASE UNCHANGED kind
    BY <1>1 DEF Tree, TreeClosed
  <1>2. ASSUME NEW p \in Paths, NEW k \in {"dir", "file", "link"}, Create(p, k)
        PROVE  Tree'
    BY <1>2, CreateKeepsTree DEF Create, ChangeFs, Kinds
  <1>3. ASSUME NEW p \in Paths, MoveIn(p) PROVE Tree'
    BY <1>3, MoveInKeepsTree DEF MoveIn, ChangeFs
  <1>4. ASSUME NEW p \in Paths, Remove(p) PROVE Tree'
    BY <1>4, RemoveKeepsTree DEF Remove, ChangeFs
  <1>5. ASSUME NEW p \in Paths, Chmod(p) PROVE Tree'
    BY <1>5, ChmodKeepsTree DEF Chmod, ChangeFs
  <1>6. CASE FileSystem
    <2>1. ASSUME NEW p \in Busy, WriteBusy(p) PROVE UNCHANGED kind
      BY <2>1 DEF WriteBusy, fsVars
    <2>2. QED BY <1>1, <1>2, <1>3, <1>4, <1>5, <1>6, <2>1 DEF FileSystem
  <1>7. CASE ~FileSystem
    BY <1>1, <1>7
    DEF Next, Daemon, vars, fsVars, WalkStep, WalkDone, IndexNext, UpsertFound, ListKnown,
        PruneLook, PruneDone, MarkWalked, WatchRoot, EnterLoop, Receive, BackendError,
        QuietTimeout, ApplyLook, SecondLook, Write, ApplyDone, GateCheck,
        IntervalElapses, GateTick, Crash, Restart
  <1>8. QED BY <1>6, <1>7

\* Nothing at or below a path that does not look like a directory looks like
\* one: a subtree removal reaches no live directory.
LEMMA DeadSubtree ==
    ASSUME Tree, NEW p \in Paths, ~IsDir(p), NEW q \in Paths, SameOrUnder(q, p)
    PROVE  ~IsDir(q)
  <1>1. CASE Len(q) = Len(p)
    BY <1>1, SameLength
  <1>2. CASE StrictlyUnder(q, p)
    <2>1. CASE ~Reachable(p)
      <3>1. PICK s \in Paths : StrictlyUnder(p, s) /\ kind[s] = "locked"
        BY <2>1 DEF Reachable
      <3>2. StrictlyUnder(q, s)
        BY <3>1, StrictTransitive
      <3>3. QED BY <3>1, <3>2 DEF Reachable, IsDir, RealDir, Leads
    <2>2. CASE kind[p] \notin {"dir", "locked"}
      BY <1>2, <2>2 DEF Tree, TreeClosed, IsDir, RealDir, Leads
    <2>3. QED BY <2>1, <2>2 DEF IsDir, RealDir
  <1>3. QED BY <1>1, <1>2, PathIsSeq DEF SameOrUnder, StrictlyUnder
-----------------------------------------------------------------------------
(* Rows were directories, and only those that stopped being one are deleted. *)

EverDirs == {p \in Paths : IsDir(p) \/ p \in everLost}

RowInv ==
    /\ discovered \subseteq EverDirs
    /\ \A w \in found : w[2] \in EverDirs
    /\ act.op = "upsert" => act.path \in EverDirs
    /\ act.op = "remove" => Subtree(discovered, act.path) \subseteq everLost
    /\ act # NoAct => pc \in {"prune", "apply"}

DirInv == Tree /\ RowInv

\* A path that looked like a directory, or is known to have stopped, keeps that
\* through every step.
LEMMA EverDirsGrow ==
    TypeOK /\ [Next]_vars => EverDirs \subseteq EverDirs'
  <1> SUFFICES ASSUME TypeOK, [Next]_vars PROVE EverDirs \subseteq EverDirs'
    OBVIOUS
  <1>1. CASE UNCHANGED <<kind, everLost>>
    BY <1>1 DEF EverDirs, IsDir, RealDir, Leads, Reachable
  <1>2. CASE Observe
    BY <1>2 DEF Observe, EverDirs
  <1>3. CASE FileSystem
    BY <1>1, <1>2, <1>3
    DEF FileSystem, Create, MoveIn, Remove, Chmod, WriteBusy, ChangeFs, fsVars
  <1>4. CASE ~FileSystem
    BY <1>1, <1>4
    DEF Next, Daemon, vars, fsVars, WalkStep, WalkDone, IndexNext, UpsertFound, ListKnown,
        PruneLook, PruneDone, MarkWalked, WatchRoot, EnterLoop, Receive, BackendError,
        QuietTimeout, ApplyLook, SecondLook, Write, ApplyDone, GateCheck,
        IntervalElapses, GateTick, Crash, Restart
  <1>5. QED BY <1>3, <1>4

LEMMA LostForGood == TypeOK /\ [Next]_vars => everLost \subseteq everLost'
  <1> SUFFICES ASSUME TypeOK, [Next]_vars PROVE everLost \subseteq everLost'
    OBVIOUS
  <1>1. CASE FileSystem
    BY <1>1 DEF FileSystem, Create, MoveIn, Remove, Chmod, WriteBusy, ChangeFs, Observe, fsVars
  <1>2. CASE ~FileSystem
    BY <1>2
    DEF Next, Daemon, vars, fsVars, WalkStep, WalkDone, IndexNext, UpsertFound, ListKnown,
        PruneLook, PruneDone, MarkWalked, WatchRoot, EnterLoop, Receive, BackendError,
        QuietTimeout, ApplyLook, SecondLook, Write, ApplyDone, GateCheck,
        IntervalElapses, GateTick, Crash, Restart
  <1>3. QED BY <1>1, <1>2

LEMMA InitDirs == Init => DirInv
  BY InitKindAssumption DEF Init, DirInv, RowInv, Tree, NoAct

\* A removal decided on a path that does not look like a directory costs only
\* rows that are lost already.
LEMMA RemovalIsSound ==
    ASSUME TypeOK, DirInv, NEW p \in Paths, ~IsDir(p)
    PROVE  Subtree(discovered, p) \subseteq everLost
  <1>1. SUFFICES ASSUME NEW q \in discovered, SameOrUnder(q, p) PROVE q \in everLost
    BY DEF Subtree
  <1>2. q \in Paths
    BY DEF TypeOK
  <1>3. ~IsDir(q)
    BY <1>1, <1>2, DeadSubtree DEF DirInv
  <1>4. QED BY <1>3 DEF DirInv, RowInv, EverDirs

LEMMA NextRows == TypeOK /\ DirInv /\ [Next]_vars => RowInv'
  <1> SUFFICES ASSUME TypeOK, DirInv, [Next]_vars PROVE RowInv'
    OBVIOUS
  <1> USE DEF RowInv
  <1>2. RowInv
    BY DEF DirInv
  <1>3. EverDirs \subseteq EverDirs'
    BY EverDirsGrow
  <1>4. everLost \subseteq everLost'
    BY LostForGood
  <1>5. discovered \subseteq Paths /\ found \subseteq Roots \X Paths
        /\ (act.op \in {"upsert", "remove"} => act.path \in Paths)
    BY DEF TypeOK, NoAct
  <1>6. ASSUME found' \subseteq found, UNCHANGED <<discovered, act, pc>> PROVE RowInv'
    BY <1>2, <1>3, <1>4, <1>5, <1>6 DEF Subtree
  <1>7. ASSUME found' \subseteq found, UNCHANGED <<discovered, act>>, act = NoAct
        PROVE  RowInv'
    BY <1>2, <1>3, <1>5, <1>7 DEF NoAct
  <1>8. CASE FileSystem
    <2>1. UNCHANGED <<found, discovered, act, pc>>
      BY <1>8 DEF FileSystem, Create, MoveIn, Remove, Chmod, WriteBusy, ChangeFs, passVars
    <2>2. QED BY <2>1, <1>6
  <1>9. CASE WalkStep
    <2>1. PICK w \in stack : found' = found \cup Reads(w[1], w[2])
      BY <1>9 DEF WalkStep
    <2>2. UNCHANGED <<discovered, act, pc, kind, everLost>>
      BY <1>9 DEF WalkStep, fsVars
    <2>3. w[1] \in Roots /\ w[2] \in Paths
      BY DEF TypeOK
    <2>4. \A v \in Reads(w[1], w[2]) : v[2] \in EverDirs
      <3> SUFFICES ASSUME NEW v \in Reads(w[1], w[2]) PROVE v[2] \in EverDirs
        OBVIOUS
      <3>1. PICK c \in WalkChildren(w[2]) : v = <<w[1], c>>
        BY DEF Reads
      <3>2. c \in Paths /\ kind[c] \in {"dir", "locked"} /\ kind[w[2]] = "dir" /\ Reachable(w[2])
            /\ SameOrUnder(c, w[2]) /\ Len(c) = Len(w[2]) + 1
        BY DEF WalkChildren, ChildrenIn
      <3>3. Reachable(c)
        <4>1. SUFFICES ASSUME NEW q \in Paths, StrictlyUnder(c, q) PROVE kind[q] # "locked"
          BY DEF Reachable
        <4>2. CASE SameOrUnder(q, w[2])
          <5>1. Len(q) = Len(w[2])
            BY <3>2, <4>1, <4>2, <2>3, PathIsSeq DEF StrictlyUnder, SameOrUnder
          <5>2. QED BY <5>1, <4>2, <2>3, <3>2, SameLength
        <4>3. CASE ~SameOrUnder(q, w[2])
          <5>1. StrictlyUnder(w[2], q)
            BY <4>1, <4>3, <3>2, <2>3, AncestorsComparable DEF StrictlyUnder
          <5>2. QED BY <5>1, <3>2 DEF Reachable
        <4>4. QED BY <4>2, <4>3
      <3>4. QED BY <3>1, <3>2, <3>3 DEF IsDir, RealDir, EverDirs
    <2>5. QED BY <1>2, <1>3, <1>5, <2>1, <2>2, <2>4
  <1>10. CASE WalkDone \/ IndexNext \/ ListKnown \/ MarkWalked \/ GateCheck
              \/ WatchRoot \/ EnterLoop \/ Receive \/ BackendError \/ QuietTimeout
    <2>1. pc \notin {"prune", "apply"} /\ UNCHANGED <<discovered, act, found>>
      BY <1>10 DEF WalkDone, IndexNext, ListKnown, MarkWalked, GateCheck, WatchRoot,
                   EnterLoop, Receive, BackendError, QuietTimeout, passVars
    <2>2. QED BY <2>1, <1>2, <1>7
  <1>11. CASE PruneDone \/ ApplyDone
    BY <1>11, <1>7 DEF PruneDone, ApplyDone, passVars
  <1>12. CASE UpsertFound
    <2>1. PICK w \in found : discovered' = discovered \cup {w[2]} /\ found' = found \ {w}
      BY <1>12 DEF UpsertFound
    <2>2. act = NoAct /\ act' = NoAct
      BY <1>12, <1>2 DEF UpsertFound
    <2>3. w[2] \in EverDirs
      BY <1>2, <1>5
    <2>4. QED BY <1>2, <1>3, <1>5, <2>1, <2>2, <2>3 DEF NoAct
  <1>13. CASE PruneLook
    <2>1. PICK q \in known : act' = IF IsDir(q) THEN NoAct ELSE [op |-> "remove", path |-> q]
      BY <1>13 DEF PruneLook
    <2>2. q \in Paths /\ UNCHANGED <<discovered, found, pc, kind, everLost>> /\ pc = "prune"
      BY <1>13 DEF PruneLook, fsVars, TypeOK
    <2>3. ~IsDir(q) => Subtree(discovered, q) \subseteq everLost
      BY <2>2, RemovalIsSound
    <2>4. QED BY <1>2, <1>3, <1>5, <2>1, <2>2, <2>3 DEF NoAct
  <1>14. CASE ApplyLook
    <2>1. PICK p \in batch : \/ act' = NoAct
                             \/ act'.op = "upsert" /\ act'.path = p /\ IsDir(p)
                             \/ act'.op = "second_look"
      BY <1>14 DEF ApplyLook
    <2>2. p \in Paths /\ UNCHANGED <<discovered, found, pc, kind, everLost>> /\ pc = "apply"
      BY <1>14 DEF ApplyLook, fsVars, passVars, TypeOK
    <2>3. QED BY <1>2, <1>3, <1>5, <2>1, <2>2 DEF NoAct, EverDirs
  <1>15. CASE SecondLook
    <2>1. act.path \in Paths /\ act # NoAct
      BY <1>15 DEF SecondLook, TypeOK, NoAct
    <2>2. \/ act' = NoAct
          \/ act'.op = "remove" /\ act'.path = act.path /\ ~IsDir(act.path)
      BY <1>15, <2>1 DEF SecondLook, Exists, TypeOK
    <2>3. UNCHANGED <<discovered, found, pc, kind, everLost>>
      BY <1>15 DEF SecondLook, fsVars, passVars
    <2>4. ~IsDir(act.path) => Subtree(discovered, act.path) \subseteq everLost
      BY <2>1, RemovalIsSound
    <2>5. QED BY <1>2, <1>3, <1>5, <2>1, <2>2, <2>3, <2>4 DEF NoAct
  <1>16. CASE Write
    <2>1. act' = NoAct /\ UNCHANGED found
      BY <1>16 DEF Write, passVars
    <2>2. \A p \in discovered' : p \in discovered \/ (act.op = "upsert" /\ p = act.path)
      BY <1>16 DEF Write
    <2>3. QED BY <1>2, <1>3, <1>5, <2>1, <2>2 DEF NoAct
  <1>17. CASE (\E r \in Roots : IntervalElapses(r)) \/ GateTick
    BY <1>17, <1>6 DEF IntervalElapses, GateTick, passVars
  <1>18. CASE Crash
    <2>1. found' = {} /\ act' = NoAct /\ UNCHANGED discovered
      BY <1>18 DEF Crash
    <2>2. QED BY <1>2, <1>3, <1>5, <2>1 DEF NoAct
  <1>19. CASE Restart
    BY <1>2, <1>7, <1>19 DEF Restart
  <1>20. CASE UNCHANGED vars
    BY <1>6, <1>20 DEF vars, passVars
  <1>21. QED
    BY <1>8, <1>9, <1>10, <1>11, <1>12, <1>13, <1>14, <1>15, <1>16, <1>17, <1>18, <1>19,
       <1>20 DEF Next, Daemon

LEMMA NextDirs == TypeOK /\ DirInv /\ [Next]_vars => DirInv'
  BY NextKeepsTree, NextRows DEF DirInv

\* The index holds directories only, whatever happens between a look and a write.
THEOREM IndexHoldsDirectories == Spec => []RowsWereDirs
  <1>1. TypeOK /\ DirInv /\ [Next]_vars => DirInv'
    BY NextDirs
  <1>2. DirInv => RowsWereDirs
    BY DEF DirInv, RowInv, RowsWereDirs, EverDirs
  <1>3. QED BY InitDirs, TypeCorrect, <1>1, <1>2, PTL DEF Spec

LEMMA OnlyLostRowsLeave ==
    TypeOK /\ DirInv /\ [Next]_vars => (discovered \ discovered' \subseteq everLost)
  <1> SUFFICES ASSUME TypeOK, DirInv, [Next]_vars PROVE discovered \ discovered' \subseteq everLost
    OBVIOUS
  <1>1. CASE Write
    BY <1>1 DEF Write, DirInv, RowInv
  <1>2. CASE ~Write
    <2>1. discovered \subseteq discovered'
      BY <1>2
      DEF Next, Daemon, vars, FileSystem, Create, MoveIn, Remove, Chmod, WriteBusy, ChangeFs,
          WalkStep, WalkDone, IndexNext, UpsertFound, ListKnown, PruneLook, PruneDone,
          MarkWalked, WatchRoot, EnterLoop, Receive, BackendError, QuietTimeout, ApplyLook,
          SecondLook, ApplyDone, GateCheck, IntervalElapses, GateTick, Crash, Restart
    <2>2. QED BY <2>1
  <1>3. QED BY <1>1, <1>2

\* No row is deleted while its directory was there all along.
THEOREM NoLiveRowDeleted == Spec => LiveRowsKept
  <1>1. TypeOK /\ DirInv /\ [Next]_vars => DirInv'
    BY NextDirs
  <1>2. TypeOK /\ DirInv /\ [Next]_vars => [discovered \ discovered' \subseteq everLost]_vars
    BY OnlyLostRowsLeave
  <1>3. QED BY InitDirs, TypeCorrect, <1>1, <1>2, PTL DEF Spec, LiveRowsKept
-----------------------------------------------------------------------------
(* The gate forgets no change: while a re-walk is under way, a change after  *)
(* the root was read is later than the `now` that will be recorded.          *)

InPass == pc \in {"walk", "index", "upsert", "prune", "mark"}

GateInv ==
    /\ GateNeverForgets
    /\ phase = "initial" => unsure = Roots
    /\ pc = "down" => phase = "initial"
    /\ InPass /\ pc # "walk" => stack = {}
    /\ InPass /\ phase = "rewalk" =>
          \A r \in pass \cap dirty : <<r, r>> \in stack \/ r \in since

LEMMA InitGate == Init => GateInv
  BY DEF Init, GateInv, GateNeverForgets, InPass

LEMMA NextGate == TypeOK /\ GateInv /\ [Next]_vars => GateInv'
  <1> SUFFICES ASSUME TypeOK, GateInv, [Next]_vars PROVE GateInv'
    OBVIOUS
  <1> USE DEF GateInv, GateNeverForgets, InPass
  <1>1. ASSUME UNCHANGED <<churn, since, dirty, unsure, phase, pc, pass, stack>>
        PROVE  GateInv'
    BY <1>1
  <1>2. CASE FileSystem
    <2>1. ASSUME NEW p \in Paths, NEW gone \in SUBSET Roots, NEW fresh \in SUBSET Roots,
                 DirTimes(p, gone, fresh), UNCHANGED <<unsure, phase, pc, pass, stack>>
          PROVE  GateInv'
      BY <2>1 DEF DirTimes
    <2>2. ASSUME NEW p \in Paths, NEW k \in {"dir", "file", "link"}, Create(p, k)
          PROVE  GateInv'
      BY <2>2, <2>1 DEF Create, ChangeFs, passVars
    <2>3. ASSUME NEW p \in Paths, MoveIn(p) PROVE GateInv'
      <3>1. Subtree(Roots, p) \in SUBSET Roots
        BY DEF Subtree
      <3>2. PICK fresh \in SUBSET Subtree(Roots, p) : DirTimes(p, Subtree(Roots, p), fresh)
        BY <2>3 DEF MoveIn
      <3>3. UNCHANGED <<unsure, phase, pc, pass, stack>>
        BY <2>3 DEF MoveIn, ChangeFs, passVars
      <3>4. QED BY <2>1, <3>1, <3>2, <3>3
    <2>4. ASSUME NEW p \in Paths, Remove(p) PROVE GateInv'
      <3>1. Subtree(Roots, p) \in SUBSET Roots /\ {} \in SUBSET Roots
        BY DEF Subtree
      <3>2. DirTimes(p, Subtree(Roots, p), {}) /\ UNCHANGED <<unsure, phase, pc, pass, stack>>
        BY <2>4 DEF Remove, ChangeFs, passVars
      <3>3. QED BY <2>1, <3>1, <3>2
    <2>5. ASSUME NEW p \in Paths, Chmod(p) PROVE GateInv'
      BY <2>5, <1>1 DEF Chmod, ChangeFs, passVars
    <2>6. ASSUME NEW p \in Busy, WriteBusy(p) PROVE GateInv'
      BY <2>6, <1>1 DEF WriteBusy, gateVars, passVars
    <2>7. QED BY <1>2, <2>2, <2>3, <2>4, <2>5, <2>6 DEF FileSystem
  <1>3. CASE WalkStep
    <2>1. PICK w \in stack :
             /\ stack' = (stack \ {w}) \cup Reads(w[1], w[2])
             /\ dirty' = dirty \ ({w[1]} \cap {w[2]})
      BY <1>3 DEF WalkStep
    <2>2. UNCHANGED <<churn, since, unsure, phase, pc, pass>> /\ pc = "walk"
      BY <1>3 DEF WalkStep
    <2>3. ASSUME NEW r \in pass \cap dirty', phase = "rewalk"
          PROVE  <<r, r>> \in stack' \/ r \in since
      <3>1. <<r, r>> \in stack \/ r \in since
        BY <2>1, <2>2, <2>3
      <3>2. w # <<r, r>>
        <4>1. SUFFICES ASSUME w = <<r, r>> PROVE FALSE
          OBVIOUS
        <4>2. w[1] = r /\ w[2] = r
          BY <4>1
        <4>3. QED BY <4>2, <2>1, <2>3
      <3>3. QED BY <3>1, <3>2, <2>1
    <2>4. QED BY <2>1, <2>2, <2>3
  <1>4. CASE WalkDone \/ IndexNext \/ UpsertFound \/ ListKnown \/ PruneLook \/ PruneDone
    BY <1>4 DEF WalkDone, IndexNext, UpsertFound, ListKnown, PruneLook, PruneDone,
                passVars, gateVars, TypeOK
  <1>5. CASE MarkWalked
    BY <1>5 DEF MarkWalked, TypeOK
  <1>6. CASE GateCheck
    <2>1. CASE {r \in Roots : Stale(r)} = {}
      BY <1>6, <2>1 DEF GateCheck
    <2>2. CASE {r \in Roots : Stale(r)} # {}
      <3>1. pass' = {r \in Roots : Stale(r)} /\ stack' = Walks(pass') /\ pc' = "walk"
        BY <1>6, <2>2 DEF GateCheck
      <3>2. \A r \in pass' : <<r, r>> \in stack'
        BY <3>1 DEF Walks
      <3>3. phase' = "rewalk" /\ UNCHANGED <<churn, dirty, unsure>>
        BY <1>6, <2>2 DEF GateCheck
      <3>4. QED BY <3>1, <3>2, <3>3
    <2>3. QED BY <2>1, <2>2
  <1>7. CASE WatchRoot \/ EnterLoop \/ Receive \/ BackendError \/ QuietTimeout
             \/ ApplyLook \/ SecondLook \/ Write \/ ApplyDone
    BY <1>7 DEF WatchRoot, EnterLoop, Receive, BackendError, QuietTimeout, ApplyLook,
                SecondLook, Write, ApplyDone, passVars, gateVars
  <1>8. CASE (\E r \in Roots : IntervalElapses(r)) \/ GateTick
    BY <1>8, <1>1 DEF IntervalElapses, GateTick, passVars
  <1>9. CASE Crash
    BY <1>9 DEF Crash
  <1>10. CASE Restart
    BY <1>10 DEF Restart, gateVars
  <1>11. CASE UNCHANGED vars
    BY <1>11, <1>1 DEF vars, passVars, gateVars
  <1>12. QED
    BY <1>2, <1>3, <1>4, <1>5, <1>6, <1>7, <1>8, <1>9, <1>10, <1>11 DEF Next, Daemon

\* A change under a root after a re-walk read it keeps the root stale.
THEOREM GateForgetsNothing == Spec => []GateNeverForgets
  <1>1. TypeOK /\ GateInv /\ [Next]_vars => GateInv'
    BY NextGate
  <1>2. GateInv => GateNeverForgets
    BY DEF GateInv
  <1>3. QED BY InitGate, TypeCorrect, <1>1, <1>2, PTL DEF Spec
=============================================================================
