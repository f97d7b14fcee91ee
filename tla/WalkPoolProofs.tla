---------------------------- MODULE WalkPoolProofs ----------------------------
(* walk_roots walks every root exactly once, for any number of roots and any *)
(* configured concurrency.                                                   *)
EXTENDS WalkPool, TLAPS

\* The clamp leaves at least one worker, whatever was configured.
LEMMA SomeWorker == 1 \in Workers /\ Nobody \notin Workers
  BY PoolAssumption DEF Workers, AtMost, AtLeast, Nobody

\* A root is in the queue, in one hand, or among the results, and nowhere twice.
Hands ==
    /\ \A w \in Workers : at[w] \in {"walk", "push"} => hand[w] # NoJob
    /\ \A w \in Workers : at[w] \in {"loop", "pop", "exited"} => hand[w] = NoJob
    /\ \A w \in Workers : hand[w] # NoJob => hand[w] < front
    /\ \A v, w \in Workers : hand[v] = hand[w] /\ hand[v] # NoJob => v = w

Results ==
    /\ \A i \in 1..Len(done) : done[i] < front
    /\ \A i \in 1..Len(done), w \in Workers : done[i] # hand[w]
    /\ WalkedOnce

Accounted ==
    \A r \in Jobs : r < front => \/ \E w \in Workers : hand[w] = r
                                 \/ \E i \in 1..Len(done) : done[i] = r

Emptied ==
    /\ \A w \in Workers : at[w] = "exited" => front = NumRoots + 1
    /\ \A w \in Workers : at[w] = "test" /\ hand[w] = NoJob => front = NumRoots + 1
    /\ caller = "joined" => \A w \in Workers : at[w] = "exited"

Locks ==
    /\ \A w \in Workers : queueLock = w => at[w] = "pop"
    /\ \A w \in Workers : doneLock = w => at[w] = "push"

PoolInv == Hands /\ Results /\ Accounted /\ Emptied /\ Locks

LEMMA InitPool == PoolInit => PoolTypeOK /\ PoolInv
  BY PoolAssumption, SomeWorker
  DEF PoolInit, PoolTypeOK, PoolInv, Hands, Results, WalkedOnce, Accounted, Emptied, Locks, NoJob, Jobs

LEMMA NextType == PoolTypeOK /\ PoolInv /\ [PoolNext]_poolVars => PoolTypeOK'
  <1> SUFFICES ASSUME PoolTypeOK, PoolInv, [PoolNext]_poolVars PROVE PoolTypeOK'
    OBVIOUS
  <1> USE PoolAssumption DEF PoolTypeOK, Jobs
  <1>1. ASSUME NEW w \in Workers, LockQueue(w) PROVE PoolTypeOK'
    BY <1>1 DEF LockQueue
  <1>2. ASSUME NEW w \in Workers, Pop(w) PROVE PoolTypeOK'
    BY <1>2 DEF Pop
  <1>3. ASSUME NEW w \in Workers, Test(w) PROVE PoolTypeOK'
    BY <1>3 DEF Test
  <1>4. ASSUME NEW w \in Workers, LockDone(w) PROVE PoolTypeOK'
    BY <1>4 DEF LockDone
  <1>5. ASSUME NEW w \in Workers, Push(w) PROVE PoolTypeOK'
    <2>1. hand[w] \in Jobs
      BY <1>5 DEF Push, PoolInv, Hands
    <2>2. done' \in Seq(Jobs)
      BY <1>5, <2>1 DEF Push
    <2>3. QED BY <1>5, <2>2 DEF Push
  <1>6. CASE Join
    BY <1>6 DEF Join
  <1>7. CASE UNCHANGED poolVars
    BY <1>7 DEF poolVars
  <1>8. QED BY <1>1, <1>2, <1>3, <1>4, <1>5, <1>6, <1>7 DEF PoolNext, Worker

\* The facts about types that the steps below need.
LEMMA Numbers ==
    ASSUME PoolTypeOK
    PROVE  /\ front \in Nat /\ NumRoots \in Nat /\ Len(done) \in Nat
           /\ \A i \in 1..Len(done) : done[i] \in Nat /\ done[i] # NoJob
           /\ \A w \in Workers : hand[w] \in Nat
           /\ hand \in [Workers -> Nat]
  BY PoolAssumption DEF PoolTypeOK, Jobs, NoJob

LEMMA PopStep == PoolTypeOK /\ PoolInv /\ (\E w \in Workers : Pop(w)) => PoolInv'
  <1> SUFFICES ASSUME PoolTypeOK, PoolInv, NEW w \in Workers, Pop(w) PROVE PoolInv'
    OBVIOUS
  <1>1. hand[w] = NoJob /\ at[w] = "pop" /\ at' = [at EXCEPT ![w] = "test"]
        /\ queueLock' = Nobody /\ UNCHANGED <<done, doneLock, caller>>
    BY DEF Pop, PoolInv, Hands
  <1>2. at \in [Workers -> {"loop", "pop", "test", "walk", "push", "exited"}]
    BY DEF PoolTypeOK
  <1>3. Locks'
    BY <1>1, <1>2, SomeWorker DEF PoolInv, Locks
  <1>4. CASE front > NumRoots
    <2>1. hand' = hand /\ front' = front
      BY <1>1, <1>4, Numbers DEF Pop
    <2>2. front = NumRoots + 1
      BY <1>4, PoolAssumption DEF PoolTypeOK
    <2>3. Hands' /\ Results' /\ Accounted'
      BY <1>1, <1>2, <2>1 DEF PoolInv, Hands, Results, WalkedOnce, Accounted
    <2>4. Emptied'
      BY <1>1, <1>2, <2>1, <2>2 DEF PoolInv, Emptied
    <2>5. QED BY <1>3, <2>3, <2>4 DEF PoolInv
  <1>5. CASE ~(front > NumRoots)
    <2>1. hand' = [hand EXCEPT ![w] = front] /\ front' = front + 1
      BY <1>5 DEF Pop
    <2>2. front # NoJob
      BY PoolAssumption DEF PoolTypeOK, NoJob
    <2>3. Hands'
      BY <1>1, <1>2, <2>1, <2>2, Numbers DEF PoolInv, Hands
    <2>4. Results'
      BY <1>1, <2>1, Numbers DEF PoolInv, Results, WalkedOnce
    <2>5. Accounted'
      <3>1. SUFFICES ASSUME NEW r \in Jobs, r < front'
                     PROVE  \/ \E v \in Workers : hand'[v] = r
                            \/ \E i \in 1..Len(done) : done[i] = r
        BY <1>1 DEF Accounted
      <3>2. CASE r = front
        BY <3>2, <2>1, Numbers
      <3>3. CASE r # front
        <4>1. r < front /\ r # NoJob
          BY <3>1, <3>3, <2>1, Numbers DEF Jobs, NoJob
        <4>2. QED BY <4>1, <1>1, <2>1, Numbers DEF PoolInv, Accounted
      <3>4. QED BY <3>2, <3>3
    <2>6. Emptied'
      <3>1. front # NumRoots + 1
        BY <1>5, Numbers
      <3>2. QED BY <1>1, <1>2, <2>1, <2>2, <3>1, Numbers DEF PoolInv, Emptied
    <2>7. QED BY <1>3, <2>3, <2>4, <2>5, <2>6 DEF PoolInv
  <1>6. QED BY <1>4, <1>5

LEMMA PushStep == PoolTypeOK /\ PoolInv /\ (\E w \in Workers : Push(w)) => PoolInv'
  <1> SUFFICES ASSUME PoolTypeOK, PoolInv, NEW w \in Workers, Push(w) PROVE PoolInv'
    OBVIOUS
  <1>1. hand[w] \in Jobs /\ hand[w] # NoJob /\ at[w] = "push"
    BY DEF Push, PoolInv, Hands, PoolTypeOK
  <1>2. /\ Len(done') = Len(done) + 1
        /\ \A i \in 1..Len(done) : done'[i] = done[i]
        /\ done'[Len(done) + 1] = hand[w]
    BY <1>1 DEF Push, PoolTypeOK
  <1>3. /\ hand' = [hand EXCEPT ![w] = NoJob] /\ doneLock' = Nobody
        /\ at' = [at EXCEPT ![w] = "loop"] /\ UNCHANGED <<front, queueLock, caller>>
    BY DEF Push
  <1>4. at \in [Workers -> {"loop", "pop", "test", "walk", "push", "exited"}]
    BY DEF PoolTypeOK
  <1>5. \A i \in 1..Len(done') : i \in 1..Len(done) \/ i = Len(done) + 1
    BY <1>2, Numbers
  <1>6. Hands'
    BY <1>1, <1>3, <1>4, Numbers DEF PoolInv, Hands
  <1>7. Results'
    <2>1. \A i \in 1..Len(done') : done'[i] < front'
      BY <1>1, <1>2, <1>3, <1>5 DEF PoolInv, Results, Hands
    <2>2. \A i \in 1..Len(done'), v \in Workers : done'[i] # hand'[v]
      <3>1. SUFFICES ASSUME NEW i \in 1..Len(done'), NEW v \in Workers
                     PROVE  done'[i] # hand'[v]
        OBVIOUS
      <3>2. done'[i] # NoJob
        BY <1>1, <1>2, <1>5, Numbers
      <3>3. CASE v = w
        BY <3>2, <3>3, <1>3, Numbers
      <3>4. CASE v # w
        <4>1. hand'[v] = hand[v]
          BY <3>4, <1>3, Numbers
        <4>2. QED BY <4>1, <3>4, <1>1, <1>2, <1>5 DEF PoolInv, Results, Hands
      <3>5. QED BY <3>3, <3>4
    <2>3. WalkedOnce'
      BY <1>2, <1>5, Numbers DEF PoolInv, Results, WalkedOnce
    <2>4. QED BY <2>1, <2>2, <2>3 DEF Results
  <1>8. Accounted'
    <2>1. SUFFICES ASSUME NEW r \in Jobs, r < front
                   PROVE  \/ \E v \in Workers : hand'[v] = r
                          \/ \E i \in 1..Len(done') : done'[i] = r
      BY <1>3 DEF Accounted
    <2>2. CASE r = hand[w]
      BY <2>2, <1>2, Numbers
    <2>3. CASE r # hand[w] /\ \E v \in Workers : hand[v] = r
      BY <2>3, <1>3, Numbers
    <2>4. CASE \E i \in 1..Len(done) : done[i] = r
      BY <2>4, <1>2, Numbers
    <2>5. QED BY <2>1, <2>2, <2>3, <2>4 DEF PoolInv, Accounted
  <1>9. Emptied'
    BY <1>1, <1>3, <1>4 DEF PoolInv, Emptied
  <1>10. Locks'
    BY <1>1, <1>3, <1>4, SomeWorker DEF PoolInv, Locks
  <1>11. QED BY <1>6, <1>7, <1>8, <1>9, <1>10 DEF PoolInv

LEMMA NextPool == PoolTypeOK /\ PoolInv /\ [PoolNext]_poolVars => PoolInv'
  <1> SUFFICES ASSUME PoolTypeOK, PoolInv, [PoolNext]_poolVars PROVE PoolInv'
    OBVIOUS
  <1> USE SomeWorker
      DEF PoolTypeOK, PoolInv, Hands, Results, WalkedOnce, Accounted, Emptied, Locks
  <1>1. ASSUME NEW w \in Workers, LockQueue(w) PROVE PoolInv'
    BY <1>1 DEF LockQueue
  <1>2. ASSUME NEW w \in Workers, Test(w) PROVE PoolInv'
    BY <1>2 DEF Test
  <1>3. ASSUME NEW w \in Workers, LockDone(w) PROVE PoolInv'
    BY <1>3 DEF LockDone
  <1>4. CASE Join
    BY <1>4 DEF Join
  <1>5. CASE UNCHANGED poolVars
    BY <1>5 DEF poolVars
  <1>6. QED BY <1>1, <1>2, <1>3, <1>4, <1>5, PopStep, PushStep DEF PoolNext, Worker

LEMMA PoolInvariant == PoolSpec => [](PoolTypeOK /\ PoolInv)
  BY InitPool, NextType, NextPool, PTL DEF PoolSpec

\* What the threads hold, the queue and the list of results have their types.
THEOREM PoolTypeCorrect == PoolSpec => []PoolTypeOK
BY PoolInvariant, PTL

\* However many walkers, no root is walked twice.
THEOREM EachRootOnce == PoolSpec => []WalkedOnce
  <1>1. PoolTypeOK /\ PoolInv => WalkedOnce
    BY DEF PoolInv, Results
  <1>2. QED BY PoolInvariant, <1>1, PTL

\* Once every worker has returned, there is a result for every root.
LEMMA AllExited ==
    ASSUME PoolTypeOK, PoolInv, \A w \in Workers : at[w] = "exited", NEW r \in Jobs
    PROVE  \E i \in 1..Len(done) : done[i] = r
  <1>1. front = NumRoots + 1
    BY SomeWorker DEF PoolInv, Emptied
  <1>2. r < front
    BY <1>1, PoolAssumption DEF Jobs
  <1>3. \A w \in Workers : hand[w] # r
    BY PoolAssumption DEF PoolInv, Hands, Jobs, NoJob
  <1>4. QED BY <1>2, <1>3 DEF PoolInv, Accounted

\* However many walkers were asked for, the caller gets every root.
THEOREM EveryRootWalked == PoolSpec => []AllWalked
  <1>1. PoolTypeOK /\ PoolInv => AllWalked
    <2>1. SUFFICES ASSUME PoolTypeOK, PoolInv, caller = "joined", NEW r \in Jobs
                   PROVE  \E i \in 1..Len(done) : done[i] = r
      BY DEF AllWalked
    <2>2. \A w \in Workers : at[w] = "exited"
      BY <2>1 DEF PoolInv, Emptied
    <2>3. QED BY <2>1, <2>2, AllExited
  <1>2. QED BY PoolInvariant, <1>1, PTL

\* No worker holds either mutex while it walks.
THEOREM WalksHoldNothing == PoolSpec => []WalksOutsideLocks
  <1>1. PoolTypeOK /\ PoolInv => WalksOutsideLocks
    BY DEF PoolInv, Locks, WalksOutsideLocks
  <1>2. QED BY PoolInvariant, <1>1, PTL

\* A step of the threads is a walk, the return, or nothing the caller sees.
LEMMA PoolStep == PoolTypeOK /\ PoolInv /\ [PoolNext]_poolVars => [PoolWalks!Next]_(PoolWalks!vars)
  <1> SUFFICES ASSUME PoolTypeOK, PoolInv, [PoolNext]_poolVars PROVE [PoolWalks!Next]_(PoolWalks!vars)
    OBVIOUS
  <1>1. ASSUME NEW w \in Workers, LockQueue(w) \/ Pop(w) \/ Test(w) \/ LockDone(w)
        PROVE  UNCHANGED PoolWalks!vars
    BY <1>1 DEF LockQueue, Pop, Test, LockDone, PoolWalks!vars
  <1>2. ASSUME NEW w \in Workers, Push(w) PROVE \E r \in Jobs : PoolWalks!Walk(r)
    <2>1. hand[w] \in Jobs
      BY <1>2 DEF Push, PoolInv, Hands, PoolTypeOK
    <2>2. caller # "joined"
      BY <1>2 DEF Push, PoolInv, Emptied
    <2>3. ~ PoolWalks!Walked(hand[w])
      BY DEF PoolInv, Results, PoolWalks!Walked
    <2>4. PoolWalks!Walk(hand[w])
      BY <1>2, <2>2, <2>3 DEF Push, PoolWalks!Walk
    <2>5. QED BY <2>1, <2>4
  <1>3. ASSUME Join PROVE PoolWalks!Return
    <2>1. \A r \in Jobs : PoolWalks!Walked(r)
      BY <1>3, AllExited DEF Join, PoolWalks!Walked
    <2>2. QED BY <1>3, <2>1 DEF Join, PoolWalks!Return
  <1>4. ASSUME UNCHANGED poolVars PROVE UNCHANGED PoolWalks!vars
    BY <1>4 DEF poolVars, PoolWalks!vars
  <1>5. QED BY <1>1, <1>2, <1>3, <1>4 DEF PoolNext, Worker, PoolWalks!Next

\* The pool is the walk of every root once, for any roots and any concurrency.
THEOREM PoolImplements == PoolSpec => ImplementsRootWalks
  <1>1. PoolInit => PoolWalks!Init
    BY DEF PoolInit, PoolWalks!Init
  <1>2. QED BY <1>1, PoolInvariant, PoolStep, PTL
            DEF PoolSpec, ImplementsRootWalks, PoolWalks!Spec
=============================================================================
