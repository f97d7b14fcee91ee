------------------------------- MODULE WalkPool -------------------------------
(* walk_roots: a queue of roots behind one mutex, the finished walks behind   *)
(* another, and scoped worker threads that pop, walk and push until the queue *)
(* is empty.  The caller goes on only when every worker has returned.         *)
EXTENDS Integers, Sequences

CONSTANTS
    NumRoots,       \* the roots, numbered in the order they are queued
    Concurrency     \* the configured number of walkers, 0 included

ASSUME PoolAssumption == NumRoots \in Nat /\ Concurrency \in Nat

AtMost(a, b)  == IF a <= b THEN a ELSE b
AtLeast(a, b) == IF a >= b THEN a ELSE b

Jobs == 1..NumRoots

\* concurrency.clamp(1, roots.len().max(1))
Workers == 1..AtMost(AtLeast(Concurrency, 1), AtLeast(NumRoots, 1))

Nobody == 0
NoJob  == 0

VARIABLES
    front,      \* the number of the root at the front of the queue
    queueLock,  \* the worker in the queue's mutex, or Nobody
    done,       \* the finished walks, in the order they were pushed
    doneLock,   \* the worker in the results' mutex, or Nobody
    at,         \* where each worker is
    hand,       \* the root each worker has popped, or NoJob
    caller      \* "scope" until every worker is joined, then "joined"

poolVars == <<front, queueLock, done, doneLock, at, hand, caller>>

PoolTypeOK ==
    /\ front \in 1..(NumRoots + 1)
    /\ queueLock \in Workers \cup {Nobody} /\ doneLock \in Workers \cup {Nobody}
    /\ done \in Seq(Jobs)
    /\ at \in [Workers -> {"loop", "pop", "test", "walk", "push", "exited"}]
    /\ hand \in [Workers -> Jobs \cup {NoJob}]
    /\ caller \in {"scope", "joined"}

PoolInit ==
    /\ front = 1 /\ done = <<>>
    /\ queueLock = Nobody /\ doneLock = Nobody
    /\ at = [w \in Workers |-> "loop"]
    /\ hand = [w \in Workers |-> NoJob]
    /\ caller = "scope"

\* queue.lock()
LockQueue(w) ==
    /\ at[w] = "loop" /\ queueLock = Nobody
    /\ queueLock' = w
    /\ at' = [at EXCEPT ![w] = "pop"]
    /\ UNCHANGED <<front, done, doneLock, hand, caller>>

\* (Mistaken variant: front() for pop_front().)
PopPeeks(w) ==
    /\ at[w] = "pop"
    /\ hand' = [hand EXCEPT ![w] = IF front > NumRoots THEN NoJob ELSE front]
    /\ queueLock' = Nobody
    /\ at' = [at EXCEPT ![w] = "test"]
    /\ UNCHANGED <<front, done, doneLock, caller>>

\* (Mistaken variant: the guard lives as long as the popped root does, as it
\* would in `while let Some(root) = queue.lock().unwrap().pop_front()`.)
PopKeepingLock(w) ==
    /\ at[w] = "pop"
    /\ hand' = [hand EXCEPT ![w] = IF front > NumRoots THEN NoJob ELSE front]
    /\ front' = IF front > NumRoots THEN front ELSE front + 1
    /\ queueLock' = IF front > NumRoots THEN Nobody ELSE w
    /\ at' = [at EXCEPT ![w] = "test"]
    /\ UNCHANGED <<done, doneLock, caller>>

\* (Mistaken variant: the front moves on past the end of the queue.)
PopPastTheEnd(w) ==
    /\ at[w] = "pop"
    /\ hand' = [hand EXCEPT ![w] = IF front > NumRoots THEN NoJob ELSE front]
    /\ front' = front + 1
    /\ queueLock' = Nobody
    /\ at' = [at EXCEPT ![w] = "test"]
    /\ UNCHANGED <<done, doneLock, caller>>

\* pop_front(), at the end of whose statement the guard is dropped.
Pop(w) ==
    /\ at[w] = "pop"
    /\ hand' = [hand EXCEPT ![w] = IF front > NumRoots THEN NoJob ELSE front]
    /\ front' = IF front > NumRoots THEN front ELSE front + 1
    /\ queueLock' = Nobody
    /\ at' = [at EXCEPT ![w] = "test"]
    /\ UNCHANGED <<done, doneLock, caller>>

\* let Some(root) = next else { break }
Test(w) ==
    /\ at[w] = "test"
    /\ at' = [at EXCEPT ![w] = IF hand[w] = NoJob THEN "exited" ELSE "walk"]
    /\ UNCHANGED <<front, queueLock, done, doneLock, hand, caller>>

\* walk_root(), then done.lock()
LockDone(w) ==
    /\ at[w] = "walk" /\ doneLock = Nobody
    /\ doneLock' = w
    /\ at' = [at EXCEPT ![w] = "push"]
    /\ UNCHANGED <<front, queueLock, done, hand, caller>>

\* (Mistaken variant: the guard is not dropped.)
PushKeepingLock(w) ==
    /\ at[w] = "push"
    /\ done' = Append(done, hand[w])
    /\ hand' = [hand EXCEPT ![w] = NoJob]
    /\ at' = [at EXCEPT ![w] = "loop"]
    /\ UNCHANGED <<front, queueLock, doneLock, caller>>

Push(w) ==
    /\ at[w] = "push"
    /\ done' = Append(done, hand[w])
    /\ hand' = [hand EXCEPT ![w] = NoJob]
    /\ doneLock' = Nobody
    /\ at' = [at EXCEPT ![w] = "loop"]
    /\ UNCHANGED <<front, queueLock, caller>>

Worker(w) == LockQueue(w) \/ Pop(w) \/ Test(w) \/ LockDone(w) \/ Push(w)

\* (Mistaken variant: one worker that has returned is enough, as it would be with
\* detached threads and a first answer.)
JoinFirst ==
    /\ caller = "scope"
    /\ \E w \in Workers : at[w] = "exited"
    /\ caller' = "joined"
    /\ UNCHANGED <<front, queueLock, done, doneLock, at, hand>>

\* The end of thread::scope: every worker has returned.
Join ==
    /\ caller = "scope"
    /\ \A w \in Workers : at[w] = "exited"
    /\ caller' = "joined"
    /\ UNCHANGED <<front, queueLock, done, doneLock, at, hand>>

PoolNext == (\E w \in Workers : Worker(w)) \/ Join

PoolSpec == PoolInit /\ [][PoolNext]_poolVars

\* The scheduler runs every thread; a mutex is free again after each critical
\* section, and the number of sections is bounded by the roots.
PoolFairSpec == PoolSpec /\ (\A w \in Workers : WF_poolVars(Worker(w))) /\ WF_poolVars(Join)
-----------------------------------------------------------------------------
\* No root is walked twice, however the workers interleave.
WalkedOnce == \A i, j \in 1..Len(done) : done[i] = done[j] => i = j

\* What the caller gets holds every root, also when the configured concurrency
\* is zero or larger than the number of roots.
AllWalked == caller = "joined" => \A r \in Jobs : \E i \in 1..Len(done) : done[i] = r

\* A walk, the long part, runs outside both mutexes: no worker waits for
\* another one's walk.
WalksOutsideLocks == \A w \in Workers : at[w] = "walk" => queueLock # w /\ doneLock # w

PoolWalks == INSTANCE RootWalks WITH Roots <- Jobs, results <- done,
                                     returned <- (caller = "joined")

\* The threads, the two mutexes and the scope come to this: each root is walked
\* once and the call returns when all have been, after which nothing more is
\* pushed.
ImplementsRootWalks == PoolWalks!Spec

\* walk_roots returns.
Returns == <>(caller = "joined")
=============================================================================
