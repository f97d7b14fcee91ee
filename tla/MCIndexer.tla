------------------------------- MODULE MCIndexer -------------------------------
(* The two parts of the indexer with threads or time of their own, each by     *)
(* itself: the daemon, and the pool that its walks are made with.              *)
EXTENDS MCIndexDaemon, WalkPool

VARIABLE part       \* which of the two runs

IndexerInit == Init /\ PoolInit /\ part \in {"daemon", "pool"}

DaemonRuns == part = "daemon" /\ Next /\ UNCHANGED <<poolVars, part>>

PoolRuns == part = "pool" /\ PoolNext /\ UNCHANGED <<vars, part>>

\* The caller of walk_roots goes on.
PoolEnded == part = "pool" /\ caller = "joined" /\ UNCHANGED <<vars, poolVars, part>>

IndexerNext == DaemonRuns \/ PoolRuns \/ PoolEnded

IndexerSpec == IndexerInit /\ [][IndexerNext]_<<vars, poolVars, part>>

\* The fairness of each, while it is the one that runs.
IndexerFairSpec ==
    /\ IndexerSpec
    /\ WF_vars(part = "daemon" /\ Daemon)
    /\ \A r \in Roots : WF_vars(part = "daemon" /\ IntervalElapses(r))
    /\ WF_vars(part = "daemon" /\ GateTick)
    /\ WF_vars(part = "daemon" /\ Restart)
    /\ \A w \in Workers : WF_poolVars(part = "pool" /\ Worker(w))
    /\ WF_poolVars(part = "pool" /\ Join)
-----------------------------------------------------------------------------
\* The index becomes right, once the filesystem is quiet (IndexDaemon).
DaemonConverges == part = "daemon" => Converges

\* A due check of the gates comes to pass.
DaemonChecksGates == part = "daemon" => GateChecked

\* A received path is applied.
DaemonAppliesPending == part = "daemon" => PendingApplied

\* walk_roots returns, whatever the workers' interleaving.
PoolReturns == part = "pool" => Returns
=============================================================================
