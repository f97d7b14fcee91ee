----------------------------- MODULE IndexDaemon -----------------------------
(* The background indexer `wadachi indexd`: one thread that walks the        *)
(* configured roots, writes the `discovered` rows of the store, and then     *)
(* follows the filesystem through watcher events and gate-checked re-walks.  *)
(*                                                                           *)
(* The filesystem changes between any two steps of the daemon: every look at *)
(* a path and the store write it leads to are separate actions, and so are   *)
(* the reads of a walk, the rows of an upsert and the rows of a prune.  The  *)
(* process may die between any two of them, keeping only the store.          *)
EXTENDS PathTree, FiniteSets

CONSTANTS
    Paths,          \* the universe of paths, each a non-empty sequence of names
    Roots,          \* the canonicalized configured roots, a subset of Paths
    MaxDepth,       \* the walk depth of each root
    SkippedNames,   \* the names IgnoreSet::skips answers TRUE for
    InitKind,       \* what each path is when the system is first looked at
    Linkable,       \* paths that may become a symlink to LinkTarget
    LinkTarget,     \* the directory such a link leads to
    Lockable,       \* directories whose permissions may be taken away
    Busy,           \* files that are written again and again, without end
    MaxFsOps,       \* bound on the other filesystem changes
    MaxCrashes,     \* bound on the deaths of the daemon
    MaxPending      \* MAX_PENDING_EVENTS

\* A locked directory can be seen, but not read or entered.
Kinds == {"absent", "dir", "locked", "file", "link"}

ASSUME PathsAssumption ==
    /\ Paths \subseteq {p \in Seq(STRING) : Len(p) > 0}
    /\ Roots \subseteq Paths
    /\ Linkable \subseteq Paths \ Roots
    /\ Lockable \subseteq Paths
    /\ Busy \subseteq Paths
    /\ LinkTarget \in Paths \ Linkable

ASSUME BoundsAssumption ==
    /\ MaxDepth \in [Roots -> Nat]
    /\ MaxFsOps \in Nat
    /\ MaxCrashes \in Nat
    /\ MaxPending \in Nat \ {0}

\* Whatever has a parent in the universe has a directory for its parent.
TreeClosed(k) ==
    \A p, q \in Paths :
        (StrictlyUnder(p, q) /\ k[p] # "absent") => k[q] \in {"dir", "locked"}

ASSUME InitKindAssumption ==
    /\ InitKind \in [Paths -> Kinds]
    /\ TreeClosed(InitKind)

NoAct == [op |-> "none"]

VARIABLES
    \* The environment.
    kind,           \* what each path is now
    fsOps,          \* filesystem changes made so far
    everRemoved,    \* paths that stopped being there at some time
    everLost,       \* paths that stopped looking like a directory at some time
    crashes,        \* deaths of the daemon so far
    \* The store.
    discovered,     \* the rows of the `discovered` table
    \* The daemon's thread.
    pc,
    phase,          \* is this pass the initial one or a re-walk
    pass,           \* the roots this pass walks
    todo,           \* the roots of the loop the thread is in, not yet done
    cur,            \* the roots being indexed: none or one
    stack,          \* <<root, dir>> pairs the walkers have yet to read
    found,          \* <<root, dir>> pairs walked and not yet upserted
    known,          \* rows listed for the prune and not yet looked at
    batch,          \* event paths being applied
    act,            \* the store write (or second look) decided by a look
    \* The re-walk gate.
    churn,          \* roots whose mtime is later than the recorded walk
    since,          \* roots whose mtime is later than the captured `now`
    expired,        \* roots whose rewalk interval has elapsed
    gateDue,        \* GATE_CHECK_INTERVAL has elapsed
    dirty,          \* roots whose children changed after the walk read them
    unsure,         \* roots whose recorded walk is the initial one
    \* The watcher.
    watched,        \* roots with a working recursive watch
    degraded,       \* roots whose watch was refused part way
    channel,        \* event paths sent and not yet received
    pending         \* event paths received and not yet applied

fsVars    == <<kind, fsOps, everRemoved, everLost>>
passVars  == <<phase, pass, todo, cur, stack, found, known>>
gateVars  == <<churn, since, expired, gateDue, dirty, unsure>>
watchVars == <<watched, degraded>>
vars == <<fsVars, crashes, discovered, pc, passVars, batch, act, gateVars,
          watchVars, channel, pending>>
-----------------------------------------------------------------------------
(* What the indexer decides about a path.                                    *)

\* A name of p below the root that the ignore set refuses.
SkipsBelow(r, p) == \E i \in (Len(r) + 1)..Len(p) : p[i] \in SkippedNames

\* admissible: every component below the root is allowed and the depth is in
\* the root's bound.
Admissible(r, p) ==
    /\ StrictlyUnder(p, r)
    /\ ~SkipsBelow(r, p)
    /\ Len(p) - Len(r) <= MaxDepth[r]

RootsOf(p) == {r \in Roots : SameOrUnder(p, r)}

\* deepest_root_for: the longest of the roots that contain p.
IsDeepestRoot(r, p) ==
    /\ r \in RootsOf(p)
    /\ \A s \in RootsOf(p) : Len(s) <= Len(r)

\* A stat of p works when every directory above it can be entered.
Reachable(p) == \A q \in Paths : StrictlyUnder(p, q) => kind[q] # "locked"

\* Path::is_dir and Path::exists: both follow a link, both answer FALSE when
\* the stat fails for any reason.
RealDir(p) == Reachable(p) /\ kind[p] \in {"dir", "locked"}
Leads(p)   == Reachable(p) /\ kind[p] = "link" /\ RealDir(LinkTarget)

IsDir(p)  == RealDir(p) \/ Leads(p)
Exists(p) == IsDir(p) \/ (Reachable(p) /\ kind[p] = "file")

\* read_dir(d) and DirEntry::file_type: the real directories in d that the
\* ignore set lets through; nothing when d cannot be read.
WalkChildren(d) ==
    IF Reachable(d) /\ kind[d] = "dir"
    THEN {p \in ChildrenIn(Paths, d) :
             kind[p] \in {"dir", "locked"} /\ FileName(p) \notin SkippedNames}
    ELSE {}

\* (Mistaken variant: the interval is not consulted.)
StaleByMtimeOnly(r) == r \in churn \/ ~Exists(r)

\* RootMtimeGate::stale; every root has a recorded walk once the daemon loops.
Stale(r) == r \in expired \/ r \in churn \/ ~Exists(r)

-----------------------------------------------------------------------------
(* Initial states: a filesystem, an empty store, and a daemon about to walk. *)

TypeOK ==
    /\ kind \in [Paths -> Kinds]
    /\ fsOps \in 0..MaxFsOps
    /\ everRemoved \subseteq Paths /\ everLost \subseteq Paths
    /\ crashes \in 0..MaxCrashes
    /\ discovered \subseteq Paths
    /\ pc \in {"walk", "index", "upsert", "prune", "mark", "watch",
               "recv", "apply", "gate", "down"}
    /\ phase \in {"initial", "rewalk"}
    /\ pass \subseteq Roots /\ todo \subseteq Roots /\ cur \subseteq Roots
    /\ stack \subseteq Roots \X Paths /\ found \subseteq Roots \X Paths
    /\ known \subseteq Paths /\ batch \subseteq Paths
    /\ act \in [op : {"upsert", "second_look", "remove"}, path : Paths]
               \cup {NoAct}
    /\ churn \subseteq Roots /\ since \subseteq Roots /\ expired \subseteq Roots
    /\ gateDue \in BOOLEAN
    /\ dirty \subseteq Roots /\ unsure \subseteq Roots
    /\ watched \subseteq Roots /\ degraded \subseteq Roots
    /\ channel \subseteq Paths
    /\ pending \subseteq Paths /\ Cardinality(pending) < MaxPending

\* walk_roots(rs): every root of the pass is queued for its walker.
Walks(rs) == {<<r, r>> : r \in rs}

Init ==
    /\ kind = InitKind
    /\ fsOps = 0 /\ crashes = 0
    /\ everRemoved = {} /\ everLost = {}
    /\ discovered = {}
    /\ pc = "walk" /\ phase = "initial"
    /\ pass = Roots /\ todo = Roots /\ cur = {}
    /\ stack = Walks(Roots) /\ found = {} /\ known = {} /\ batch = {}
    /\ act = NoAct
    /\ churn = {} /\ since = {} /\ expired = {} /\ gateDue = FALSE
    /\ dirty = {} /\ unsure = Roots
    /\ watched = {} /\ degraded = {}
    /\ channel = {} /\ pending = {}
-----------------------------------------------------------------------------
(* The filesystem and the watcher backend.                                   *)

\* The watcher sends p when a working watch covers it, and may or may not when
\* only a refused one does.
Emit(p) ==
    \/ channel' = channel \cup {p} /\ RootsOf(p) \cap (watched \cup degraded) # {}
    \/ channel' = channel /\ RootsOf(p) \cap watched = {}

\* What the auxiliary variables keep of a change.
Observe ==
    /\ everRemoved' = everRemoved \cup
           {p \in Paths : kind[p] # "absent" /\ kind'[p] = "absent"}
    /\ everLost' = everLost \cup {p \in Paths : IsDir(p) /\ ~IsDir(p)'}

\* Everything above p is there and can be entered.
ParentReady(p) == \A q \in Paths : StrictlyUnder(p, q) => kind[q] = "dir"

ChangeFs(p, k) ==
    /\ fsOps < MaxFsOps /\ fsOps' = fsOps + 1
    /\ ParentReady(p)
    /\ kind' = k
    /\ Observe
    /\ Emit(p)
    /\ UNCHANGED <<crashes, discovered, pc, passVars, batch, act, expired,
                   gateDue, unsure, pending>>

\* A change in a directory moves that directory's mtime and no other's; a root
\* that goes forgets its own, and one that comes has a new one if it is fresh.
DirTimes(p, gone, fresh) ==
    LET touched == {r \in Roots : p \in ChildrenIn(Paths, r)}
    IN  /\ churn' = (churn \ gone) \cup fresh \cup touched
        /\ since' = (since \ gone) \cup fresh \cup touched
        /\ dirty' = (dirty \ gone) \cup touched

\* mkdir, or a file written for the first time, or a link to LinkTarget.
Create(p, k) ==
    /\ kind[p] = "absent"
    /\ k = "link" => p \in Linkable
    /\ ChangeFs(p, [kind EXCEPT ![p] = k])
    /\ DirTimes(p, {}, {p} \cap Roots)
    /\ UNCHANGED watchVars

\* A whole tree is renamed into place: the watcher reports its top only, and a
\* root that arrives this way brings whatever mtime it had.
MoveIn(p) ==
    /\ kind[p] = "absent"
    /\ ChangeFs(p, [q \in Paths |-> IF SameOrUnder(q, p) THEN "dir" ELSE kind[q]])
    /\ \E fresh \in SUBSET Subtree(Roots, p) : DirTimes(p, Subtree(Roots, p), fresh)
    /\ UNCHANGED watchVars

\* unlink, rmdir, or a whole tree renamed away: again one report, for the top.
\* The watches of the roots that leave are gone for good.
Remove(p) ==
    /\ kind[p] # "absent"
    /\ ChangeFs(p, [q \in Paths |-> IF SameOrUnder(q, p) THEN "absent" ELSE kind[q]])
    /\ DirTimes(p, Subtree(Roots, p), {})
    /\ watched' = watched \ Subtree(Roots, p)
    /\ degraded' = degraded \ Subtree(Roots, p)

\* Permissions taken from a directory, or given back.
Chmod(p) ==
    /\ p \in Lockable
    /\ \/ kind[p] = "dir" /\ ChangeFs(p, [kind EXCEPT ![p] = "locked"])
       \/ kind[p] = "locked" /\ ChangeFs(p, [kind EXCEPT ![p] = "dir"])
    /\ UNCHANGED <<churn, since, dirty, watchVars>>

\* A file that is written all the time (a build log).
WriteBusy(p) ==
    /\ kind[p] = "file"
    /\ Emit(p)
    /\ channel' # channel
    /\ UNCHANGED <<fsVars, crashes, discovered, pc, passVars, batch, act,
                   gateVars, watchVars, pending>>

FileSystem ==
    \/ \E p \in Paths :
          \/ \E k \in {"dir", "file", "link"} : Create(p, k)
          \/ MoveIn(p)
          \/ Remove(p)
          \/ Chmod(p)
    \/ \E p \in Busy : WriteBusy(p)
-----------------------------------------------------------------------------
(* A pass: walk_roots, then index_root for each root, then mark_walked.      *)

\* (Mistaken variant: the bound is off by one.)
ReadsOneTooDeep(r, d) ==
    IF Len(d) - Len(r) > MaxDepth[r] THEN {} ELSE {<<r, c>> : c \in WalkChildren(d)}

\* What the walker of root r collects from directory d: nothing at the depth
\* bound.
Reads(r, d) ==
    IF Len(d) - Len(r) >= MaxDepth[r] THEN {} ELSE {<<r, c>> : c \in WalkChildren(d)}

\* One iteration of walk_root, in any of the walker threads: they share
\* nothing, so any pair of the stack may be the next one read.
WalkStep ==
    /\ pc = "walk"
    /\ \E w \in stack :
          /\ stack' = (stack \ {w}) \cup Reads(w[1], w[2])
          /\ found' = found \cup Reads(w[1], w[2])
          /\ dirty' = dirty \ ({w[1]} \cap {w[2]})
    /\ UNCHANGED <<fsVars, crashes, discovered, pc, phase, pass, todo, cur, known,
                   batch, act, churn, since, expired, gateDue, unsure,
                   watchVars, channel, pending>>

\* Every walker is joined before the caller writes anything.
WalkDone ==
    /\ pc = "walk" /\ stack = {}
    /\ pc' = "index"
    /\ UNCHANGED <<fsVars, crashes, discovered, passVars, batch, act, gateVars,
                   watchVars, channel, pending>>

\* index_walks takes the next finished walk, or ends.
IndexNext ==
    /\ pc = "index"
    /\ \/ /\ todo # {}
          /\ \E r \in todo : cur' = {r} /\ todo' = todo \ {r}
          /\ pc' = "upsert"
       \/ /\ todo = {}
          /\ pc' = "mark"
          /\ UNCHANGED <<cur, todo>>
    /\ UNCHANGED <<fsVars, crashes, discovered, phase, pass, stack, found, known,
                   batch, act, gateVars, watchVars, channel, pending>>

\* record_discovered for one walked directory of the root.
UpsertFound ==
    /\ pc = "upsert"
    /\ \E w \in found :
          /\ w[1] \in cur
          /\ discovered' = discovered \cup {w[2]}
          /\ found' = found \ {w}
    /\ UNCHANGED <<fsVars, crashes, pc, phase, pass, todo, cur, stack, known, batch,
                   act, gateVars, watchVars, channel, pending>>

\* All are upserted: discovered_under lists the rows to look at.
ListKnown ==
    /\ pc = "upsert"
    /\ \A w \in found : w[1] \notin cur
    /\ known' = UNION {Subtree(discovered, r) : r \in cur}
    /\ pc' = "prune"
    /\ UNCHANGED <<fsVars, crashes, discovered, phase, pass, todo, cur, stack, found,
                   batch, act, gateVars, watchVars, channel, pending>>

\* (Mistaken variant: the look does not follow links.)
PruneLookNoFollow ==
    /\ pc = "prune" /\ act = NoAct
    /\ \E q \in known :
          /\ known' = known \ {q}
          /\ act' = IF RealDir(q) THEN NoAct ELSE [op |-> "remove", path |-> q]
    /\ UNCHANGED <<fsVars, crashes, discovered, pc, phase, pass, todo, cur, stack,
                   found, batch, gateVars, watchVars, channel, pending>>

\* One listed row is looked at; a dead one is going to be removed.
PruneLook ==
    /\ pc = "prune" /\ act = NoAct
    /\ \E q \in known :
          /\ known' = known \ {q}
          /\ act' = IF IsDir(q) THEN NoAct ELSE [op |-> "remove", path |-> q]
    /\ UNCHANGED <<fsVars, crashes, discovered, pc, phase, pass, todo, cur, stack,
                   found, batch, gateVars, watchVars, channel, pending>>

PruneDone ==
    /\ pc = "prune" /\ act = NoAct /\ known = {}
    /\ cur' = {}
    /\ pc' = "index"
    /\ UNCHANGED <<fsVars, crashes, discovered, phase, pass, todo, stack, found,
                   known, batch, act, gateVars, watchVars, channel, pending>>

\* (Mistaken variant: a re-walk, too, is recorded at the time it ended.)
MarkWalkedAtEnd ==
    /\ pc = "mark"
    /\ churn' = churn \ pass /\ since' = {} /\ expired' = expired \ pass
    /\ IF phase = "initial"
       THEN unsure' = Roots /\ gateDue' = gateDue /\ todo' = Roots /\ pc' = "watch"
       ELSE unsure' = unsure \ pass /\ gateDue' = FALSE /\ todo' = todo /\ pc' = "recv"
    /\ pass' = {}
    /\ UNCHANGED <<fsVars, crashes, discovered, phase, cur, stack, found, known,
                   batch, act, dirty, watchVars, channel, pending>>

\* The walks are recorded: at the time the initial pass ended, but at the time
\* a re-walk was decided.
MarkWalked ==
    /\ pc = "mark"
    /\ IF phase = "initial"
       THEN /\ churn' = {} /\ since' = {} /\ expired' = {}
            /\ unsure' = Roots
            /\ gateDue' = gateDue
            /\ todo' = Roots
            /\ pc' = "watch"
       ELSE /\ churn' = (churn \ pass) \cup (since \cap pass)
            /\ since' = {} /\ expired' = expired \ pass
            /\ unsure' = unsure \ pass
            /\ gateDue' = FALSE
            /\ todo' = todo
            /\ pc' = "recv"
    /\ pass' = {}
    /\ UNCHANGED <<fsVars, crashes, discovered, phase, cur, stack, found, known,
                   batch, act, dirty, watchVars, channel, pending>>
-----------------------------------------------------------------------------
(* The watches, and the event loop.                                          *)

\* One root's watch: skipped when the root is no directory, refused part way
\* when something below it is locked.
WatchRoot ==
    /\ pc = "watch"
    /\ \E r \in todo :
          LET refused == \E p \in Subtree(Paths, r) : kind[p] = "locked"
          IN  /\ todo' = todo \ {r}
              /\ watched' = IF IsDir(r) /\ ~refused THEN watched \cup {r} ELSE watched
              /\ degraded' = IF IsDir(r) /\ refused THEN degraded \cup {r} ELSE degraded
    /\ UNCHANGED <<fsVars, crashes, discovered, pc, phase, pass, cur, stack, found,
                   known, batch, act, gateVars, channel, pending>>

EnterLoop ==
    /\ pc = "watch" /\ todo = {}
    /\ pc' = "recv"
    /\ UNCHANGED <<fsVars, crashes, discovered, passVars, batch, act, gateVars,
                   watchVars, channel, pending>>

\* (Mistaken variant: the bound is reached one event too late.)
ReceiveOneTooMany ==
    /\ pc = "recv"
    /\ \E p \in channel :
          /\ channel' = channel \ {p}
          /\ IF Cardinality(pending \cup {p}) <= MaxPending
             THEN pending' = pending \cup {p} /\ UNCHANGED <<pc, batch>>
             ELSE pending' = {} /\ batch' = pending \cup {p} /\ pc' = "apply"
    /\ UNCHANGED <<fsVars, crashes, discovered, passVars, act, gateVars, watchVars>>

\* recv_timeout returns an event: absorb it, and go on to apply only when the
\* pending set has reached its bound.
Receive ==
    /\ pc = "recv"
    /\ \E p \in channel :
          /\ channel' = channel \ {p}
          /\ IF Cardinality(pending \cup {p}) < MaxPending
             THEN /\ pending' = pending \cup {p}
                  /\ UNCHANGED <<pc, batch>>
             ELSE /\ pending' = {}
                  /\ batch' = pending \cup {p}
                  /\ pc' = "apply"
    /\ UNCHANGED <<fsVars, crashes, discovered, passVars, act, gateVars, watchVars>>

\* recv_timeout returns a backend error: the event is lost.
BackendError ==
    /\ pc = "recv"
    /\ \E p \in channel : channel' = channel \ {p}
    /\ UNCHANGED <<fsVars, crashes, discovered, pc, passVars, batch, act, gateVars,
                   watchVars, pending>>

\* (Mistaken variants: a window with nothing pending is passed over, the gate
\* check with it; the pending set is not taken.)
QuietTimeoutPassedOver ==
    /\ pc = "recv" /\ channel = {}
    /\ batch' = pending
    /\ pending' = {}
    /\ pc' = IF pending = {} THEN "recv" ELSE "apply"
    /\ UNCHANGED <<fsVars, crashes, discovered, passVars, act, gateVars, watchVars,
                   channel>>

QuietTimeoutTakesNothing ==
    /\ pc = "recv" /\ channel = {}
    /\ pc' = "apply"
    /\ UNCHANGED <<fsVars, crashes, discovered, passVars, batch, act, gateVars,
                   watchVars, channel, pending>>

\* recv_timeout times out: nothing came for a whole debounce window.
QuietTimeout ==
    /\ pc = "recv" /\ channel = {}
    /\ batch' = pending
    /\ pending' = {}
    /\ pc' = "apply"
    /\ UNCHANGED <<fsVars, crashes, discovered, passVars, act, gateVars, watchVars,
                   channel>>

\* (Mistaken variant: whatever exists is taken for a directory.)
ApplyLookExists ==
    /\ pc = "apply" /\ act = NoAct
    /\ \E p \in batch :
          /\ \A q \in batch : ~StrictlyUnder(p, q)
          /\ batch' = batch \ {p}
          /\ act' = IF ~\E r \in Roots : IsDeepestRoot(r, p) /\ Admissible(r, p)
                    THEN NoAct
                    ELSE [op |-> IF Exists(p) THEN "upsert" ELSE "second_look",
                          path |-> p]
    /\ UNCHANGED <<fsVars, crashes, discovered, pc, passVars, gateVars, watchVars,
                   channel, pending>>

\* apply_event_path up to its is_dir, parents first (the batch is ordered).
ApplyLook ==
    /\ pc = "apply" /\ act = NoAct
    /\ \E p \in batch :
          /\ \A q \in batch : ~StrictlyUnder(p, q)
          /\ batch' = batch \ {p}
          /\ act' = IF ~\E r \in Roots : IsDeepestRoot(r, p) /\ Admissible(r, p)
                    THEN NoAct
                    ELSE [op |-> IF IsDir(p) THEN "upsert" ELSE "second_look",
                          path |-> p]
    /\ UNCHANGED <<fsVars, crashes, discovered, pc, passVars, gateVars, watchVars,
                   channel, pending>>

\* apply_event_path's exists: a file is left alone, anything gone is removed.
SecondLook ==
    /\ act.op = "second_look"
    /\ act' = IF Exists(act.path) THEN NoAct ELSE [act EXCEPT !.op = "remove"]
    /\ UNCHANGED <<fsVars, crashes, discovered, pc, passVars, batch, gateVars,
                   watchVars, channel, pending>>

\* The store write that the look decided: a row is inserted, or the row and
\* everything below it is deleted.
Write ==
    /\ act.op \in {"upsert", "remove"}
    /\ discovered' = IF act.op = "upsert"
                     THEN discovered \cup {act.path}
                     ELSE discovered \ Subtree(discovered, act.path)
    /\ act' = NoAct
    /\ UNCHANGED <<fsVars, crashes, pc, passVars, batch, gateVars, watchVars,
                   channel, pending>>

ApplyDone ==
    /\ pc = "apply" /\ act = NoAct /\ batch = {}
    /\ pc' = IF gateDue THEN "gate" ELSE "recv"
    /\ UNCHANGED <<fsVars, crashes, discovered, passVars, batch, act, gateVars,
                   watchVars, channel, pending>>

\* rewalk_stale captures `now` and asks the gate; with nothing stale it is over.
GateCheck ==
    /\ pc = "gate"
    /\ LET stale == {r \in Roots : Stale(r)}
       IN  IF stale = {}
           THEN /\ gateDue' = FALSE
                /\ pc' = "recv"
                /\ UNCHANGED <<phase, pass, todo, stack, since>>
           ELSE /\ phase' = "rewalk"
                /\ pass' = stale /\ todo' = stale
                /\ stack' = Walks(stale)
                /\ since' = {}
                /\ pc' = "walk"
                /\ UNCHANGED gateDue
    /\ UNCHANGED <<fsVars, crashes, discovered, cur, found, known, batch, act,
                   churn, expired, dirty, unsure, watchVars, channel, pending>>

Daemon ==
    \/ WalkStep \/ WalkDone \/ IndexNext \/ UpsertFound \/ ListKnown
    \/ PruneLook \/ PruneDone \/ MarkWalked \/ WatchRoot \/ EnterLoop
    \/ Receive \/ BackendError \/ QuietTimeout
    \/ ApplyLook \/ SecondLook \/ Write \/ ApplyDone \/ GateCheck
-----------------------------------------------------------------------------
(* Time, and the death of the process.                                       *)

\* The initial pass and its watches are behind: the clocks of the loop count.
InLoop == phase = "rewalk" \/ pc \in {"recv", "apply", "gate"}

\* A root's rewalk interval has gone by (or the clock has gone backwards).
IntervalElapses(r) ==
    /\ InLoop /\ r \notin expired
    /\ expired' = expired \cup {r}
    /\ UNCHANGED <<fsVars, crashes, discovered, pc, passVars, batch, act, churn,
                   since, gateDue, dirty, unsure, watchVars, channel, pending>>

\* GATE_CHECK_INTERVAL has gone by since the last check.
GateTick ==
    /\ InLoop /\ ~gateDue
    /\ gateDue' = TRUE
    /\ UNCHANGED <<fsVars, crashes, discovered, pc, passVars, batch, act, churn,
                   since, expired, dirty, unsure, watchVars, channel, pending>>

\* The process dies: killed, or a store failure or a watch error it does not
\* degrade on is propagated out of run_daemon.  Only the store survives.
Crash ==
    /\ pc # "down" /\ crashes < MaxCrashes
    /\ crashes' = crashes + 1
    /\ pc' = "down"
    /\ pass' = {} /\ todo' = {} /\ cur' = {}
    /\ stack' = {} /\ found' = {} /\ known' = {} /\ batch' = {}
    /\ act' = NoAct
    /\ phase' = "initial"
    /\ churn' = {} /\ since' = {} /\ expired' = {} /\ gateDue' = FALSE
    /\ dirty' = {} /\ unsure' = Roots
    /\ watched' = {} /\ degraded' = {} /\ channel' = {} /\ pending' = {}
    /\ UNCHANGED <<fsVars, discovered>>

\* launchd or systemd starts it again.
Restart ==
    /\ pc = "down"
    /\ pc' = "walk"
    /\ pass' = Roots /\ todo' = Roots /\ stack' = Walks(Roots)
    /\ UNCHANGED <<fsVars, crashes, discovered, phase, cur, found, known, batch,
                   act, gateVars, watchVars, channel, pending>>

Next ==
    \/ FileSystem
    \/ Daemon
    \/ \E r \in Roots : IntervalElapses(r)
    \/ GateTick
    \/ Crash
    \/ Restart

Spec == Init /\ [][Next]_vars

\* The daemon's thread runs, time passes, the supervisor restarts; nothing is
\* promised about the filesystem falling quiet.
Fairness ==
    /\ WF_vars(Daemon)
    /\ \A r \in Roots : WF_vars(IntervalElapses(r))
    /\ WF_vars(GateTick)
    /\ WF_vars(Restart)

FairSpec == Spec /\ Fairness

-----------------------------------------------------------------------------
(* What the daemon promises.                                                 *)

\* Every row lies below a configured root, within its depth and under no
\* ignored name: what the walk prunes by name and depth as it descends, and
\* apply_event_path re-decides from a bare path, are the same set.
DiscoveredAdmissible ==
    \A p \in discovered : \E r \in Roots : Admissible(r, p)

\* The index holds directories only: a row is a directory now or was one at
\* some time and stopped being one, however the filesystem changed between the
\* look at it and the insert.
RowsWereDirs == \A p \in discovered : IsDir(p) \/ p \in everLost

\* A row is deleted only if its path did at some time stop looking like a
\* directory: neither the prune after a walk that missed the directory, nor the
\* subtree removal after an event, costs a directory that was always there.
LiveRowsKept == [][discovered \ discovered' \subseteq everLost]_vars

\* A root whose direct children changed after a re-walk had read them is stale
\* for the gate: recording the walk never wipes out the change (rewalk_stale
\* takes its time before the walk).  The initial pass, which takes it after, is
\* the exception.
GateNeverForgets == dirty \ unsure \subseteq churn

\* The store shows the filesystem: every directory a walk can reach has a row,
\* and no row is dead.
Settled ==
    /\ \A r \in Roots, p \in Paths : Admissible(r, p) /\ RealDir(p) => p \in discovered
    /\ \A p \in discovered : IsDir(p)

\* Once the filesystem stops changing the index becomes and stays right, with
\* events lost, watches refused or never installed, and the daemon killed at
\* any point: the re-walk heals everything.
Converges == <>[]Settled

\* The re-walk gates are checked again and again: a due check happens, or the
\* daemon dies first (GATE_CHECK_INTERVAL).
GateChecked == gateDue ~> ~gateDue

\* A received event path is applied at some time, or lost with the process: the
\* staleness of the batch is bounded (MAX_PENDING_EVENTS).
PendingApplied == \A p \in Paths : p \in pending ~> p \notin pending
=============================================================================
