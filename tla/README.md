# A verification of wadachi

wadachi ranks directories by *frecency* for a shell's `cd`: visits and
background-discovered directories are kept in a store, and a typed ranking
pipeline answers "where did the user mean". This project models the program in
TLA+, checks the models with TLC on small instances, and proves the central
results with TLAPS for every instance.

`PROJECT.json` is the index of everything below: which definition models which
lines, which run checks which property, which mistaken variant of the code each
property catches, the hazards, the findings and the theorems.

## The system

| part | source | state | operations | talks to |
|---|---|---|---|---|
| indexer daemon | `wadachi/src/indexer.rs` | the watcher's channel, the pending set, the re-walk gate | initial pass, watch install, receive / apply, gate check and re-walk | filesystem, watcher backend, store |
| walk pool | `wadachi/src/indexer.rs` | a queue and a result list, each behind a mutex | pop, walk, push; join | filesystem; called by the daemon |
| store contract | `wadachi/src/store/mod.rs` | visits, discovered rows | record, record_visits_at, forget, record_discovered, remove_discovered, entries, discovered_under | everything above it |
| SQLite store | `wadachi/src/store/sqlite.rs` | three tables in one WAL database | the contract, import_done, mark_import | shared by all processes |
| in-memory store | `wadachi/src/store/mem.rs` | two mutexes | the contract | threads of one process |
| needle matching | `wadachi-spec/src/spec.rs` | none | classify_raw, classify | ranking |
| ranking | `wadachi-spec/src/{interp,spec}.rs`, `wadachi/src/query.rs` | a working set, per call | the phases, top_n | store (`entries`) |
| zoxide import | `wadachi/src/zoxide.rs`, `bin/wadachi.rs`, `compat.rs` | the mark in `imports` | check, rows, mark | store, db.zo |
| usage ranking | `wadachi-spec/src/usage.rs` | none | accumulate, rank_entries | other programs |
| zoxide CLI | `wadachi/src/compat.rs` | none (each call is a process) | add, remove, query, import, init | store, ranking |
| shell hook | `wadachi/src/hook.rs` | the shell's directory and exit status, bash's memo | add in the background, z, zi, the `cd` wrapper | CLI, filesystem |
| configuration | `wadachi/src/config.rs` | none | tiers, defaults | all |

What is hard in it:

- **The filesystem moves under the indexer.** Every decision is a look at a
  path followed by a write to the store, with anything in between; a pass reads
  all its roots before it writes a row; events are batched and applied late;
  watches are installed after the walk.
- **Two deciders.** The walk and the event path decide separately which
  directories belong in the index, for overlapping roots with different depths.
- **Liveness of the loop.** One thread receives, applies and re-walks; what
  keeps it in one of the three keeps it from the others.
- **Deaths.** The daemon is restarted by a supervisor and keeps only the store;
  an import may die between any two transactions.
- **A jump is a conversation.** `z` asks a process for a row and then changes
  directory; the row may be dead, the directory may go in between, the process may
  fail. The exit status, the directory and what is recorded have to agree.
- **Many processes, one database.** Shell hooks, queries, the daemon and
  imports write between the statements of each other's calls.
- **Order.** The answer of a ranking must not depend on the order of the rows;
  phases are data and may come in any order; a greedy scan stands for a search.
- **Edges.** Byte ranges around `/`, lengths read from a file, letters whose lower
  case is longer or shorter, a clock that was set back, a floor that
  decayed scores fall below, a limit on top of a limit, a concurrency of zero.

The list of hazards in `PROJECT.json` names each at its line with the
properties that would catch it.

## The modules

| module | models | used by |
|---|---|---|
| `PathTree` | paths as sequences of components, component-wise prefixes | all with paths |
| `IndexDaemon` | `run_daemon` and the filesystem, watcher and supervisor around it | `MCIndexDaemon`, `MCIndexer`, `IndexDaemonProofs` |
| `WalkPool` | `walk_roots`, thread by thread | `MCIndexer`, `WalkPoolProofs` |
| `RootWalks` | what the daemon relies on `walk_roots` for | refined by `WalkPool` |
| `DirStore` | the abstract contract: each operation one step | extended by `SqliteStore`, refined by `MemStore` |
| `SqliteStore` | `DirFrecencyDb`: statements and snapshots | `MCSqliteStore`, `Sessions`, `SqliteStoreProofs` |
| `MemStore` | `MemDirStore`: locks | `MCMemStore`, `MemStoreProofs` |
| `Sessions` | shells with the hook, the processes they ask and the adds they leave behind, over `SqliteStore` and a changing tree | `MCSessions`, `SessionsProofs` |
| `PathRange` | subtree tests over strings of bytes, of both stores | `MCPathRange`, `MCQuestions` |
| `Matching` | `MatchProfile::classify` | `MCMatching`, `Ranking`, `MCSessions` |
| `Scores` | the decay curves, sums, a stable sort | `Ranking`, `UsageRanking` |
| `Ranking` | `apply_matched`, the four shipped specs, `top_n` | `MCRanking`, `RankingProofs` |
| `UsageRanking` | `accumulate` and `rank_entries` | `MCQuestions` |
| `Keywords` | `matches_all` | `MCQuestions`, `MCSessions` |
| `ZoxideFormat` | `parse` and `encode` of db.zo | `MCQuestions` |
| `Config` | the tiers, the environment's overlays, the facade's lookups | `MCQuestions` |
| `ZoxideImport` | the import as concurrent processes that may die at any insert | `MCZoxideImport`, `ZoxideImportProofs` |
| `MCQuestions` | one question at a time to each part that only computes | `MCParts`, `QuestionsProofs` |
| `MCIndexer` | the daemon and the pool, one or the other | TLC only |
| `MCParts` | the questions, `MemStore` and `ZoxideImport`, one of them | TLC only |

Definitions named after a mistake (`PopPeeks`, `CheckAndMark`, ...), each marked
"Mistaken variant", are not part of any specification: `PROJECT.json` puts them
in the place of the right definition to show that the property notices.

### IndexDaemon

The daemon's thread is a program counter (`walk`, `index`, `upsert`, `prune`,
`mark`, `watch`, `recv`, `apply`, `gate`, `down`) over the collections the code
has: the stack of directories to read, the walked directories, the rows listed
for the prune, the pending set, the batch. Each read of a directory, each look
at a path and each store write is a step of its own; `act` holds what a look
decided until it is written. The filesystem (`Create`, `MoveIn`, `Remove`,
`Chmod`, `WriteBusy`) may change between any two.

- *Links* follow the code: `read_dir` does not follow them, `is_dir` and
  `exists` do. *Locked* directories are seen and cannot be entered; a `stat`
  below one fails, so `is_dir` and `exists` are FALSE there.
- *Times* are kept as facts. `churn` is "the root's mtime is later than its
  recorded walk", `since` "later than the `now` captured by the re-walk under
  way", `expired` "the interval has gone by". A root moved into place may have
  any mtime. Marking a walk turns `churn` into what happened since the recorded
  time: nothing for the initial pass, which records the end, and `since` for a
  re-walk, which records the start.
- *Events* are paths in a set: unordered, merged, lost (`BackendError`, or a
  watch refused part way, which may or may not report). A tree that is moved in
  or out reports its top only.
- *Debounce* is the rule that the timeout branch is taken only with an empty
  channel; time itself is not modelled.
- `everRemoved`, `everLost`, `dirty` and `unsure` are auxiliary.

### The stores

`DirStore` is the contract. `MemStore` refines it (`ImplementsDirStore`, with the
identity mapping on `visits`, `discovered` and `reply`): the store changes in the
middle of each critical section and the answer of `entries` is fixed while both
guards are held; a client has used its answer (`Used`) by the time it calls again.
`SqliteStore` does not refine it: its `entries` is two
snapshots. It extends `DirStore` instead and states what is left, relating the
answer to the history of the call in the auxiliary variables `always`,
`visitedAll` and `ever`. Visits are counted up to `MaxVisits`, and the timestamps
are left to `Ranking`.

`WalkPool` refines `RootWalks` in the same way (`ImplementsRootWalks`): the result
list is `results`, the caller's return is `returned`, and everything a worker does
before its push is a stutter.

### Sessions

One record per shell (`sh[c]`) holds where it is, the command it runs and how far it
has got: `literal` (the `builtin cd` as typed), `select` and `rows` (the process that
was asked, between the two SELECTs of `entries`), `pick` and `jump` (a target and the
`cd` to it), `again` (the wrapper's second try), `look` (a query's rows), `done` and
`prompt`. zsh records in the step that changes directory, bash in the step to the
prompt, with its memo. A background add waits in `pending` until it is delivered, in
any order and perhaps never. Meanwhile others write the store and make and remove
directories. What a row matches is a constant here (`MatchedBy`, `NamedBy`);
`MCSessions` computes it with the matchers of the other modules. The order of the
ranking is left open: `resolve` may be sent to any row that matches, which is more
than the code does, so what holds here holds of it. `RealPath` says what a path is
without symlinks: the hook records `$PWD` as it is spelled, `add` and `remove` of the
compatible CLI what `canonicalize` makes of it.

`from`, `met`, `answered`, `stayed`, `existed`, `noise` and `printed` are auxiliary:
what the command was given, what it met, and the errors and rows it wrote.

### The parts that only compute

A name is a sequence of characters that are already lower case, a path a sequence
of names, a needle its fragments. In `Ranking` a question (rows, needle, spec, limit)
comes with the action `Call` and every phase is an action, so that a spec with its
phases in another order is just another behaviour. `Specs` is every spec there could be,
`InShape` the pipelines of the shipped ones, whatever their cut. Scores are integers in units of
1/`Scale` (a floating point number there would be rounded as well); the ages in the
runs divide the scale where a property compares equal scores.

`UsageRanking`, `ZoxideFormat`, `Keywords` and `Config` are functions. A history is a
sequence of texts with or without a time. In a file every number is one byte wide, so
that short files hold every way to be cut, to wrap an offset or to go on too long. A
keyword's character is its width in bytes and the bytes of its lower case, as UTF-8 has
them, which is all that `matches_all` confuses: its slices panic past the end and inside
a character (`AtBoundary`).

A configuration is a record. A file tree has the canonical paths of its directories and
its links. The two tiers look at links differently: `is_dir`, by which the discovered tier
finds its services and organisations, follows them (`DirsIn`), and the roots it finds are
canonicalized (`Resolved`); the walk from a root does not, so that it reaches canonical
paths only (`Finds`).

The kind that weights a row is the one `classify` answers (`Worth`), which is not always
the best that applies: `BestFirst` is about the ranking, `BestKind` about the kind.

### ZoxideImport

Each invocation reads the file, checks the mark, imports row by row and marks. A row is
a transaction of as many inserts as it has visits: `InsertVisit` puts one into the open
transaction, the first taking SQLite's write lock (`MayWrite`), and `CommitRow` adds what
was inserted to the store that others read. An invocation may die at any of these, with
the rollback of what is open. `Modes` says how it was called: plainly, with `--force`, or as
`wadachi zoxide import`, which neither checks nor marks. A file that is missing or
malformed ends the invocation before the store is touched, whatever is wrong with
it: the parser's own cases are in `ZoxideFormat`. With `--if-present` a missing file
ends the same way, with another exit code.

## The runs

All finish within about two minutes on two workers.

| run | checks | bounds |
|---|---|---|
| `daemon_nested` | `TypeOK`, `DiscoveredAdmissible`, `GateNeverForgets`, `RowsWereDirs`, `LiveRowsKept` | 5 paths: a root inside another with another depth, an ignored and a too deep directory, and one that may come as a directory, a link or a log; a directory that may be locked, 2 changes, 1 death |
| `indexer` | `DaemonConverges`, `DaemonChecksGates`, `DaemonAppliesPending` (`Converges`, `GateChecked` and `PendingApplied` of the daemon); `PoolTypeOK`, `WalksOutsideLocks`, `PoolReturns`, `ImplementsRootWalks` (each root once, and all before the return) of the pool | daemon: 4 paths, 2 changes (links and permissions among them), 1 death, events may be lost; pool: 3 workers over 4 roots |
| `daemon_starved_gate` | refutes `GateChecked` | a file written again and again |
| `sessions` | `SqlTypeOK`, `OneEntryPerPath`, `VisitedNeverFloored`, `RcTellsTheMove`, `JumpsToMatches`, `OneAddPerMove`, `RealMissIsLoud`, `QueryHonest`, `QueryFindsLive` | zsh or bash, 3 paths of which two are one directory, any store and any tree to begin with, one command, one write and one change of the tree by others |
| `session_noise` | refutes `SilentMiss` | the same |
| `sqlite_store_lost` | refutes `CandidatesAllReturned` | a directory and one below it and a sibling, visits 0, 1, many |
| `parts` | `BestFirst`, `NoFlood`, `CounterAgrees` of the ranking; `StoresAgree`, `ComponentWise` of the subtree tests; `ScansMissNothing` of the matcher; `FeedIsExact`, `MuscleMemory` of the feed; `ExactlyTheFiles` of db.zo; `KeywordsInOrder`; `OneStore`, `DefaultCovers` of the configuration; `MemTypeOK`, `ImplementsDirStore` (and no deadlock) of the in-memory store; `ImportTypeOK`, `MarkedIsComplete`, `RowsAccounted`, `RepeatsAreHarmless` of the import | the questions: see below; the store: 2 threads; the import: 3 overlapping invocations of any mode, 2 deaths, 2 rows, 4 ranks about the rounding edges and beyond the clamp (`U32Max` is 3) |
| `best_kind` | refutes `BestKind` | the needles and paths of `parts` |
| `ranking_floor` | refutes `FloorNeverOutranks` | a visit long ago, a row without one, no needle |
| `default_gaps` | refutes `CoversEveryWorkspace` | the trees of `parts` |
| `ranking_misordered` | refutes `NeverSilentlyWrong` | two of the score phases in each other's place |
| `zoxide_import_resumed` | refutes `ScoreReproduced` | one that dies and is repeated |

`indexer` and `parts` check parts that share no variable, side by side and never
mixed: which of them runs is chosen at the start and stays (`part`), and the others keep
an initial state. So each property is one of the part it is named for.

The questions of `parts`: the four specs over every order of every choice of up to
4 rows and 3 needles; every path and needle over 2 letters with up to 3 components and
3 fragments; every string of up to 4 bytes and prefix of up to 3 over `.`, `/`, `0`,
`a`; every history of up to 4 lines; every file of up to 7 bytes and 2 rows; every
path over a letter of one byte, one of two and one whose lower case is longer, with
keywords over these and one whose lower case is shorter; every combination of variables
over branches of 7 directories, with a link on the way at `~/code`, the service, the
organisation, below it or nowhere, and names that the default passes over.

Why the bounds are enough. The daemon treats paths alike but for their place
under the roots, and its properties speak of one path (with what lies above it) or
of one root: two levels below a root, a root inside a root and a sibling give every
relation they distinguish. Two changes cover "gone and back again" and
"changed between a look and its write"; what a longer history of changes could do is
left to the proofs, which have no bound. `MAX_PENDING_EVENTS`
is 2, so both ends of a batch occur. The stores' properties relate two tables at two
moments, which two threads, or one reader and any writer, already exhaust; nothing in
the code depends on a count of visits above "several" except the scores, which are in
`Ranking`. A shell forgets a command when it gets the next, but for its directory and
bash's memo, and what earlier sessions did is in the choice of store and tree: a
second command starts as a first one does, except that bash may already have recorded
where it stands, which the bash of the run has too when the command begins. One write
and one change of the tree fall between any two steps of the command; the proofs allow
any number of shells, commands, writes and changes. Matching needs a fragment, one
after it and one component too few. The bytes of `PathRange` are the slash, the byte
before and after it and one far off; no test looks at more than the first byte after
the prefix. `TopK` is 3 instead of 50 in `Ranking`, so that it cuts lists of four.

`CHECK_DEADLOCK FALSE` is set where the modelled call returns and the model is over: a
shell at the last prompt, and the runs of one question or one import that refute a claim.
In `indexer` and `parts` deadlock is checked: a pool that has returned, an answered
question and an import that is over have a step that stutters, and nothing else has.

### Fairness

`IndexDaemon` assumes weak fairness of the thread's next step, of the two clocks and
of the supervisor, and nothing of the filesystem or the watcher: launchd and systemd
restart the process, the operating system runs its thread, time passes. `Daemon` is fair
as a whole, not action by action: the code does not choose between receiving and timing
out, so a file that is written all the time may keep it receiving, which is what
`daemon_starved_gate` shows. `WalkPool` assumes weak fairness of each worker, not of a
mutex: a worker can wait for one while the others come first, but the number of
critical sections is bounded by the roots. `Sessions` assumes none: nobody answers for
a user, a picker or a background process, and its properties are about commands that
have ended.

## What the runs show

What holds: the index holds only admissible paths that are or were directories, loses
no directory that was always there, and becomes right once the filesystem falls quiet,
through lost events, refused watches and a death; the pool walks each root once; the
in-memory store is atomic, as long as each client is through with an answer before it
calls again; the two stores agree on every subtree; the greedy matcher
misses nothing; rankings are in order whatever the order of the rows, by the kinds that the classifier
answers; a marked import is complete, no row of it is seen in part, and a damaged file
gives no row. A shell is never moved by a
command that fails, never sent to what does not match, and every move is recorded
once; `cd` never fails in silence; a query prints nothing that was not there and misses
no directory that was there, and visited, throughout. The prescribed tier indexes what
the discovered one reaches without a link below `~/code`, but for the names it passes over,
and every process finds the same database and ranking.

What the code does otherwise than its documentation says, with a counterexample each
(`findings` in `PROJECT.json`):

1. `GATE_CHECK_INTERVAL` and `MAX_PENDING_EVENTS` bound nothing when the same few paths
   change more often than the debounce window: each event goes back to the receive
   (`daemon_starved_gate`).
2. `DirFrecencyDb::entries` may miss a directory that was a candidate all along
   (`sqlite_store_lost`).
3. An import that died and is repeated doubles the visits of its first rows
   (`zoxide_import_resumed`); two that overlap double them all.
4. A `z` or `zi` that is sent to a directory which is gone writes the builtin's error to
   stderr, where "a failed jump is a silent `return 1`" (`session_noise`).
5. A pipeline with ApplyDecay, ComputeAge or Combine in another order is answered with
   wrong scores, where "every unimplemented or out-of-order phase surfaces"
   (`ranking_misordered`).
6. `classify` does not return "the *best* applicable `MatchKind`": it answers
   `ComponentPrefix` where `BasenameSubsequence`, which the ladder has above it, also
   applies, and the row gets half the weight (`best_kind`).
7. A directory that was never visited "can never outrank a single real visit", but does
   so once the only visit is older than 999 days: the floor is a constant
   (`ranking_floor`).
8. "`~/code` at depth 6 already covers every `service/org/repo` workspace", but not one
   below a service or an organisation that is a link: the discovered tier follows it, the
   walk of `~/code` does not (`default_gaps`).

Limits read off the code while modelling it, which the checked properties are worded
around:

- A directory below one whose permissions are taken away loses its row, since `is_dir`
  answers FALSE: `LiveRowsKept` speaks of directories that could be seen all along.
- A symlink made under a root gives its target a second row, until the prune finds
  that it leads nowhere: `DiscoveredAdmissible` is about paths, not targets.
- A limit above 50 is cut by `TopK`, the picker's 10000 among them: the room in
  `BestFirst` is the smaller of the two.
- `matches_all` moves on by the width of a keyword as given. With a letter that loses
  bytes in lower case (the Kelvin sign) it may miss a path, or panic past the end or inside
  a character, with one that gains some it may meet the next keyword on the bytes of this
  one: `KeywordsInOrder` is
  exact where the widths are kept and one-sided where they shrink.
- The query excludes its physical working directory, the hook records the logical one:
  below a symlink the shell's own directory may be listed. `QueryFindsLive` is about
  the reverse.
- `remove` of the compatible CLI resolves symlinks while the directory exists: it may
  leave the row that the hook wrote under another spelling.
- The discovered tier indexes below hidden and ignored organisations, which the default
  passes over: `DefaultCovers` and `CoversEveryWorkspace` leave such names out.
- `max_entries` and `cleanup_max_age_days` are read by nothing; a rank is clamped to
  `u32::MAX` visits only.
- `keep` above 0 is charged to the wrong root when a descendant ranks first. The shipped
  specs keep none, and `NoFlood` is about them.
- Nothing lies under the prefix `/`, so that a root `/` is never pruned:
  `ComponentWise` leaves that prefix out, `StoresAgree` does not.

## The proofs

| theorem | for every | argument |
|---|---|---|
| `IndexDaemonProofs!TypeCorrect` | tree, roots, depths, bounds | inductive as stated, one step per action |
| `IndexDaemonProofs!RowsAdmissible` | as above | `AdmissibleInv`: what is on the stack, found and about to be written is admissible as well, by induction on the walk's own steps |
| `IndexDaemonProofs!IndexHoldsDirectories` | as above | `RowInv`: every path on its way to a row is a directory or in `everLost` |
| `IndexDaemonProofs!NoLiveRowDeleted` | as above | `DirInv` on what a pending removal says of its path, and that losing a directory loses what is below it |
| `IndexDaemonProofs!GateForgetsNothing` | as above | `GateInv`: during a re-walk a change after the read is also in `since`, which is what the mark keeps |
| `WalkPoolProofs!PoolTypeCorrect`, `EachRootOnce`, `EveryRootWalked`, `WalksHoldNothing` | roots and workers, a concurrency of zero among them | `PoolInv`: the queue, the hands and the results hold each root once between them, and who holds which lock follows from where it is |
| `WalkPoolProofs!PoolImplements` | as above | under `PoolInv` a push appends a root that is not in the results, the join finds them all there, and every other step stutters |
| `MemStoreProofs!MemStoreLinearizable`, `MemTypeCorrect` | clients, paths, visits | `MemInv`: whoever is between the two locks holds the first, and its copy is the visits |
| `SqliteStoreProofs!SqlTypeCorrect`, `SqlOneEntryPerPath`, `SqlVisitedNeverFloored`, `SqlNothingInvented` | clients, paths, visits and writers | `SqlInv`: between the two SELECTs the first one's rows hold the directories visited throughout and only what was a candidate; a finished call keeps its answer |
| `SessionsProofs!RcTheorem`, `JumpTheorem`, `AddTheorem`, `LoudTheorem`, `QueryTheorem`, `FindsTheorem` | shells, paths, links, arguments, writes and changes of the tree | `SessionInv`: `SqlInv`, and `InOrder` for every shell, which says at each point of a command what it has met, recorded and written so far; for `FindsTheorem` also `Finding`: what a query has to find is printed or still to be looked at |
| `SessionsProofs!SessionsRankRealRows` | as above | every step of a session is one of `SqliteStore` or leaves it alone |
| `ZoxideImportProofs!MarkMeansComplete`, `ImportTypeCorrect`, `EveryRowAccounted` | invocations, rows, deaths at any insert | `ImportInv`: the rows behind an invocation's cursor are in the store and visits only grow; a cursor moves only with the commit of its whole row, and a death drops what is open |
| `ZoxideImportProofs!ImportsRepeat` | as above | while nothing is disturbed one plain import runs at a time and the store holds just the rows behind its cursor, none after it; once marked, the check stops the next |
| `RankingProofs!NoFloodAtLast` | rows, needle, limit, and every spec whose collapse keeps nothing and comes last but for cuts | `FloodInv`: after the collapse no row of the working set lies under another before it, and a cut takes from the end |
| `RankingProofs!ShippedIsBestFirst`, `ShippedNeverWrong` | rows in any order, needle, clock, limit, weights and curves, with the shipped phases or ones that never load | `BestInv`: `Stage` says what the working set is before each of the phases: the rows with their ages, weights and scores, the candidates, the candidates in order, and then the best of them, cut and collapsed |
| `RankingProofs!LogAndCounterAgree` | as above | `BestInv`, and that the newest visit of a log is its least age in whatever order it comes |
| `RankingProofs!ParitiesAreShipped` | cut | the four instances of `spec.rs` satisfy what these theorems suppose |
| `QuestionsProofs!RangeIsSubtree`, `StoresAnswerAlike` | strings of bytes | a string between `p/` and `p0` differs from `p` nowhere and has the slash next |
| `QuestionsProofs!BytesAreComponents`, `StoresAnswerByComponents` | canonical paths of bytes but `/` | the slashes of a path bound its names, one name between two of them; a path continues another with a slash just when it has its names first |
| `QuestionsProofs!ClassifyIsBestButOne`, `ScansSuffice` | needles and paths over any alphabet | a scan is a run of cursors: it never passes the cursor of any layout, and if it does not get lost its cursors are one |
| `QuestionsProofs!MatchesAllInOrder`, `QueryInOrder` | paths and keywords of letters of any widths | as above, with the last keyword bounded by the file name; a word that is shorter in lower case is passed by more than the bytes it met, so that no two words meet on the same; a text of whole characters ends in another one at the end of a character, so that no slice begins inside one |
| `QuestionsProofs!AccumulateIsExact`, `FeedLosesNothing` | histories over any texts | after each line the feed is that of the lines so far: its places and numbers grow with the line, and a text's entry is the one it had |
| `QuestionsProofs!RankKeepsOrder`, `PinMovesOne` | feeds, modes, clocks | a stable sort by a total order, after which taking one row out leaves the others in order |
| `QuestionsProofs!EncodedIsParsed`, `ParsedIsEncoded`, `FilesAreExact` | rows of text the machine can address; files | the offset of the parser after k rows is the length of the encoding of the first k, in both directions |
| `QuestionsProofs!TiersShareStore`, `OneStoreForAll` | environments and trees | no tier sets the path or the instance; the environment sets both in both places |
| `QuestionsProofs!CuratedCoversDiscovered`, `DefaultCoversAll` | trees with links, and paths over any names | six levels below wherever `~/code` leads hold the four below each service/org directory that is there, and not behind a link |
| `QuestionsProofs!AskedOneByOne`, `SubtreesWhoeverAsks`, `RankingWhoeverAsks` | questions asked in any order | every step of the composition is one of the pipeline, of the subtree tests, or leaves them alone |

The properties are not inductive as they stand because each speaks of the store or of
the end of a call, and what makes it true is what the thread carries between two
steps: the look it has made and not yet acted on, the root in a worker's hand, the copy
under a lock, the cursor of an import, the target of a jump. Each invariant adds exactly
that. The proofs rest on the assumptions the modules name (`PathsAssumption`, `BoundsAssumption`,
`InitKindAssumption`, `PoolAssumption`, `MemAssumption`, `BytesAssumption`,
`ImportAssumption`, `StoreAssumption`, `SessionAssumption`, `ScaleAssumption`,
`RankingAssumption`, `QuestionsAssumption`, `FormatAssumption`, `ConfigAssumption`,
`RowsAskedAssumption`, `PipelinesAssumption`), which TLC evaluates in the runs.

The parts that only compute are folds, and what a fold returns is proved without
induction on data: the fold is the recursive function of the library, so there is a run
of it, the sequence of its intermediate values, and what holds of the first and is kept
by each step holds of all, by taking the least that it would fail for
(`Induction`, from `WellFoundedInduction!WFMin` on the naturals). `RankingProofs` has these lemmas once
(`FoldExists`, `RunAlong`, `FoldStep`); each of the theorems states an invariant of its fold's
run, exactly as an invariant of a specification is stated.

What the theorems suppose beyond that:

- `BestFirst` and `CounterAgrees` are proved of pipelines that are `InShape` (the shipped
  phases in their order, the collapse and the cut there or not) or load nothing and are
  refused; another order is what `ranking_misordered` refutes. `NoFlood` needs
  `CollapsesLast` only. Every question of the run is of these kinds
  (`PipelinesAssumption`), and so are the four instances (`ParitiesAreShipped`).
- A store has one row for each path (`QuestionsAssumption`), which `SqlOneEntryPerPath` and
  the abstract contract give.
- `EncodedIsParsed` is about rows of text whose file the machine can address; the numbers
  are one byte wide in the model, so that the carry inside a number is not in it.
- `ComponentWise` is about canonical paths: what the daemon writes and asks.

Only model-checked: all liveness (`DaemonConverges`, `DaemonChecksGates`,
`DaemonAppliesPending`, `PoolReturns`), since fairness and ENABLED are out of the proof system's reach. Every
invariant and every refinement that a passing run checks is also proved.

## What is not modelled

- The watcher backend's own threads and queue limits; the order of events; the symlinks
  it follows. `read_dir` is one step for one directory. The batch is applied parents
  first, as the ordered set does; siblings come in any order.
- Canonicalisation of the daemon's roots and its failures: they are canonical in
  `IndexDaemon`. Chains of links, and links above `~/code`. Paths that are
  not UTF-8.
- SQLite's journal and timeouts: a statement happens or fails as a whole. The lock of a
  writer is in `ZoxideImport`, where transactions have several statements.
- Floating-point rounding, case folding, display.
- In `Sessions`: several paths given to one `add` or `remove` are one call for each; a
  picker that answers something it was not given; `CDPATH` and `cd -`; what a shell does
  in a directory that has been removed and made again. A move a shell makes besides these
  commands is recorded by the same hook.
- The argument loop of the compatible query (`--exclude`, `--score`, `--`, the refusals
  with exit 2), `init` and `CmdName`, `--version`, `config-show`, printing.
- A second indexer: `wadachi index` run beside the daemon. Its steps are those of the
  initial pass, but `IndexDaemon` has one writer of discovered rows.
- The Lisp specs, which are authored data of the same instances, and packaging.

## Plan

1. `IndexStore`: the one-shot `index` beside the daemon over one SQLite store: two
   writers with passes of their own (does a prune race the other's upsert?).
2. The argument loop of the compatible query, as questions.
3. Proofs: `ScoreReproduced` without overlap and deaths; that `BestFirst` leaves one
   answer only to the shipped pipelines, so that the two stores' rows in different
   orders give the same list; what a session can rely on of `DirStore` through either
   store.
