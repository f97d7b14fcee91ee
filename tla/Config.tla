-------------------------------- MODULE Config --------------------------------
(* The configuration tiers (config.rs) and what the facade resolves on its own *)
(* (lib.rs): which database, which ranking, which directories are indexed.     *)
(* Paths are sequences of names.  An environment variable is <<>> when unset,   *)
(* or not Unicode, and <<value>> otherwise.                                    *)
EXTENDS PathTree, FiniteSets

CONSTANTS
    DefaultDbPath,  \* default_db_path(): the data directory's wadachi/dirs.db
    SpecNames,      \* the names FrecencyRankingSpec::by_name knows
    IgnoredNames,   \* the ignore set of the prescribed default
    HiddenNames,    \* names that begin with a dot
    Cores           \* available_parallelism

SkimtabParityName == "skimtab-parity"

ASSUME ConfigAssumption == SkimtabParityName \in SpecNames /\ Cores \in Nat \ {0}

\* A file tree: its directories, by their canonical paths, and its links, from
\* the path of each to the directory it leads to: [dirs, links].
Home == <<"home">>
Code == <<"home", "code">>

Root(path, depth) == [path |-> path, max_depth |-> depth]

\* canonicalize(): the directory at p, or the one that a link there leads to.
Resolved(tree, p) == IF p \in DOMAIN tree.links THEN tree.links[p] ELSE p

\* What read_dir yields in d that is_dir() takes for a directory, which follows
\* links.
DirsIn(tree, d) ==
    {Resolved(tree, p) : p \in ChildrenIn(tree.dirs \cup DOMAIN tree.links, d)}

\* The service/org directories below ~/code; hidden and ignored ones as well.
\* They are named as canonical_roots names them for the indexer.
DiscoverWorkspaceRoots(tree) ==
    UNION {DirsIn(tree, service) : service \in DirsIn(tree, Resolved(tree, Code))}

Bare == [db_path |-> DefaultDbPath, ranking_instance |-> SkimtabParityName,
         enabled |-> FALSE, roots |-> {}, ignore_names |-> {}, index_hidden |-> FALSE,
         concurrency |-> 1]

Discovered(tree) ==
    [Bare EXCEPT !.roots = {Root(p, 4) : p \in DiscoverWorkspaceRoots(tree)},
                 !.concurrency = Cores]

\* (Mistaken variant: one level less below ~/code.)
CuratedShallower(tree) == {Root(Resolved(tree, Code), 5), Root(Home, 2)}

\* The pair that replaces the discovered roots.
Curated(tree) == {Root(Resolved(tree, Code), 6), Root(Home, 2)}

PrescribedDefault(tree) ==
    [Discovered(tree) EXCEPT !.enabled = TRUE, !.roots = Curated(tree),
        !.ignore_names = IgnoredNames, !.concurrency = IF @ < 8 THEN 8 ELSE @]

\* ConfigTier::from_env, resolve_tier.
ResolveTier(tier, tree) ==
    CASE tier = <<"bare">>       -> Bare
      [] tier = <<"discovered">> -> Discovered(tree)
      [] OTHER                   -> PrescribedDefault(tree)

\* var(..) with its fallback.
Or(variable, fallback) == IF variable = <<>> THEN fallback ELSE variable[1]

\* (Mistaken variant: the ranking is the tier's own.)
ActiveKeepsRanking(env, tree) ==
    LET tier == ResolveTier(env.tier, tree)
    IN  [tier EXCEPT !.db_path = Or(env.db, @)]

Active(env, tree) ==
    LET tier == ResolveTier(env.tier, tree)
    IN  [tier EXCEPT !.db_path = Or(env.db, @), !.ranking_instance = Or(env.ranking, @)]

\* WadachiConfig::spec.
SpecOf(config) ==
    IF config.ranking_instance \in SpecNames THEN config.ranking_instance ELSE SkimtabParityName

\* What record, resolve and top_n use without a configuration.
RuntimeDbPath(env) == Or(env.db, DefaultDbPath)
RuntimeSpec(env)   == IF env.ranking # <<>> /\ env.ranking[1] \in SpecNames
                      THEN env.ranking[1] ELSE SkimtabParityName

\* Whether the indexer finds the directory p from one of its roots: near enough
\* below it, with no name in between that is passed over.  The walk does not
\* follow links, so only the canonical path counts.
Finds(config, r, p) ==
    /\ StrictlyUnder(p, r.path) /\ Len(p) - Len(r.path) <= r.max_depth
    /\ \A i \in (Len(r.path) + 1)..Len(p) :
          /\ p[i] \notin config.ignore_names
          /\ p[i] \in HiddenNames => config.index_hidden

Indexed(config, p) == \E r \in config.roots : Finds(config, r, p)
=============================================================================
