-------------------------------- MODULE Sessions --------------------------------
(* Shells that have sourced the hook of `wadachi init`, on one shared store    *)
(* (SqliteStore) and one tree of directories that others change: z, zi and a   *)
(* cd with fallback, each a literal `builtin cd` and a `wadachi` process that  *)
(* is asked in between; the hook's own adds, in the background; and `wadachi   *)
(* zoxide query`, whose rows are looked at one by one.                         *)
EXTENDS SqliteStore

CONSTANTS
    Home,       \* where `builtin cd` goes without a directory
    RealPath,   \* for every path, what it is spelled without symbolic links
    Args,       \* what is typed after a command: a name, an option, nothing
    MatchedBy,  \* for every argument, the paths the ranking matches
    NamedBy,    \* for every argument, the paths matches_all accepts
    MaxCommands,\* how many commands a shell is given
    MaxWrites,  \* how often others write the store while commands run
    MaxTreeChanges \* how often directories come or go meanwhile

ASSUME SessionAssumption ==
    /\ RealPath \in [Paths -> Paths]
    /\ Home \in Paths
    /\ {MatchedBy, NamedBy} \subseteq [Args -> SUBSET Paths]
    /\ {MaxCommands, MaxWrites, MaxTreeChanges} \subseteq Nat

VARIABLES
    live,       \* the directories there are
    sh,         \* every shell and the command it runs
    pending,    \* the adds that run in the background, counted by path
    writes,     \* how often others have written the store
    treeChanges \* how often they have changed the tree

elsewhere   == <<live, writes, treeChanges>>
sessionVars == <<sqlVars, sh, pending, elsewhere>>

Nothing == ""       \* no argument
Options == "-P"     \* -?*
Nowhere == <<"nowhere">>
Jumps   == {"z", "cd", "zi"}

\* Path::is_dir, and what a `builtin cd` needs.
IsDir(p) == p \in Paths /\ RealPath[p] \in live

\* A tree: what is in a directory goes with it.
Trees == {D \in SUBSET {RealPath[p] : p \in Paths} :
             \A p \in Paths, q \in D : RealPath[p] = p /\ SameOrUnder(q, p) => p \in D}

\* zsh (chpwd) or bash (PROMPT_COMMAND), and where it starts.
Shell(bash, p) ==
    [bash |-> bash, cwd |-> p, memo |-> Nowhere, pc |-> "done", commands |-> 0,
     op |-> "none", arg |-> Nothing, list |-> FALSE, all |-> FALSE,
     target |-> Nowhere, todo |-> {}, exclude |-> {}, printed |-> {},
     rc |-> 0, noise |-> 0, adds |-> <<>>, from |-> p, met |-> Nowhere,
     answered |-> FALSE, stayed |-> {}, existed |-> {}]

\* The store and the tree as earlier sessions left them.
SessionInit ==
    /\ visits \in [Paths -> 0..MaxVisits]
    /\ discovered \in SUBSET {RealPath[p] : p \in Paths}
    /\ reply = [c \in Clients |-> {}]
    /\ NoCalls
    /\ live \in Trees
    /\ sh \in [Clients -> {Shell(b, p) : b \in BOOLEAN, p \in {q \in Paths : IsDir(q)}}]
    /\ pending = [p \in Paths |-> 0]
    /\ writes = 0
    /\ treeChanges = 0

\* Shell c becomes s; the add it has just spawned, if any, runs on its own.
Become(c, s) ==
    /\ sh' = [sh EXCEPT ![c] = s]
    /\ pending' = [p \in Paths |->
          IF s.adds = Append(sh[c].adds, p) THEN pending[p] + 1 ELSE pending[p]]
    /\ UNCHANGED elsewhere

Step(c, s) == Become(c, s) /\ UNCHANGED sqlVars

Done(s, rc) == [s EXCEPT !.pc = "done", !.rc = rc, !.target = Nowhere, !.todo = {}]

\* $PWD, as it is spelled, is recorded.
Spawn(s) == [s EXCEPT !.adds = Append(@, s.cwd)]

\* A `builtin cd` that succeeds; zsh runs the hook at once.
Arrive(s, p) ==
    LET t == [s EXCEPT !.cwd = p] IN Done(IF s.bash THEN t ELSE Spawn(t), 0)

\* A `builtin cd` whose error is not discarded, and what is next if it fails.
Cd(c, p, Failed(_)) ==
    Step(c, IF IsDir(p) THEN Arrive(sh[c], p)
                        ELSE Failed([sh[c] EXCEPT !.noise = @ + 1]))

\* (Mistaken variant: the wrapper leaves it at the answer of __wadachi_z.)
MissedOnce(s) == Done(s, 1)

\* The end of __wadachi_z or __wadachi_zi without a move; the `cd` wrapper tries
\* the builtin once more.
Missed(s) ==
    IF s.op = "cd" /\ s.arg # Nothing
    THEN [s EXCEPT !.pc = "again", !.target = Nowhere, !.todo = {}]
    ELSE Done(s, 1)

\* (Mistaken variant: the status of resolve is not looked at; `cd -- ""` succeeds
\* and stays.)
MissedUnnoticed(s) == Done(s, 0)

\* A resolve or a query that prints nothing, or fails.
Unanswered(s) == Missed(s)
-----------------------------------------------------------------------------
\* Shell s with a new command: a cd or a z first tries the directory as typed,
\* unless there is none or an option; zi and the query ask the store.
Begun(s, op, arg, list, all) ==
    [Shell(s.bash, s.cwd) EXCEPT
        !.memo = s.memo, !.commands = s.commands + 1,
        !.op = op, !.arg = arg, !.list = list, !.all = all,
        !.stayed = live, !.existed = live,
        !.pc = IF op \in {"zi", "query"} THEN "select"
               ELSE IF arg \in {Nothing, Options} THEN "direct" ELSE "literal"]

\* A command is typed.
Enter(c) ==
    /\ sh[c].pc = "prompt"
    /\ sh[c].commands < MaxCommands
    /\ \/ \E op \in Jumps, arg \in Args : Step(c, Begun(sh[c], op, arg, FALSE, FALSE))
       \/ \E arg \in Args \ {Options}, list, all \in BOOLEAN :
             Step(c, Begun(sh[c], "query", arg, list, all))

\* The directory as typed.
Literally(d, arg) == IF arg \in {Nothing, Options} THEN Home ELSE Append(d, arg)

\* What is typed now, where the shell is.
Typed(s) == Literally(s.cwd, s.arg)

\* No argument, or an option: the builtin alone.
Direct(c) == sh[c].pc = "direct" /\ Cd(c, Typed(sh[c]), Missed)

\* `builtin cd "$@" 2>/dev/null`
Literal(c) ==
    /\ sh[c].pc = "literal"
    /\ Step(c, IF IsDir(Typed(sh[c])) THEN Arrive(sh[c], Typed(sh[c]))
                                          ELSE [sh[c] EXCEPT !.pc = "select"])

\* `builtin cd -- "$__wadachi_t"`
Jump(c) == sh[c].pc = "jump" /\ Cd(c, sh[c].target, Missed)

\* The wrapper's last `builtin cd "$@"`.
Again(c) == sh[c].pc = "again" /\ Cd(c, Typed(sh[c]), LAMBDA s : Done(s, 1))

\* The process that was asked cannot open the store, or a statement fails.
Fails(c) == sh[c].pc = "select" /\ Step(c, Unanswered(sh[c]))

\* It opens the store, takes its own directory if there is one, and runs the
\* first SELECT of `entries`.
Open(c) ==
    /\ sh[c].pc = "select"
    /\ SelectVisits(c)
    /\ Become(c, [sh[c] EXCEPT !.pc = "rows",
          !.exclude = IF IsDir(sh[c].cwd) THEN {RealPath[sh[c].cwd]} ELSE {}])

\* The second one; which rows it ranks is for the module Ranking.
Rows(c) ==
    /\ sh[c].pc = "rows"
    /\ SelectDiscovered(c)
    /\ Become(c, [sh[c] EXCEPT !.pc = IF sh[c].op = "query" THEN "look" ELSE "pick",
                               !.todo = {e.path : e \in reply'[c]},
                               !.answered = TRUE])

\* (Mistaken variant: the argument does not reach the process.)
AnswersUnasked(s) == s.todo

\* The rows that match.
Answers(s) == s.todo \cap MatchedBy[s.arg]

\* resolve prints the best of them, zi the one that is picked, if any.
Pick(c) ==
    LET s == sh[c] IN
    /\ s.pc = "pick"
    /\ \/ \E p \in Answers(s) :
             Step(c, [s EXCEPT !.pc = "jump", !.target = p, !.met = p, !.todo = {}])
       \/ (Answers(s) = {} \/ s.op = "zi") /\ Step(c, Unanswered(s))

\* (Mistaken variant: a directory that has gone is printed all the same.)
ShownBlindly(s, p) == p \notin s.exclude /\ p \in NamedBy[s.arg]

\* What the query prints: not its own directory, a directory unless --all is
\* given, and one the keywords name.
Shown(s, p) == /\ p \notin s.exclude
               /\ s.all \/ IsDir(p)
               /\ p \in NamedBy[s.arg]

\* (Mistaken variant: the ranking keeps the best row before they are filtered.)
LooksAtBest(c) ==
    LET s == sh[c] IN
    /\ s.pc = "look"
    /\ \/ \E p \in s.todo :
             Step(c, IF Shown(s, p) THEN Done([s EXCEPT !.printed = @ \cup {p}], 0)
                                    ELSE Done(s, 1))
       \/ s.todo = {} /\ Step(c, Done(s, 1))

\* The rows in turn: the first that is shown, or with --list all of them.
Look(c) ==
    LET s == sh[c] IN
    /\ s.pc = "look"
    /\ \/ \E p \in s.todo :
             LET t == [s EXCEPT !.todo = @ \ {p},
                                !.printed = IF Shown(s, p) THEN @ \cup {p} ELSE @]
             IN  Step(c, IF Shown(s, p) /\ ~s.list THEN Done(t, 0) ELSE t)
       \/ s.todo = {} /\ Step(c, Done(s, IF s.printed = {} THEN 1 ELSE 0))

\* (Mistaken variant: the directory is not remembered.)
HookForgetful(s) == IF ~s.bash \/ s.memo = s.cwd THEN s ELSE Spawn(s)

\* PROMPT_COMMAND: bash records where it is, once while it stays there.
Hook(s) == IF ~s.bash \/ s.memo = s.cwd THEN s ELSE [Spawn(s) EXCEPT !.memo = s.cwd]

Prompt(c) == sh[c].pc = "done" /\ Step(c, [Hook(sh[c]) EXCEPT !.pc = "prompt"])

\* A background add reaches the store, or does not.
Deliver(p) ==
    /\ pending[p] > 0
    /\ pending' = [pending EXCEPT ![p] = @ - 1]
    /\ InsertVisit(p) \/ UNCHANGED sqlVars
    /\ UNCHANGED <<sh, elsewhere>>
-----------------------------------------------------------------------------
\* canonicalize, or the path as it is.
Absolute(p) == IF IsDir(p) THEN RealPath[p] ELSE p

\* Others are at work while a command runs: between commands, what they may have
\* done is in the choice of the initial state.
Meanwhile == \E c \in Clients : sh[c].pc \notin {"prompt", "done"}

\* Other sessions, importers and the indexer write the store.
ElsewhereWrites(p) ==
    /\ Meanwhile
    /\ writes < MaxWrites
    /\ writes' = writes + 1
    /\ \/ InsertVisit(p) \/ InsertVisits(p)
       \/ InsertVisit(Absolute(p)) \/ DeleteVisits(Absolute(p))
       \/ IsDir(p) /\ InsertDiscovered(p)
       \/ DeleteDiscovered(p)
    /\ UNCHANGED <<sh, pending, live, treeChanges>>

\* Directories go, with what is in them, and come: where a shell stands a new one
\* would not be the old one.
TreeChanges ==
    /\ Meanwhile
    /\ treeChanges < MaxTreeChanges
    /\ treeChanges' = treeChanges + 1
    /\ live' \in Trees
    /\ \E p \in Paths : \/ p \in live /\ live' = live \ Subtree(live, p)
                        \/ p \notin live /\ live' = live \cup {p}
    /\ \A c \in Clients : RealPath[sh[c].cwd] \notin live' \ live
    /\ sh' = [c \in Clients |-> [sh[c] EXCEPT !.stayed = @ \cap live', !.existed = @ \cup live']]
    /\ UNCHANGED <<sqlVars, pending, writes>>

SessionNext ==
    \/ \E c \in Clients : \/ Enter(c) \/ Direct(c) \/ Literal(c) \/ Jump(c) \/ Again(c)
                          \/ Fails(c) \/ Open(c) \/ Rows(c) \/ Pick(c) \/ Look(c)
                          \/ Prompt(c)
    \/ \E p \in Paths : Deliver(p) \/ ElsewhereWrites(p)
    \/ TreeChanges

SessionSpec == SessionInit /\ [][SessionNext]_sessionVars
-----------------------------------------------------------------------------
\* A command that has run.
Ran(c, ops) == sh[c].pc = "prompt" /\ sh[c].op \in ops

\* The exit code tells whether the shell moved: without a move it stays, and
\* with one it is where the argument says, or where the ranking sent it.
RcTellsTheMove ==
    \A c \in Clients : LET s == sh[c] IN Ran(c, Jumps) =>
        IF s.rc = 0
        THEN /\ RealPath[s.cwd] \in s.existed
             /\ s.cwd \in {Literally(s.from, s.arg), s.met}
        ELSE s.cwd = s.from

\* A shell that is sent elsewhere is sent to a directory the argument matches and
\* the store had while the command ran.
JumpsToMatches ==
    \A c \in Clients : LET s == sh[c] IN
        Ran(c, Jumps) /\ s.met # Nowhere => s.met \in MatchedBy[s.arg] \cap ever[c]

\* Every move is recorded, once, and nothing else is: by zsh each arrival, by
\* bash what is at the prompt a directory it was not at before.
OneAddPerMove ==
    \A c \in Clients : LET s == sh[c] IN Ran(c, Jumps \cup {"query"}) =>
        s.adds = IF (IF s.bash THEN s.cwd # s.from ELSE s.op # "query" /\ s.rc = 0)
                 THEN <<s.cwd>> ELSE <<>>

\* `cd` fails with the builtin's own error, however it missed.
RealMissIsLoud ==
    \A c \in Clients : Ran(c, {"cd"}) /\ sh[c].rc # 0 => sh[c].noise > 0

\* What a query prints was a candidate and, unless all are asked for, a directory
\* at some time while it ran, and the query says so by its exit code.
QueryHonest ==
    \A c \in Clients : LET s == sh[c] IN Ran(c, {"query"}) =>
        /\ s.rc = 0 <=> s.printed # {}
        /\ \A p \in s.printed : p \in ever[c] /\ (s.all \/ RealPath[p] \in s.existed)

\* A directory that is there and has visits throughout, that the keywords name
\* and that is not excluded, is found, whatever is changed around it.
QueryFindsLive ==
    \A c \in Clients : LET s == sh[c]
                           due == {p \in visitedAll[c] \cap NamedBy[s.arg] :
                                      RealPath[p] \in s.stayed /\ p \notin s.exclude}
                       IN  Ran(c, {"query"}) /\ s.answered =>
                              /\ due # {} => s.rc = 0
                              /\ s.list => due \subseteq s.printed

\* "a failed jump is a silent `return 1`."
SilentMiss ==
    \A c \in Clients :
        Ran(c, {"z", "zi"}) /\ sh[c].rc # 0 /\ sh[c].arg \notin {Nothing, Options}
            => sh[c].noise = 0
=============================================================================
