----------------------------- MODULE SessionsProofs -----------------------------
(* What a command of the hook does, for any number of shells, directories and  *)
(* arguments, on top of the invariant of the store.                            *)
EXTENDS Sessions, SqliteStoreProofs

-----------------------------------------------------------------------------
(* The store.                                                                  *)

\* Whatever a shell, a background add, another session, the indexer or the tree
\* does, it does to the store by the store's own statements.
LEMMA StepsOfTheStore == SessionNext => [SqlNext]_sqlVars
<1> SUFFICES ASSUME SessionNext PROVE SqlNext \/ UNCHANGED sqlVars OBVIOUS
<1>1. ASSUME NEW c \in Clients,
             Enter(c) \/ Direct(c) \/ Literal(c) \/ Jump(c) \/ Again(c) \/ Fails(c)
                \/ Pick(c) \/ Look(c) \/ Prompt(c)
      PROVE  UNCHANGED sqlVars
  <2>1. CASE Enter(c) BY <2>1 DEF Enter, Step
  <2>2. CASE Direct(c) BY <2>2 DEF Direct, Cd, Step
  <2>3. CASE Literal(c) BY <2>3 DEF Literal, Step
  <2>4. CASE Jump(c) BY <2>4 DEF Jump, Cd, Step
  <2>5. CASE Again(c) BY <2>5 DEF Again, Cd, Step
  <2>6. CASE Fails(c) BY <2>6 DEF Fails, Step
  <2>7. CASE Pick(c) BY <2>7 DEF Pick, Step
  <2>8. CASE Look(c) BY <2>8 DEF Look, Step
  <2>9. CASE Prompt(c) BY <2>9 DEF Prompt, Step
  <2> QED BY <1>1, <2>1, <2>2, <2>3, <2>4, <2>5, <2>6, <2>7, <2>8, <2>9
<1>2. ASSUME NEW c \in Clients, Open(c) PROVE SqlNext BY <1>2 DEF Open, SqlNext
<1>3. ASSUME NEW c \in Clients, Rows(c) PROVE SqlNext BY <1>3 DEF Rows, SqlNext
<1>4. ASSUME NEW p \in Paths, Deliver(p) PROVE SqlNext \/ UNCHANGED sqlVars
  BY <1>4 DEF Deliver, SqlNext
<1>5. ASSUME NEW p \in Paths, ElsewhereWrites(p) PROVE SqlNext
  <2>1. Absolute(p) \in Paths BY SessionAssumption DEF Absolute
  <2> QED BY <1>5, <2>1 DEF ElsewhereWrites, SqlNext
<1>6. TreeChanges => UNCHANGED sqlVars BY DEF TreeChanges
<1> QED BY <1>1, <1>2, <1>3, <1>4, <1>5, <1>6 DEF SessionNext

-----------------------------------------------------------------------------
(* Shells as records.                                                          *)

Running == {"direct", "literal", "select", "rows", "pick", "look", "jump", "again"}
Known   == Paths \cup {Nowhere}

Session ==
    [bash : BOOLEAN, cwd : Paths, memo : Known, pc : Running \cup {"done", "prompt"},
     commands : Nat, op : Jumps \cup {"query", "none"}, arg : Args \cup {Nothing},
     list : BOOLEAN, all : BOOLEAN, target : Known, todo : SUBSET Paths,
     exclude : SUBSET Paths, printed : SUBSET Paths, rc : {0, 1}, noise : Nat,
     adds : Seq(Paths), from : Paths, met : Known, answered : BOOLEAN,
     stayed : SUBSET Paths, existed : SUBSET Paths]

\* What is in order about a shell s whose command has met the rows E, in a tree
\* that has been through the directories L.
InOrder(s, L, E) ==
    \* Which command is where in its script.
    /\ s.pc \in {"select", "rows", "pick", "look"} =>
          s.op \in {"zi", "query"} \/ s.arg \notin {Nothing, Options}
    /\ s.pc = "literal" => s.arg \notin {Nothing, Options}
    /\ s.pc \in {"direct", "literal", "pick", "jump", "again"} => s.op \in Jumps
    /\ s.pc = "look" => s.op = "query"
    /\ s.pc \in Running => s.op # "none"
    \* A command that has not moved the shell has recorded nothing.
    /\ s.pc \in Running => s.cwd = s.from /\ s.adds = <<>>
    /\ s.pc \in {"done", "prompt"} /\ (s.op \notin Jumps \/ s.rc # 0) => s.cwd = s.from
    /\ s.pc = "done" =>
          s.adds = IF ~s.bash /\ s.op \in Jumps /\ s.rc = 0 THEN <<s.cwd>> ELSE <<>>
    /\ s.pc = "prompt" /\ s.op # "none" =>
          s.adds = IF (IF s.bash THEN s.cwd # s.from ELSE s.op # "query" /\ s.rc = 0)
                   THEN <<s.cwd>> ELSE <<>>
    \* bash remembers the directory of its last prompt.
    /\ s.bash /\ s.pc = "prompt" => s.memo = s.cwd
    /\ s.bash /\ s.pc # "prompt" /\ s.op # "none" => s.memo = s.from
    \* Where it has moved.
    /\ s.pc = "jump" => s.target = s.met
    /\ s.pc \in {"done", "prompt"} /\ s.op \in Jumps /\ s.rc = 0 =>
          /\ RealPath[s.cwd] \in s.existed
          /\ s.cwd \in {Literally(s.from, s.arg), s.met}
    /\ s.pc \in Running => L \subseteq s.existed
    \* What it has been told by the store.
    /\ s.pc \in {"pick", "look"} => s.todo \subseteq E
    /\ s.met # Nowhere => s.met \in MatchedBy[s.arg] \cap E
    /\ s.pc \notin {"select", "rows", "pick", "look"} => s.todo = {}
    /\ s.pc # "prompt" /\ s.pc # "done" /\ s.pc # "jump" /\ s.pc # "again" => s.met = Nowhere
    \* What it has printed.
    /\ s.printed # {} => s.op = "query"
    /\ s.pc \in Running /\ (s.pc # "look" \/ ~s.list) => s.printed = {}
    /\ s.pc \in {"done", "prompt"} /\ s.op = "query" => (s.rc = 0 <=> s.printed # {})
    /\ \A p \in s.printed : p \in E /\ (s.all \/ RealPath[p] \in s.existed)
    \* A cd that fails has been heard.
    /\ s.pc \in {"done", "prompt"} /\ s.op = "cd" /\ s.rc # 0 => s.noise > 0

\* The fields a command is typed with.
Same(s, t) ==
    /\ t.bash = s.bash /\ t.op = s.op /\ t.arg = s.arg /\ t.list = s.list /\ t.all = s.all
    /\ t.from = s.from /\ t.existed = s.existed /\ t.memo = s.memo

LEMMA DoneFields ==
    ASSUME NEW s \in Session, NEW r \in {0, 1}, NEW t, t = Done(s, r)
    PROVE  /\ t \in Session /\ Same(s, t)
           /\ t.cwd = s.cwd /\ t.adds = s.adds /\ t.pc = "done" /\ t.rc = r
           /\ t.todo = {} /\ t.met = s.met /\ t.noise = s.noise /\ t.printed = s.printed
BY DEF Session, Same, Done, Known, Running

LEMMA ArriveFields ==
    ASSUME NEW s \in Session, NEW p \in Paths, NEW t, t = Arrive(s, p)
    PROVE  /\ t \in Session /\ Same(s, t)
           /\ t.cwd = p /\ t.pc = "done" /\ t.rc = 0
           /\ t.adds = IF s.bash THEN s.adds ELSE Append(s.adds, p)
           /\ t.todo = {} /\ t.met = s.met /\ t.noise = s.noise /\ t.printed = s.printed
<1> DEFINE u == [s EXCEPT !.cwd = p]
           w == IF s.bash THEN u ELSE Spawn(u)
<1>1. /\ u \in Session /\ Same(s, u) /\ u.cwd = p /\ u.adds = s.adds
      /\ u.met = s.met /\ u.noise = s.noise /\ u.printed = s.printed
  BY DEF Session, Same
<1>2. /\ w \in Session /\ Same(s, w) /\ w.cwd = p
      /\ w.adds = IF s.bash THEN s.adds ELSE Append(s.adds, p)
      /\ w.met = s.met /\ w.noise = s.noise /\ w.printed = s.printed
  <2> HIDE DEF u
  <2>1. Append(u.adds, u.cwd) \in Seq(Paths)
    <3>1. u.adds \in Seq(Paths) /\ u.cwd \in Paths BY <1>1 DEF Session
    <3> QED BY <3>1
  <2>2. CASE s.bash BY <2>2, <1>1
  <2>3. CASE ~s.bash
    <3> DEFINE q == Append(u.adds, u.cwd)
    <3> HIDE DEF q
    <3>1. /\ [u EXCEPT !.adds = q] \in Session
          /\ Same(u, [u EXCEPT !.adds = q]) /\ [u EXCEPT !.adds = q].cwd = u.cwd
          /\ [u EXCEPT !.adds = q].adds = q
          /\ [u EXCEPT !.adds = q].met = u.met /\ [u EXCEPT !.adds = q].noise = u.noise
          /\ [u EXCEPT !.adds = q].printed = u.printed
      BY <1>1, <2>1 DEF Session, Same, q
    <3>2. w = [u EXCEPT !.adds = q]
      <4>1. w = Spawn(u) BY <2>3
      <4>2. Spawn(u) = [u EXCEPT !.adds = Append(u.adds, u.cwd)] BY <1>1 DEF Spawn, Session
      <4> QED BY <4>1, <4>2 DEF q
    <3> QED BY <3>1, <3>2, <1>1, <2>3 DEF Same, q
  <2> QED BY <2>2, <2>3
<1>3. t = Done(w, 0) BY DEF Arrive
<1> HIDE DEF w
<1>4. 0 \in {0, 1} OBVIOUS
<1> QED BY <1>2, <1>3, <1>4, DoneFields DEF Same

\* A `builtin cd` that succeeds, where the argument says or the ranking.
LEMMA ArriveInOrder ==
    ASSUME NEW s \in Session, NEW E, NEW p, IsDir(p), p \in {Typed(s), s.met},
           s.pc \in {"direct", "literal", "jump", "again"}, InOrder(s, live, E),
           NEW t, t = Arrive(s, p)
    PROVE  t \in Session /\ InOrder(t, live, E)
<1>1. p \in Paths /\ RealPath[p] \in live BY DEF IsDir
<1>2. /\ t \in Session /\ Same(s, t)
      /\ t.cwd = p /\ t.pc = "done" /\ t.rc = 0
      /\ t.adds = IF s.bash THEN s.adds ELSE Append(s.adds, p)
      /\ t.todo = {} /\ t.met = s.met /\ t.noise = s.noise /\ t.printed = s.printed
  BY <1>1, ArriveFields
<1>3. /\ s.op \in Jumps /\ s.op # "query" /\ s.printed = {}
      /\ s.adds = <<>> /\ s.cwd = s.from /\ live \subseteq s.existed
  BY DEF InOrder, Running, Jumps
<1>4. Append(<<>>, p) = <<p>> OBVIOUS
<1>5. t.adds = IF ~t.bash THEN <<t.cwd>> ELSE <<>> BY <1>2, <1>3, <1>4 DEF Same
<1>6. t.cwd \in {Literally(t.from, t.arg), t.met} /\ RealPath[t.cwd] \in t.existed
  BY <1>1, <1>2, <1>3 DEF Same, Typed
<1> QED BY <1>1, <1>2, <1>3, <1>5, <1>6 DEF InOrder, Running, Same

\* A command that has not moved the shell and gives up.
LEMMA DoneInOrder ==
    ASSUME NEW s \in Session, NEW L, NEW E, InOrder(s, L, E), s.pc \in Running,
           NEW r \in {0, 1},
           IF s.op = "query" THEN r = 0 <=> s.printed # {} ELSE r = 1,
           s.op = "cd" => s.noise > 0,
           NEW t, t = Done(s, r)
    PROVE  t \in Session /\ InOrder(t, L, E)
<1>1. /\ t \in Session /\ Same(s, t)
      /\ t.cwd = s.cwd /\ t.adds = s.adds /\ t.pc = "done" /\ t.rc = r
      /\ t.todo = {} /\ t.met = s.met /\ t.noise = s.noise /\ t.printed = s.printed
  BY DoneFields
<1> QED BY <1>1 DEF InOrder, Running, Same, Jumps

\* The wrapper's second try keeps everything but where it is in its script.
LEMMA MissedInOrder ==
    ASSUME NEW s \in Session, NEW L, NEW E, InOrder(s, L, E),
           s.pc \in {"direct", "select", "pick", "jump"},
           s.op = "cd" /\ s.arg = Nothing => s.noise > 0,
           NEW t, t = Missed(s)
    PROVE  t \in Session /\ InOrder(t, L, E)
<1>1. CASE s.op = "cd" /\ s.arg # Nothing
  <2>1. t = [s EXCEPT !.pc = "again", !.target = Nowhere, !.todo = {}] BY <1>1 DEF Missed
  <2>2. /\ t \in Session /\ Same(s, t)
        /\ t.cwd = s.cwd /\ t.adds = s.adds /\ t.pc = "again" /\ t.rc = s.rc
        /\ t.todo = {} /\ t.met = s.met /\ t.noise = s.noise /\ t.printed = s.printed
    <3> DEFINE v == [s EXCEPT !.pc = "again", !.target = Nowhere]
               w == [v EXCEPT !.todo = {}]
    <3>1. /\ v \in Session /\ Same(s, v)
          /\ v.cwd = s.cwd /\ v.adds = s.adds /\ v.pc = "again" /\ v.rc = s.rc
          /\ v.met = s.met /\ v.noise = s.noise /\ v.printed = s.printed
      BY DEF Session, Same, Known, Running
    <3> HIDE DEF v
    <3>2. /\ w \in Session /\ Same(v, w)
          /\ w.cwd = v.cwd /\ w.adds = v.adds /\ w.pc = v.pc /\ w.rc = v.rc
          /\ w.todo = {} /\ w.met = v.met /\ w.noise = v.noise /\ w.printed = v.printed
      BY <3>1 DEF Session, Same
    <3>3. w = t BY <2>1 DEF v
    <3> HIDE DEF w
    <3> QED BY <3>1, <3>2, <3>3 DEF Same
  <2>3. /\ s.cwd = s.from /\ s.adds = <<>> /\ L \subseteq s.existed /\ s.printed = {}
        /\ s.bash => s.memo = s.from
    BY <1>1 DEF InOrder, Running
  <2>4. s.met # Nowhere => s.met \in MatchedBy[s.arg] \cap E BY DEF InOrder
  <2>5. s.op \in Jumps /\ s.op # "none" BY <1>1 DEF Jumps
  <2> QED BY <2>2, <2>3, <2>4, <2>5 DEF InOrder, Running, Same
<1>2. CASE ~(s.op = "cd" /\ s.arg # Nothing)
  <2>1. t = Done(s, 1) BY <1>2 DEF Missed
  <2>2. s.pc \in Running /\ s.printed = {} BY DEF InOrder, Running
  <2>3. s.op = "cd" => s.noise > 0 BY <1>2
  <2> QED BY <2>1, <2>2, <2>3, DoneInOrder
<1> QED BY <1>1, <1>2

\* An error of the builtin.
Heard(s) == [s EXCEPT !.noise = @ + 1]

LEMMA HeardInOrder ==
    ASSUME NEW s \in Session, NEW L, NEW E, InOrder(s, L, E), s.pc \in Running,
           NEW t, t = Heard(s)
    PROVE  t \in Session /\ InOrder(t, L, E) /\ t.noise > 0 /\ t.pc = s.pc /\ t.op = s.op
           /\ t.printed = s.printed
<1>1. s.noise \in Nat /\ s.noise + 1 \in Nat /\ s.noise + 1 > 0 BY DEF Session
<1>2. /\ t \in Session /\ Same(s, t)
      /\ t.cwd = s.cwd /\ t.adds = s.adds /\ t.pc = s.pc /\ t.rc = s.rc /\ t.target = s.target
      /\ t.todo = s.todo /\ t.met = s.met /\ t.noise = s.noise + 1 /\ t.printed = s.printed
  BY <1>1 DEF Heard, Session, Same
<1> QED BY <1>1, <1>2 DEF InOrder, Running, Same, Jumps

-----------------------------------------------------------------------------
(* Every shell is in order.                                                    *)

ShellsInOrder ==
    /\ sh \in [Clients -> Session]
    /\ live \subseteq Paths
    /\ \A c \in Clients : /\ c \in between <=> sh[c].pc = "rows"
                          /\ InOrder(sh[c], live, ever[c])

SessionInv == SqlInv /\ ShellsInOrder

\* While the rows are awaited, nothing has been learnt from the store.
LEMMA AwaitingInOrder ==
    ASSUME NEW s, NEW L, NEW E, NEW F, InOrder(s, L, E), s.pc = "rows"
    PROVE  InOrder(s, L, F)
<1>1. s.printed = {} /\ s.met = Nowhere BY DEF InOrder, Running
<1> QED BY <1>1 DEF InOrder, Running

\* A step of one shell that leaves the store alone.
LEMMA LocalStep ==
    ASSUME ShellsInOrder, NEW c \in Clients, NEW t \in Session,
           InOrder(t, live, ever[c]), t.pc # "rows", sh[c].pc # "rows", Step(c, t)
    PROVE  ShellsInOrder'
<1>1. /\ sh' = [sh EXCEPT ![c] = t] /\ live' = live /\ between' = between /\ ever' = ever
  BY DEF Step, Become, elsewhere, sqlVars, readVars
<1>2. sh' \in [Clients -> Session] BY <1>1 DEF ShellsInOrder
<1>3. ASSUME NEW d \in Clients
      PROVE  (d \in between' <=> sh'[d].pc = "rows") /\ InOrder(sh'[d], live', ever'[d])
  <2>1. CASE d = c BY <2>1, <1>1 DEF ShellsInOrder
  <2>2. CASE d # c BY <2>2, <1>1 DEF ShellsInOrder
  <2> QED BY <2>1, <2>2
<1> QED BY <1>1, <1>2, <1>3 DEF ShellsInOrder

LEMMA EnterStep == ASSUME ShellsInOrder, NEW c \in Clients, Enter(c) PROVE ShellsInOrder'
<1> DEFINE s == sh[c]
<1>1. s \in Session /\ InOrder(s, live, ever[c]) /\ s.pc = "prompt"
  BY DEF ShellsInOrder, Enter
<1>2. PICK op \in Jumps \cup {"query"}, arg \in Args, list \in BOOLEAN, all \in BOOLEAN :
        (op = "query" => arg # Options) /\ Step(c, Begun(s, op, arg, list, all))
  <2>1. CASE \E op \in Jumps, arg \in Args : Step(c, Begun(s, op, arg, FALSE, FALSE))
    BY <2>1 DEF Jumps
  <2>2. CASE \E arg \in Args \ {Options}, list, all \in BOOLEAN :
               Step(c, Begun(s, "query", arg, list, all))
    BY <2>2
  <2> QED BY <2>1, <2>2 DEF Enter
<1> DEFINE where == IF op \in {"zi", "query"} THEN "select"
                    ELSE IF arg \in {Nothing, Options} THEN "direct" ELSE "literal"
           u == Shell(s.bash, s.cwd)
           t == Begun(s, op, arg, list, all)
<1>3. /\ s.bash \in BOOLEAN /\ s.cwd \in Paths /\ s.memo \in Known /\ s.commands + 1 \in Nat
      /\ s.bash => s.memo = s.cwd
  BY <1>1 DEF Session, InOrder
<1>4. live \subseteq Paths /\ where \in {"select", "direct", "literal"} BY DEF ShellsInOrder
<1> HIDE DEF s
<1>5. /\ u \in Session
      /\ u.bash = s.bash /\ u.cwd = s.cwd /\ u.from = s.cwd /\ u.todo = {} /\ u.printed = {}
      /\ u.adds = <<>> /\ u.met = Nowhere
  BY <1>3 DEF Shell, Session, Known, Running
<1>6. t = [u EXCEPT
             !.memo = s.memo, !.commands = s.commands + 1,
             !.op = op, !.arg = arg, !.list = list, !.all = all,
             !.stayed = live, !.existed = live, !.pc = where]
  BY DEF Begun
<1> HIDE DEF t, u, where
<1>7. t \in Session
  <2>1. /\ op \in Jumps \cup {"query", "none"} /\ arg \in Args \cup {Nothing}
        /\ live \in SUBSET Paths /\ list \in BOOLEAN /\ all \in BOOLEAN
    BY <1>4
  <2>2. where \in Running \cup {"done", "prompt"} BY <1>4 DEF Running
  <2> DEFINE v == [u EXCEPT !.memo = s.memo, !.commands = s.commands + 1, !.op = op, !.arg = arg]
  <2>3. v \in Session BY <2>1, <1>3, <1>5 DEF Session
  <2> HIDE DEF v
  <2>4. [v EXCEPT !.list = list, !.all = all, !.stayed = live, !.existed = live, !.pc = where]
           \in Session
    BY <2>1, <2>2, <2>3 DEF Session
  <2>5. t = [v EXCEPT !.list = list, !.all = all, !.stayed = live, !.existed = live, !.pc = where]
    BY <1>6 DEF v
  <2> QED BY <2>4, <2>5
<1>8. /\ t.bash = s.bash /\ t.cwd = s.cwd /\ t.from = s.cwd /\ t.memo = s.memo /\ t.pc = where
      /\ t.op = op /\ t.arg = arg /\ t.todo = {} /\ t.printed = {} /\ t.adds = <<>>
      /\ t.met = Nowhere /\ t.existed = live
  BY <1>5, <1>6 DEF Session
<1>9. InOrder(t, live, ever[c])
  BY <1>1, <1>2, <1>3, <1>4, <1>8 DEF InOrder, Running, Jumps, where
<1>10. Step(c, t) BY <1>2 DEF t
<1> QED BY <1>1, <1>4, <1>7, <1>8, <1>9, <1>10, LocalStep DEF s

LEMMA PromptStep == ASSUME ShellsInOrder, NEW c \in Clients, Prompt(c) PROVE ShellsInOrder'
<1> DEFINE s == sh[c]
           h == Hook(s)
           t == [h EXCEPT !.pc = "prompt"]
<1>1. s \in Session /\ InOrder(s, live, ever[c]) /\ s.pc = "done" BY DEF ShellsInOrder, Prompt
<1>2. Step(c, t) BY DEF Prompt
<1> HIDE DEF s
<1> DEFINE q == Append(s.adds, s.cwd)
<1>3. q \in Seq(Paths) /\ s.cwd \in Known BY <1>1 DEF Session, Known
<1> HIDE DEF q
<1>4. /\ h \in Session
      /\ h.bash = s.bash /\ h.op = s.op /\ h.arg = s.arg /\ h.all = s.all /\ h.from = s.from
      /\ h.existed = s.existed /\ h.cwd = s.cwd /\ h.rc = s.rc /\ h.todo = s.todo
      /\ h.met = s.met /\ h.noise = s.noise /\ h.printed = s.printed
      /\ h.memo = IF s.bash THEN s.cwd ELSE s.memo
      /\ h.adds = IF ~s.bash \/ s.memo = s.cwd THEN s.adds ELSE q
  <2>1. CASE ~s.bash \/ s.memo = s.cwd
    <3>1. h = s BY <2>1 DEF Hook
    <3> QED BY <3>1, <2>1, <1>1
  <2>2. CASE s.bash /\ s.memo # s.cwd
    <3>1. h = [[s EXCEPT !.adds = q] EXCEPT !.memo = s.cwd]
      <4>1. h = [Spawn(s) EXCEPT !.memo = s.cwd] BY <2>2 DEF Hook
      <4>2. Spawn(s) = [s EXCEPT !.adds = q] BY <1>1 DEF Spawn, Session, q
      <4> QED BY <4>1, <4>2
    <3> DEFINE v == [s EXCEPT !.adds = q]
    <3>2. /\ v \in Session /\ v.adds = q
          /\ v.bash = s.bash /\ v.op = s.op /\ v.arg = s.arg /\ v.all = s.all
          /\ v.from = s.from /\ v.existed = s.existed /\ v.cwd = s.cwd /\ v.rc = s.rc
          /\ v.todo = s.todo /\ v.met = s.met /\ v.noise = s.noise /\ v.printed = s.printed
      BY <1>1, <1>3 DEF Session
    <3>3. h = [v EXCEPT !.memo = s.cwd] BY <3>1
    <3> HIDE DEF v
    <3>4. h \in Session BY <3>2, <3>3, <1>3 DEF Session
    <3>5. /\ h.bash = v.bash /\ h.op = v.op /\ h.arg = v.arg /\ h.all = v.all
          /\ h.from = v.from /\ h.existed = v.existed /\ h.cwd = v.cwd /\ h.rc = v.rc
          /\ h.todo = v.todo /\ h.met = v.met /\ h.noise = v.noise
          /\ h.printed = v.printed /\ h.memo = s.cwd /\ h.adds = q
      BY <3>2, <3>3 DEF Session
    <3> HIDE DEF h
    <3> QED BY <3>2, <3>4, <3>5, <2>2
  <2> QED BY <2>1, <2>2
<1> HIDE DEF h
<1>5. /\ t \in Session /\ t.pc = "prompt"
      /\ t.bash = h.bash /\ t.op = h.op /\ t.arg = h.arg /\ t.all = h.all /\ t.from = h.from
      /\ t.existed = h.existed /\ t.cwd = h.cwd /\ t.rc = h.rc /\ t.todo = h.todo
      /\ t.met = h.met /\ t.noise = h.noise /\ t.printed = h.printed
      /\ t.memo = h.memo /\ t.adds = h.adds
  BY <1>4 DEF Session
<1> HIDE DEF t
<1>6. Append(<<>>, s.cwd) = <<s.cwd>> OBVIOUS
<1>7. s.op # "none" => t.adds = IF (IF t.bash THEN t.cwd # t.from ELSE t.op # "query" /\ t.rc = 0)
                                THEN <<t.cwd>> ELSE <<>>
  <2> SUFFICES ASSUME s.op # "none"
               PROVE  t.adds = IF (IF t.bash THEN t.cwd # t.from ELSE t.op # "query" /\ t.rc = 0)
                               THEN <<t.cwd>> ELSE <<>>
    OBVIOUS
  <2>1. CASE s.bash
    <3>1. s.memo = s.from /\ s.adds = <<>> BY <2>1, <1>1 DEF InOrder
    <3> QED BY <2>1, <3>1, <1>4, <1>5, <1>6 DEF q
  <2>2. CASE ~s.bash
    <3>1. s.op \in Jumps <=> s.op # "query" BY <1>1 DEF Session, Jumps
    <3>2. s.adds = IF s.op \in Jumps /\ s.rc = 0 THEN <<s.cwd>> ELSE <<>>
      BY <2>2, <1>1 DEF InOrder
    <3> QED BY <2>2, <3>1, <3>2, <1>4, <1>5
  <2> QED BY <2>1, <2>2
<1>8. InOrder(t, live, ever[c]) BY <1>1, <1>4, <1>5, <1>7 DEF InOrder, Running
<1> QED BY <1>1, <1>2, <1>5, <1>8, LocalStep DEF s

\* A `builtin cd` whose error is heard: it moves the shell, or what failing makes
\* of it is in order.
LEMMA CdStep ==
    ASSUME ShellsInOrder, NEW c \in Clients, NEW p, p \in {Typed(sh[c]), sh[c].met},
           sh[c].pc \in {"direct", "jump", "again"},
           NEW f \in Session, InOrder(f, live, ever[c]), f.pc # "rows",
           Step(c, IF IsDir(p) THEN Arrive(sh[c], p) ELSE f)
    PROVE  ShellsInOrder'
<1>1. sh[c] \in Session /\ InOrder(sh[c], live, ever[c]) BY DEF ShellsInOrder
<1>2. CASE IsDir(p)
  <2> DEFINE t == Arrive(sh[c], p)
  <2>1. t \in Session /\ InOrder(t, live, ever[c]) BY <1>1, <1>2, ArriveInOrder
  <2>2. t.pc = "done" BY <1>1, <1>2, ArriveFields DEF IsDir
  <2>3. Step(c, t) BY <1>2
  <2> HIDE DEF t
  <2> QED BY <2>1, <2>2, <2>3, LocalStep
<1>3. CASE ~IsDir(p) BY <1>3, LocalStep
<1> QED BY <1>2, <1>3

\* What is left of a shell that gives up is never waiting for rows.
LEMMA MissedWhere ==
    ASSUME NEW s \in Session PROVE Missed(s).pc \in {"again", "done"}
<1>1. Done(s, 1).pc = "done" BY DoneFields
<1>2. [s EXCEPT !.pc = "again", !.target = Nowhere, !.todo = {}].pc = "again" BY DEF Session
<1> QED BY <1>1, <1>2 DEF Missed

LEMMA BuiltinStep ==
    ASSUME ShellsInOrder, NEW c \in Clients,
           Direct(c) \/ Literal(c) \/ Jump(c) \/ Again(c)
    PROVE  ShellsInOrder'
<1> DEFINE s == sh[c]
           u == [s EXCEPT !.noise = @ + 1]
<1>1. s \in Session /\ InOrder(s, live, ever[c]) BY DEF ShellsInOrder
<1>2. s.pc \in {"direct", "literal", "jump", "again"} BY DEF Direct, Literal, Jump, Again
<1>3. s.pc \in Running BY <1>2 DEF Running
<1>4. /\ u \in Session /\ InOrder(u, live, ever[c]) /\ u.noise > 0
      /\ u.pc = s.pc /\ u.op = s.op /\ u.printed = s.printed
  <2>1. u = Heard(s) BY DEF Heard
  <2> HIDE DEF s, u
  <2> QED BY <2>1, <1>1, <1>3, HeardInOrder
<1>5. CASE Direct(c)
  <2>1. /\ s.pc = "direct"
        /\ Step(c, IF IsDir(Typed(s)) THEN Arrive(s, Typed(s)) ELSE Missed(u))
    BY <1>5 DEF Direct, Cd
  <2> HIDE DEF s, u
  <2>2. Missed(u) \in Session /\ InOrder(Missed(u), live, ever[c])
    BY <1>4, <2>1, MissedInOrder
  <2>3. Missed(u).pc # "rows" BY <1>4, MissedWhere
  <2> QED BY <2>1, <2>2, <2>3, CdStep DEF s
<1>6. CASE Jump(c)
  <2>1. /\ s.pc = "jump"
        /\ Step(c, IF IsDir(s.target) THEN Arrive(s, s.target) ELSE Missed(u))
    BY <1>6 DEF Jump, Cd
  <2>2. s.target = s.met BY <2>1, <1>1 DEF InOrder
  <2> HIDE DEF s, u
  <2>3. Missed(u) \in Session /\ InOrder(Missed(u), live, ever[c])
    BY <1>4, <2>1, MissedInOrder
  <2>4. Missed(u).pc # "rows" BY <1>4, MissedWhere
  <2> QED BY <2>1, <2>2, <2>3, <2>4, CdStep DEF s
<1>7. CASE Again(c)
  <2>1. /\ s.pc = "again"
        /\ Step(c, IF IsDir(Typed(s)) THEN Arrive(s, Typed(s)) ELSE Done(u, 1))
    BY <1>7 DEF Again, Cd
  <2> HIDE DEF s, u
  <2>2. u.pc \in Running /\ u.op # "query" BY <1>1, <1>3, <1>4, <2>1 DEF InOrder, Jumps
  <2>3. Done(u, 1) \in Session /\ InOrder(Done(u, 1), live, ever[c])
    BY <1>4, <2>2, DoneInOrder
  <2>4. Done(u, 1).pc # "rows" BY <1>4, DoneFields
  <2> QED BY <2>1, <2>3, <2>4, CdStep DEF s
<1>8. CASE Literal(c)
  <2> DEFINE v == [s EXCEPT !.pc = "select"]
  <2>1. /\ s.pc = "literal"
        /\ Step(c, IF IsDir(Typed(s)) THEN Arrive(s, Typed(s)) ELSE v)
    BY <1>8 DEF Literal
  <2> HIDE DEF s
  <2>2. /\ v \in Session /\ Same(s, v) /\ v.cwd = s.cwd /\ v.adds = s.adds
        /\ v.pc = "select" /\ v.todo = s.todo /\ v.met = s.met /\ v.noise = s.noise
        /\ v.printed = s.printed /\ v.rc = s.rc
    BY <1>1 DEF Session, Same, Running
  <2> HIDE DEF v
  <2>3. InOrder(v, live, ever[c]) BY <1>1, <2>1, <2>2 DEF InOrder, Running, Same, Jumps
  <2>4. CASE IsDir(Typed(s))
    <3> DEFINE t == Arrive(s, Typed(s))
    <3>1. t \in Session /\ InOrder(t, live, ever[c])
      BY <1>1, <1>2, <2>4, ArriveInOrder
    <3>2. t.pc = "done" BY <1>1, <2>4, ArriveFields DEF IsDir
    <3>3. Step(c, t) BY <2>1, <2>4
    <3> HIDE DEF t
    <3> QED BY <3>1, <3>2, <3>3, <2>1, LocalStep DEF s
  <2>5. CASE ~IsDir(Typed(s)) BY <2>1, <2>2, <2>3, <2>5, LocalStep DEF s
  <2> QED BY <2>4, <2>5
<1> QED BY <1>5, <1>6, <1>7, <1>8

LEMMA AnswerStep ==
    ASSUME ShellsInOrder, NEW c \in Clients, Fails(c) \/ Pick(c)
    PROVE  ShellsInOrder'
<1> DEFINE s == sh[c]
<1>1. s \in Session /\ InOrder(s, live, ever[c]) BY DEF ShellsInOrder
<1>2. s.pc \in {"select", "pick"} BY DEF Fails, Pick
<1>3. CASE Step(c, Missed(s))
  <2> HIDE DEF s
  <2>1. s.op = "cd" => s.arg # Nothing BY <1>1, <1>2 DEF InOrder
  <2>2. Missed(s) \in Session /\ InOrder(Missed(s), live, ever[c])
    BY <1>1, <1>2, <2>1, MissedInOrder
  <2>3. Missed(s).pc # "rows" BY <1>1, MissedWhere
  <2> QED BY <1>2, <1>3, <2>2, <2>3, LocalStep DEF s
<1>4. ASSUME NEW p \in Answers(s), s.pc = "pick",
             Step(c, [s EXCEPT !.pc = "jump", !.target = p, !.met = p, !.todo = {}])
      PROVE  ShellsInOrder'
  <2> HIDE DEF s
  <2> DEFINE t == [s EXCEPT !.pc = "jump", !.target = p, !.met = p, !.todo = {}]
  <2>1. p \in Known /\ p \in MatchedBy[s.arg] \cap ever[c]
    BY <1>1, <1>4 DEF Answers, InOrder, Session, Known
  <2>2. /\ t \in Session /\ Same(s, t) /\ t.cwd = s.cwd /\ t.adds = s.adds
        /\ t.pc = "jump" /\ t.todo = {} /\ t.met = p /\ t.target = p /\ t.noise = s.noise
        /\ t.printed = s.printed /\ t.rc = s.rc
    BY <1>1, <2>1 DEF Session, Same, Running
  <2>3. Step(c, t) BY <1>4
  <2> HIDE DEF t
  <2>4. InOrder(t, live, ever[c]) BY <1>1, <1>4, <2>1, <2>2 DEF InOrder, Running, Same, Jumps
  <2> QED BY <1>4, <2>2, <2>3, <2>4, LocalStep DEF s
<1> QED BY <1>3, <1>4 DEF Fails, Pick, Unanswered

LEMMA LookStep == ASSUME ShellsInOrder, NEW c \in Clients, Look(c) PROVE ShellsInOrder'
<1> DEFINE s == sh[c]
<1>1. s \in Session /\ InOrder(s, live, ever[c]) /\ s.pc = "look" BY DEF ShellsInOrder, Look
<1>2. /\ s.op = "query" /\ s.op # "cd" /\ s.todo \subseteq ever[c] /\ live \subseteq s.existed
      /\ ~s.list => s.printed = {}
  BY <1>1 DEF InOrder, Running
<1>3. CASE s.todo = {} /\ Step(c, Done(s, IF s.printed = {} THEN 1 ELSE 0))
  <2> DEFINE r == IF s.printed = {} THEN 1 ELSE 0
  <2>1. r \in {0, 1} /\ (r = 0 <=> s.printed # {}) BY <1>1
  <2>2. s.pc \in Running BY <1>1 DEF Running
  <2>3. Step(c, Done(s, r)) BY <1>3
  <2> HIDE DEF r, s
  <2>4. Done(s, r) \in Session /\ InOrder(Done(s, r), live, ever[c])
    BY <1>1, <1>2, <2>1, <2>2, DoneInOrder
  <2>5. Done(s, r).pc = "done" BY <1>1, <2>1, DoneFields
  <2> QED BY <1>1, <2>3, <2>4, <2>5, LocalStep DEF s
<1>4. ASSUME NEW p \in s.todo,
             LET t == [s EXCEPT !.todo = @ \ {p},
                                !.printed = IF Shown(s, p) THEN @ \cup {p} ELSE @]
             IN  Step(c, IF Shown(s, p) /\ ~s.list THEN Done(t, 0) ELSE t)
      PROVE  ShellsInOrder'
  <2> DEFINE now == IF Shown(s, p) THEN s.printed \cup {p} ELSE s.printed
             t == [s EXCEPT !.todo = @ \ {p}, !.printed = now]
  <2>1. p \in Paths /\ p \in ever[c] /\ now \in SUBSET Paths BY <1>1, <1>2, <1>4 DEF Session
  <2>2. Shown(s, p) => s.all \/ RealPath[p] \in s.existed BY <1>2 DEF Shown, IsDir
  <2>3. Step(c, IF Shown(s, p) /\ ~s.list THEN Done(t, 0) ELSE t)
    <3>1. t = [s EXCEPT !.todo = @ \ {p},
                        !.printed = IF Shown(s, p) THEN @ \cup {p} ELSE @]
      BY <1>1 DEF Session
    <3> QED BY <3>1, <1>4
  <2>4. now # {} /\ ~s.list => Shown(s, p) BY <1>2
  <2>5. Shown(s, p) => p \in now OBVIOUS
  <2>6. \A q \in now : q \in ever[c] /\ (s.all \/ RealPath[q] \in s.existed)
    BY <1>1, <2>1, <2>2 DEF InOrder
  <2> HIDE DEF s, now
  <2>7. /\ t \in Session /\ Same(s, t) /\ t.cwd = s.cwd /\ t.adds = s.adds
        /\ t.pc = "look" /\ t.todo = s.todo \ {p} /\ t.met = s.met /\ t.target = s.target
        /\ t.noise = s.noise /\ t.printed = now /\ t.rc = s.rc
    BY <1>1, <2>1 DEF Session, Same
  <2> HIDE DEF t
  <2>8. CASE Shown(s, p) /\ ~s.list
    <3> DEFINE d == Done(t, 0)
    <3>1. /\ d \in Session /\ Same(t, d) /\ d.cwd = t.cwd /\ d.adds = t.adds /\ d.pc = "done"
          /\ d.rc = 0 /\ d.todo = {} /\ d.met = t.met /\ d.noise = t.noise
          /\ d.printed = t.printed
      BY <2>7, DoneFields
    <3>2. Step(c, d) BY <2>3, <2>8
    <3> HIDE DEF d
    <3>3. InOrder(d, live, ever[c])
      BY <1>1, <1>2, <2>5, <2>6, <2>7, <2>8, <3>1 DEF InOrder, Running, Same, Jumps
    <3> QED BY <1>1, <3>1, <3>2, <3>3, LocalStep DEF s
  <2>9. CASE ~(Shown(s, p) /\ ~s.list)
    <3>1. InOrder(t, live, ever[c])
      <4>1. ~s.list => now = {} BY <2>4, <2>9
      <4> QED BY <1>1, <1>2, <2>6, <2>7, <4>1 DEF InOrder, Running, Same, Jumps
    <3>2. Step(c, t) BY <2>3, <2>9
    <3> QED BY <1>1, <2>7, <3>1, <3>2, LocalStep DEF s
  <2> QED BY <2>8, <2>9
<1> QED BY <1>3, <1>4 DEF Look

LEMMA OpenStep == ASSUME ShellsInOrder, NEW c \in Clients, Open(c) PROVE ShellsInOrder'
<1> DEFINE s == sh[c]
           here == IF IsDir(s.cwd) THEN {RealPath[s.cwd]} ELSE {}
           t == [s EXCEPT !.pc = "rows", !.exclude = here]
<1>1. s \in Session /\ InOrder(s, live, ever[c]) /\ s.pc = "select" BY DEF ShellsInOrder, Open
<1>2. /\ c \notin between /\ between' = between \cup {c} /\ live' = live
      /\ sh' = [sh EXCEPT ![c] = t]
      /\ ever' = [ever EXCEPT ![c] = Candidates(visits, discovered)]
  BY DEF Open, SelectVisits, Become, elsewhere
<1>3. here \in SUBSET Paths BY SessionAssumption DEF IsDir
<1>4. /\ t \in Session /\ Same(s, t) /\ t.cwd = s.cwd /\ t.adds = s.adds
      /\ t.pc = "rows" /\ t.todo = s.todo /\ t.met = s.met /\ t.target = s.target
      /\ t.noise = s.noise /\ t.printed = s.printed /\ t.rc = s.rc
  <2> HIDE DEF s, here
  <2> QED BY <1>1, <1>3 DEF Session, Same, Running
<1> HIDE DEF s, t
<1>5. InOrder(t, live, ever[c]) BY <1>1, <1>4 DEF InOrder, Running, Same, Jumps
<1>6. InOrder(t, live, ever'[c]) BY <1>4, <1>5, AwaitingInOrder
<1>7. sh' \in [Clients -> Session] BY <1>2, <1>4 DEF ShellsInOrder
<1>8. ASSUME NEW d \in Clients
      PROVE  (d \in between' <=> sh'[d].pc = "rows") /\ InOrder(sh'[d], live, ever'[d])
  <2>1. CASE d = c BY <2>1, <1>2, <1>4, <1>6 DEF ShellsInOrder
  <2>2. CASE d # c
    <3>1. ever'[d] = ever[d]
      <4>1. CASE d \in DOMAIN ever BY <4>1, <1>2, <2>2
      <4>2. CASE d \notin DOMAIN ever BY <4>2, <1>2, <2>2
      <4> QED BY <4>1, <4>2
    <3> QED BY <2>2, <3>1, <1>2 DEF ShellsInOrder
  <2> QED BY <2>1, <2>2
<1> QED BY <1>2, <1>7, <1>8 DEF ShellsInOrder

LEMMA RowsStep ==
    ASSUME ShellsInOrder, SqlInv', NEW c \in Clients, Rows(c)
    PROVE  ShellsInOrder'
<1> DEFINE s == sh[c]
           rows == {e.path : e \in reply'[c]}
           next == IF s.op = "query" THEN "look" ELSE "pick"
           t == [s EXCEPT !.pc = next, !.todo = rows, !.answered = TRUE]
<1>1. s \in Session /\ InOrder(s, live, ever[c]) /\ s.pc = "rows" BY DEF ShellsInOrder, Rows
<1>2. /\ between' = between \ {c} /\ live' = live /\ ever' = ever
      /\ sh' = [sh EXCEPT ![c] = t]
  BY DEF Rows, SelectDiscovered, Become, elsewhere
<1>3. rows \subseteq ever[c] BY <1>2 DEF SqlInv, NothingInvented, Returned
<1>4. ASSUME rows \in SUBSET Paths PROVE ShellsInOrder'
  <2> HIDE DEF s, rows
  <2>1. /\ t \in Session /\ Same(s, t) /\ t.cwd = s.cwd /\ t.adds = s.adds
        /\ t.pc = next /\ t.todo = rows /\ t.met = s.met /\ t.target = s.target
        /\ t.noise = s.noise /\ t.printed = s.printed /\ t.rc = s.rc
    <3>1. next \in Running BY DEF Running
    <3> HIDE DEF next
    <3>2. t \in Session BY <1>1, <1>4, <3>1 DEF Session
    <3> QED BY <1>1, <3>2 DEF Session, Same
  <2> HIDE DEF t
  <2>2. s.op \in Jumps \cup {"query"} BY <1>1 DEF Session, InOrder, Running
  <2>3. InOrder(t, live, ever[c])
    BY <1>1, <1>3, <2>1, <2>2 DEF InOrder, Running, Same, Jumps
  <2>4. sh' \in [Clients -> Session] BY <1>2, <2>1 DEF ShellsInOrder
  <2>5. ASSUME NEW d \in Clients
        PROVE  (d \in between' <=> sh'[d].pc = "rows") /\ InOrder(sh'[d], live, ever[d])
    <3>1. CASE d = c BY <3>1, <1>2, <2>1, <2>3 DEF ShellsInOrder
    <3>2. CASE d # c BY <3>2, <1>2 DEF ShellsInOrder
    <3> QED BY <3>1, <3>2
  <2> QED BY <1>2, <2>4, <2>5 DEF ShellsInOrder
<1>5. rows \in SUBSET Paths
  <2>1. reply'[c] \subseteq Entry BY DEF SqlInv, SqlTypeOK, TypeOK
  <2> QED BY <2>1 DEF Entry
<1> QED BY <1>4, <1>5

\* A write to the store concerns only the shells that wait for rows.
LEMMA WriteStep ==
    ASSUME ShellsInOrder, Watch, UNCHANGED <<sh, live>>
    PROVE  ShellsInOrder'
<1>1. between' = between BY DEF Watch, readVars
<1>2. ASSUME NEW d \in Clients PROVE InOrder(sh[d], live, ever'[d])
  <2>1. CASE d \in between BY <2>1, AwaitingInOrder DEF ShellsInOrder
  <2>2. CASE d \notin between
    <3>1. ever'[d] = ever[d] BY <2>2 DEF Watch
    <3> QED BY <3>1 DEF ShellsInOrder
  <2> QED BY <2>1, <2>2
<1> QED BY <1>1, <1>2 DEF ShellsInOrder

LEMMA TreeStep == ASSUME ShellsInOrder, TreeChanges PROVE ShellsInOrder'
<1>1. /\ live' \in Trees /\ between' = between /\ ever' = ever
      /\ sh' = [c \in Clients |->
            [sh[c] EXCEPT !.stayed = @ \cap live', !.existed = @ \cup live']]
  BY DEF TreeChanges, sqlVars, readVars
<1>2. live' \subseteq Paths BY <1>1, SessionAssumption DEF Trees
<1>3. ASSUME NEW c \in Clients
      PROVE  /\ sh'[c] \in Session /\ sh'[c].pc = sh[c].pc
             /\ InOrder(sh'[c], live', ever[c])
  <2> DEFINE s == sh[c]
             x == s.stayed \cap live'
             y == s.existed \cup live'
             t == [s EXCEPT !.stayed = x, !.existed = y]
  <2>1. s \in Session /\ InOrder(s, live, ever[c]) BY DEF ShellsInOrder
  <2>2. sh'[c] = [s EXCEPT !.stayed = @ \cap live', !.existed = @ \cup live'] BY <1>1
  <2> HIDE DEF s
  <2>3. sh'[c] = t BY <2>1, <2>2 DEF Session
  <2>4. x \in SUBSET Paths /\ y \in SUBSET Paths BY <1>2, <2>1 DEF Session
  <2>5. s.existed \subseteq y /\ live' \subseteq y OBVIOUS
  <2> HIDE DEF x, y
  <2>6. /\ t \in Session /\ t.bash = s.bash /\ t.op = s.op /\ t.arg = s.arg
        /\ t.list = s.list /\ t.all = s.all /\ t.from = s.from /\ t.memo = s.memo
        /\ t.cwd = s.cwd /\ t.adds = s.adds /\ t.pc = s.pc /\ t.todo = s.todo
        /\ t.met = s.met /\ t.target = s.target /\ t.noise = s.noise
        /\ t.printed = s.printed /\ t.rc = s.rc /\ t.existed = y
    BY <2>1, <2>4 DEF Session
  <2> HIDE DEF t
  <2>7. InOrder(t, live', ever[c]) BY <2>1, <2>5, <2>6 DEF InOrder, Running, Jumps
  <2> QED BY <2>3, <2>6, <2>7 DEF s
<1>4. sh' \in [Clients -> Session] BY <1>1, <1>3
<1> QED BY <1>1, <1>2, <1>3, <1>4 DEF ShellsInOrder

LEMMA ShellsStep ==
    ASSUME SessionInv, [SessionNext]_sessionVars PROVE SessionInv'
<1> USE DEF SessionInv
<1>1. SqlInv' BY StepsOfTheStore, SqlStep DEF sessionVars
<1>2. ASSUME NEW c \in Clients,
             Enter(c) \/ Direct(c) \/ Literal(c) \/ Jump(c) \/ Again(c) \/ Fails(c)
                \/ Open(c) \/ Rows(c) \/ Pick(c) \/ Look(c) \/ Prompt(c)
      PROVE  ShellsInOrder'
  <2> QED BY <1>1, <1>2, EnterStep, BuiltinStep, AnswerStep, OpenStep, RowsStep, LookStep,
             PromptStep
<1>3. ASSUME NEW p \in Paths, Deliver(p) PROVE ShellsInOrder'
  <2>1. CASE InsertVisit(p)
    BY <1>3, <2>1, WriteStep DEF Deliver, InsertVisit, elsewhere
  <2>2. CASE UNCHANGED sqlVars
    BY <1>3, <2>2 DEF Deliver, sqlVars, readVars, ShellsInOrder, elsewhere
  <2> QED BY <1>3, <2>1, <2>2 DEF Deliver
<1>4. ASSUME NEW p \in Paths, ElsewhereWrites(p) PROVE ShellsInOrder'
  <2>1. Watch
    BY <1>4 DEF ElsewhereWrites, InsertVisit, InsertVisits, DeleteVisits, InsertDiscovered,
                DeleteDiscovered
  <2> QED BY <1>4, <2>1, WriteStep DEF ElsewhereWrites
<1>5. ASSUME TreeChanges PROVE ShellsInOrder' BY <1>5, TreeStep
<1>6. ASSUME UNCHANGED sessionVars PROVE ShellsInOrder'
  BY <1>6 DEF sessionVars, sqlVars, readVars, elsewhere, ShellsInOrder
<1> QED BY <1>1, <1>2, <1>3, <1>4, <1>5, <1>6 DEF SessionNext

LEMMA ShellsBegin == SessionInit => ShellsInOrder
<1> SUFFICES ASSUME SessionInit PROVE ShellsInOrder OBVIOUS
<1>1. live \subseteq Paths BY SessionAssumption DEF SessionInit, Trees
<1>2. ASSUME NEW b \in BOOLEAN, NEW p \in Paths, NEW L, NEW E
      PROVE  /\ Shell(b, p) \in Session /\ Shell(b, p).pc = "done"
             /\ InOrder(Shell(b, p), L, E)
  <2>1. Shell(b, p) \in Session
    <3>1. <<>> \in Seq(Paths) OBVIOUS
    <3> QED BY <3>1 DEF Shell, Session, Known, Running
  <2>2. InOrder(Shell(b, p), L, E) BY DEF Shell, InOrder, Running, Jumps
  <2> QED BY <2>1, <2>2 DEF Shell
<1>3. ASSUME NEW c \in Clients
      PROVE  \E b \in BOOLEAN, p \in Paths : sh[c] = Shell(b, p)
  BY DEF SessionInit
<1>4. sh \in [Clients -> Session]
  <2>1. \A c \in Clients : sh[c] \in Session BY <1>2, <1>3
  <2>2. sh \in [Clients -> {Shell(b, p) : b \in BOOLEAN, p \in {q \in Paths : IsDir(q)}}]
    BY DEF SessionInit
  <2> QED BY <2>1, <2>2
<1>5. ASSUME NEW c \in Clients
      PROVE  (c \in between <=> sh[c].pc = "rows") /\ InOrder(sh[c], live, ever[c])
  BY <1>2, <1>3 DEF SessionInit, NoCalls
<1> QED BY <1>1, <1>4, <1>5 DEF ShellsInOrder

LEMMA SessionInvHolds == SessionSpec => []SessionInv
<1>1. SessionInit => SessionInv
  <2>1. {RealPath[p] : p \in Paths} \subseteq Paths BY SessionAssumption
  <2>2. SessionInit => Quiet BY <2>1 DEF SessionInit, Quiet
  <2> QED BY <2>2, QuietInv, ShellsBegin DEF SessionInv
<1> QED BY <1>1, ShellsStep, PTL DEF SessionSpec
-----------------------------------------------------------------------------
(* What a query finds.                                                         *)

\* What a query s has to find, of the directories V visited throughout.
Due(s, V) == {p \in V \cap NamedBy[s.arg] : RealPath[p] \in s.stayed /\ p \notin s.exclude}

\* A query s in the tree L: what is due has been printed or is still to be looked
\* at, and at the end it has been found.
Finds(s, L, V) ==
    s.op = "query" =>
        /\ s.pc \in Running => s.stayed \subseteq L
        /\ s.pc \in {"select", "rows"} => ~s.answered
        /\ s.pc = "look" => Due(s, V) \subseteq s.printed \cup s.todo
        /\ s.pc \in {"done", "prompt"} /\ s.answered =>
              /\ Due(s, V) # {} => s.rc = 0
              /\ s.list => Due(s, V) \subseteq s.printed

Finding == \A c \in Clients : Finds(sh[c], live, visitedAll[c])

\* The fields a query is judged by.
Alike(s, t) ==
    /\ t.op = s.op /\ t.arg = s.arg /\ t.list = s.list /\ t.stayed = s.stayed
    /\ t.exclude = s.exclude /\ t.answered = s.answered /\ t.printed = s.printed

\* A step of one shell that leaves the store alone.
LEMMA FindLocal ==
    ASSUME ShellsInOrder, Finding, NEW c \in Clients, NEW t, Step(c, t),
           Finds(t, live, visitedAll[c])
    PROVE  Finding'
<1>1. /\ sh' = [sh EXCEPT ![c] = t] /\ live' = live /\ visitedAll' = visitedAll
  BY DEF Step, Become, elsewhere, sqlVars
<1>2. ASSUME NEW d \in Clients PROVE Finds(sh'[d], live', visitedAll'[d])
  <2>1. CASE d = c BY <2>1, <1>1 DEF ShellsInOrder
  <2>2. CASE d # c BY <2>2, <1>1 DEF Finding
  <2> QED BY <2>1, <2>2
<1> QED BY <1>2 DEF Finding

\* Giving up, arriving and the hook do not touch what a query has found.
LEMMA AlikeFields ==
    ASSUME NEW s \in Session
    PROVE  /\ \A r \in {0, 1} : /\ Alike(s, Done(s, r)) /\ Done(s, r).pc = "done"
                                /\ Done(s, r).rc = r
           /\ Missed(s).op = s.op
           /\ \A p \in Paths : Arrive(s, p).op = s.op
           /\ Alike(s, Hook(s)) /\ Hook(s).rc = s.rc /\ Hook(s) \in Session
<1>1. \A r \in {0, 1} : Alike(s, Done(s, r)) /\ Done(s, r).pc = "done" /\ Done(s, r).rc = r
  BY DEF Done, Alike, Session
<1>2. Missed(s).op = s.op
  <2>1. [s EXCEPT !.pc = "again", !.target = Nowhere, !.todo = {}].op = s.op BY DEF Session
  <2> QED BY <1>1, <2>1 DEF Missed, Alike
<1>3. \A p \in Paths : Arrive(s, p).op = s.op BY ArriveFields DEF Same
<1>4. Alike(s, Hook(s)) /\ Hook(s).rc = s.rc /\ Hook(s) \in Session
  <2>1. CASE ~s.bash \/ s.memo = s.cwd BY <2>1 DEF Hook, Alike
  <2>2. CASE ~(~s.bash \/ s.memo = s.cwd)
    <3> DEFINE q == Append(s.adds, s.cwd)
               t == [s EXCEPT !.adds = q, !.memo = s.cwd]
    <3>1. q \in Seq(Paths) /\ s.cwd \in Known BY DEF Session, Known
    <3>2. Hook(s) = t BY <2>2 DEF Hook, Spawn, Session
    <3> HIDE DEF q
    <3>3. Alike(s, t) /\ t.rc = s.rc /\ t \in Session BY <3>1 DEF Alike, Session
    <3> QED BY <3>2, <3>3
  <2> QED BY <2>1, <2>2
<1> QED BY <1>1, <1>2, <1>3, <1>4

\* A jump is not a query.
LEMMA FindJumps ==
    ASSUME ShellsInOrder, Finding, NEW c \in Clients,
           Direct(c) \/ Literal(c) \/ Jump(c) \/ Again(c) \/ Pick(c)
    PROVE  Finding'
<1> DEFINE s == sh[c]
           u == [s EXCEPT !.noise = @ + 1]
<1>1. s \in Session /\ InOrder(s, live, ever[c]) BY DEF ShellsInOrder
<1>2. s.pc \in {"direct", "literal", "jump", "again", "pick"}
  BY DEF Direct, Literal, Jump, Again, Pick
<1>3. s.op # "query" BY <1>1, <1>2 DEF InOrder, Jumps
<1>4. u \in Session /\ u.op = s.op
  <2> HIDE DEF s
  <2>1. s.noise + 1 \in Nat BY <1>1 DEF Session
  <2> QED BY <1>1, <2>1 DEF Session
<1>5. \A p \in Paths : Arrive(s, p).op = s.op BY <1>1, AlikeFields
<1>6. Missed(s).op = s.op /\ Missed(u).op = s.op /\ Done(u, 1).op = s.op
  <2> HIDE DEF u, s
  <2> QED BY <1>1, <1>4, AlikeFields DEF Alike
<1>7. PICK t : Step(c, t) /\ t.op = s.op
  <2>1. CASE Direct(c) BY <2>1, <1>5, <1>6 DEF Direct, Cd, IsDir
  <2>2. CASE Jump(c) BY <2>2, <1>5, <1>6 DEF Jump, Cd, IsDir
  <2>3. CASE Again(c) BY <2>3, <1>5, <1>6 DEF Again, Cd, IsDir
  <2>4. CASE Literal(c)
    <3>1. [s EXCEPT !.pc = "select"].op = s.op BY <1>1 DEF Session
    <3> QED BY <2>4, <3>1, <1>5 DEF Literal, IsDir
  <2>5. CASE Pick(c)
    <3>1. \A p : [s EXCEPT !.pc = "jump", !.target = p, !.met = p, !.todo = {}].op = s.op
      BY <1>1 DEF Session
    <3> QED BY <2>5, <3>1, <1>6 DEF Pick, Unanswered
  <2> QED BY <2>1, <2>2, <2>3, <2>4, <2>5
<1>8. Finds(t, live, visitedAll[c]) BY <1>3, <1>7 DEF Finds
<1> QED BY <1>7, <1>8, FindLocal

LEMMA FindBegins == ASSUME ShellsInOrder, Finding, NEW c \in Clients, Enter(c) PROVE Finding'
<1> DEFINE s == sh[c]
<1>1. s \in Session BY DEF ShellsInOrder
<1>2. PICK op \in Jumps \cup {"query"}, arg \in Args, list \in BOOLEAN, all \in BOOLEAN :
        Step(c, Begun(s, op, arg, list, all))
  BY DEF Enter
<1> DEFINE t == Begun(s, op, arg, list, all)
<1>3. /\ t.op = op /\ t.stayed = live /\ ~t.answered
      /\ op = "query" => t.pc = "select"
  BY DEF Begun, Shell
<1> HIDE DEF t
<1>4. Finds(t, live, visitedAll[c]) BY <1>3 DEF Finds, Running
<1> QED BY <1>2, <1>4, FindLocal DEF t

LEMMA FindEnds ==
    ASSUME ShellsInOrder, Finding, NEW c \in Clients, Fails(c) \/ Prompt(c)
    PROVE  Finding'
<1> DEFINE s == sh[c]
<1>1. s \in Session /\ Finds(s, live, visitedAll[c]) BY DEF ShellsInOrder, Finding
<1>2. CASE Fails(c)
  <2>1. s.pc = "select" /\ Step(c, Missed(s)) BY <1>2 DEF Fails, Unanswered
  <2> HIDE DEF s
  <2> DEFINE t == Missed(s)
  <2>2. Finds(t, live, visitedAll[c])
    <3>1. CASE s.op = "query"
      <4>1. t = Done(s, 1) BY <3>1 DEF Missed
      <4>2. Alike(s, t) /\ t.pc = "done" BY <1>1, <4>1, AlikeFields
      <4> HIDE DEF t
      <4> QED BY <1>1, <2>1, <3>1, <4>2 DEF Finds, Alike, Running
    <3>2. CASE s.op # "query"
      <4>1. t.op # "query" BY <1>1, <3>2, AlikeFields
      <4> QED BY <4>1 DEF Finds
    <3> QED BY <3>1, <3>2
  <2> QED BY <2>1, <2>2, FindLocal DEF s
<1>3. CASE Prompt(c)
  <2> DEFINE h == Hook(s)
             t == [h EXCEPT !.pc = "prompt"]
  <2>1. s.pc = "done" /\ Step(c, t) BY <1>3 DEF Prompt
  <2> HIDE DEF s
  <2>2. Alike(s, h) /\ h.rc = s.rc /\ h \in Session BY <1>1, AlikeFields
  <2> HIDE DEF h
  <2>3. Alike(h, t) /\ t.rc = h.rc /\ t.pc = "prompt" BY <2>2 DEF Alike, Session
  <2> HIDE DEF t
  <2>4. Due(t, visitedAll[c]) = Due(s, visitedAll[c]) BY <2>2, <2>3 DEF Due, Alike
  <2>5. Finds(t, live, visitedAll[c])
    BY <1>1, <2>1, <2>2, <2>3, <2>4 DEF Finds, Alike, Running
  <2> QED BY <2>1, <2>5, FindLocal DEF h, t
<1> QED BY <1>2, <1>3

\* A row that is due is a directory when it is looked at, and so it is shown.
LEMMA FindLook == ASSUME ShellsInOrder, Finding, NEW c \in Clients, Look(c) PROVE Finding'
<1> DEFINE s == sh[c]
           due == Due(s, visitedAll[c])
<1>1. /\ s \in Session /\ InOrder(s, live, ever[c]) /\ s.pc = "look"
      /\ Finds(s, live, visitedAll[c])
  BY DEF ShellsInOrder, Finding, Look
<1>2. /\ s.op = "query" /\ s.stayed \subseteq live /\ due \subseteq s.printed \cup s.todo
      /\ ~s.list => s.printed = {}
  BY <1>1 DEF InOrder, Finds, Running
<1>3. CASE s.todo = {} /\ Step(c, Done(s, IF s.printed = {} THEN 1 ELSE 0))
  <2> DEFINE r == IF s.printed = {} THEN 1 ELSE 0
             t == Done(s, r)
  <2>1. Alike(s, t) /\ t.pc = "done" /\ t.rc = r BY <1>1, AlikeFields
  <2>2. Due(t, visitedAll[c]) = due BY <2>1 DEF Due, Alike
  <2>3. Step(c, t) BY <1>3
  <2> HIDE DEF t, s, due
  <2>4. Finds(t, live, visitedAll[c]) BY <1>2, <1>3, <2>1, <2>2 DEF Finds, Alike, Running
  <2> QED BY <2>3, <2>4, FindLocal
<1>4. ASSUME NEW p \in s.todo,
             LET t == [s EXCEPT !.todo = @ \ {p},
                                !.printed = IF Shown(s, p) THEN @ \cup {p} ELSE @]
             IN  Step(c, IF Shown(s, p) /\ ~s.list THEN Done(t, 0) ELSE t)
      PROVE  Finding'
  <2> DEFINE now == IF Shown(s, p) THEN s.printed \cup {p} ELSE s.printed
             t == [s EXCEPT !.todo = @ \ {p}, !.printed = now]
  <2>1. p \in due => Shown(s, p) BY <1>1, <1>2, <1>4 DEF Due, Shown, IsDir, Session
  <2>2. Step(c, IF Shown(s, p) /\ ~s.list THEN Done(t, 0) ELSE t)
    <3>1. t = [s EXCEPT !.todo = @ \ {p},
                        !.printed = IF Shown(s, p) THEN @ \cup {p} ELSE @]
      BY <1>1 DEF Session
    <3> QED BY <3>1, <1>4
  <2>3. p \in Paths /\ now \in SUBSET Paths BY <1>1, <1>4 DEF Session
  <2>4. due \subseteq now \cup (s.todo \ {p}) BY <1>2, <2>1
  <2> HIDE DEF s, now
  <2>5. /\ t \in Session /\ t.op = "query" /\ t.arg = s.arg /\ t.list = s.list
        /\ t.stayed = s.stayed /\ t.exclude = s.exclude /\ t.pc = "look"
        /\ t.printed = now /\ t.todo = s.todo \ {p}
    BY <1>1, <1>2, <2>3 DEF Session
  <2> HIDE DEF t
  <2>6. Due(t, visitedAll[c]) = due BY <2>5 DEF Due
  <2>7. CASE Shown(s, p) /\ ~s.list
    <3> DEFINE d == Done(t, 0)
    <3>1. Alike(t, d) /\ d.pc = "done" /\ d.rc = 0 BY <2>5, AlikeFields
    <3>2. Step(c, d) BY <2>2, <2>7
    <3> HIDE DEF d
    <3>3. Finds(d, live, visitedAll[c]) BY <2>5, <2>7, <3>1 DEF Finds, Alike, Running
    <3> QED BY <3>2, <3>3, FindLocal
  <2>8. CASE ~(Shown(s, p) /\ ~s.list)
    <3> HIDE DEF due
    <3>1. Finds(t, live, visitedAll[c]) BY <1>2, <2>4, <2>5, <2>6 DEF Finds, Running
    <3> QED BY <2>2, <2>8, <3>1, FindLocal
  <2> QED BY <2>7, <2>8
<1> QED BY <1>3, <1>4 DEF Look

\* The two SELECTs: what had visits throughout is among the rows.
LEMMA FindRows ==
    ASSUME ShellsInOrder, SqlInv', Finding, NEW c \in Clients, Open(c) \/ Rows(c)
    PROVE  Finding'
<1> DEFINE s == sh[c]
<1>1. s \in Session /\ Finds(s, live, visitedAll[c]) BY DEF ShellsInOrder, Finding
<1>2. CASE Open(c)
  <2> DEFINE here == IF IsDir(s.cwd) THEN {RealPath[s.cwd]} ELSE {}
             t == [s EXCEPT !.pc = "rows", !.exclude = here]
  <2>1. /\ s.pc = "select" /\ live' = live /\ sh' = [sh EXCEPT ![c] = t]
        /\ visitedAll' = [visitedAll EXCEPT ![c] = {p \in Paths : visits[p] > 0}]
    BY <1>2 DEF Open, SelectVisits, Become, elsewhere
  <2>2. /\ t.op = s.op /\ t.pc = "rows" /\ t.stayed = s.stayed /\ t.answered = s.answered
    BY <1>1 DEF Session
  <2> HIDE DEF s, t
  <2>3. \A V : Finds(t, live, V) BY <1>1, <2>1, <2>2 DEF Finds, Running
  <2>4. ASSUME NEW d \in Clients PROVE Finds(sh'[d], live', visitedAll'[d])
    <3>1. CASE d = c BY <3>1, <2>1, <2>3 DEF ShellsInOrder
    <3>2. CASE d # c
      <4>1. visitedAll'[d] = visitedAll[d]
        <5>1. CASE d \in DOMAIN visitedAll BY <5>1, <2>1, <3>2
        <5>2. CASE d \notin DOMAIN visitedAll BY <5>2, <2>1, <3>2
        <5> QED BY <5>1, <5>2
      <4> QED BY <3>2, <4>1, <2>1 DEF Finding, ShellsInOrder
    <3> QED BY <3>1, <3>2
  <2> QED BY <2>4 DEF Finding
<1>3. CASE Rows(c)
  <2> DEFINE rows == {e.path : e \in reply'[c]}
             next == IF s.op = "query" THEN "look" ELSE "pick"
             t == [s EXCEPT !.pc = next, !.todo = rows, !.answered = TRUE]
  <2>1. /\ s.pc = "rows" /\ live' = live /\ sh' = [sh EXCEPT ![c] = t]
        /\ visitedAll' = visitedAll /\ between' = between \ {c}
    BY <1>3 DEF Rows, SelectDiscovered, Become, elsewhere
  <2>2. visitedAll[c] \subseteq rows
    <3>1. c \in Clients \ between' BY <2>1
    <3>2. \A p \in visitedAll'[c] : \E e \in reply'[c] : e.path = p /\ ~e.discovered_only
      BY <3>1 DEF SqlInv, VisitedNeverFloored
    <3> QED BY <2>1, <3>2
  <2> HIDE DEF rows
  <2>3. /\ t.op = s.op /\ t.pc = next /\ t.stayed = s.stayed /\ t.todo = rows
    BY <1>1 DEF Session
  <2> HIDE DEF s, t
  <2>4. Finds(t, live, visitedAll[c])
    <3>1. Due(t, visitedAll[c]) \subseteq rows BY <2>2 DEF Due
    <3> QED BY <1>1, <2>1, <2>3, <3>1 DEF Finds, Running
  <2>5. ASSUME NEW d \in Clients PROVE Finds(sh'[d], live', visitedAll'[d])
    <3>1. CASE d = c BY <3>1, <2>1, <2>4 DEF ShellsInOrder
    <3>2. CASE d # c BY <3>2, <2>1 DEF Finding, ShellsInOrder
    <3> QED BY <3>1, <3>2
  <2> QED BY <2>5 DEF Finding
<1> QED BY <1>2, <1>3

\* A write concerns only the calls that wait for rows.
LEMMA FindWrite ==
    ASSUME ShellsInOrder, Finding, Watch, UNCHANGED <<sh, live>>
    PROVE  Finding'
<1>1. ASSUME NEW d \in Clients PROVE Finds(sh[d], live, visitedAll'[d])
  <2>1. CASE d \in between
    <3>1. sh[d].pc = "rows" BY <2>1 DEF ShellsInOrder
    <3> QED BY <3>1 DEF Finding, Finds, Running
  <2>2. CASE d \notin between
    <3>1. visitedAll'[d] = visitedAll[d] BY <2>2 DEF Watch
    <3> QED BY <3>1 DEF Finding
  <2> QED BY <2>1, <2>2
<1> QED BY <1>1 DEF Finding

\* A directory that goes is no longer due.
LEMMA FindTree == ASSUME ShellsInOrder, Finding, TreeChanges PROVE Finding'
<1>1. /\ visitedAll' = visitedAll
      /\ sh' = [c \in Clients |->
            [sh[c] EXCEPT !.stayed = @ \cap live', !.existed = @ \cup live']]
  BY DEF TreeChanges, sqlVars
<1>2. ASSUME NEW c \in Clients PROVE Finds(sh'[c], live', visitedAll'[c])
  <2> DEFINE s == sh[c]
             t == sh'[c]
  <2>1. s \in Session /\ Finds(s, live, visitedAll[c]) BY DEF ShellsInOrder, Finding
  <2>2. t = [s EXCEPT !.stayed = @ \cap live', !.existed = @ \cup live'] BY <1>1
  <2> HIDE DEF s, t
  <2>3. /\ t.op = s.op /\ t.arg = s.arg /\ t.list = s.list /\ t.exclude = s.exclude
        /\ t.answered = s.answered /\ t.printed = s.printed /\ t.pc = s.pc
        /\ t.todo = s.todo /\ t.rc = s.rc /\ t.stayed = s.stayed \cap live'
    BY <2>1, <2>2 DEF Session
  <2>4. Due(t, visitedAll[c]) \subseteq Due(s, visitedAll[c]) BY <2>3 DEF Due
  <2>5. Finds(t, live', visitedAll[c]) BY <2>1, <2>3, <2>4 DEF Finds
  <2> QED BY <1>1, <2>5 DEF t
<1> QED BY <1>2 DEF Finding

LEMMA FindStep ==
    ASSUME SessionInv, SessionInv', Finding, [SessionNext]_sessionVars PROVE Finding'
<1> USE DEF SessionInv
<1>1. ASSUME NEW c \in Clients,
             Enter(c) \/ Direct(c) \/ Literal(c) \/ Jump(c) \/ Again(c) \/ Fails(c)
                \/ Open(c) \/ Rows(c) \/ Pick(c) \/ Look(c) \/ Prompt(c)
      PROVE  Finding'
  BY <1>1, FindBegins, FindJumps, FindEnds, FindRows, FindLook
<1>2. ASSUME NEW p \in Paths, Deliver(p) PROVE Finding'
  <2>1. CASE InsertVisit(p) BY <1>2, <2>1, FindWrite DEF Deliver, InsertVisit, elsewhere
  <2>2. CASE UNCHANGED sqlVars BY <1>2, <2>2 DEF Deliver, sqlVars, Finding, elsewhere
  <2> QED BY <1>2, <2>1, <2>2 DEF Deliver
<1>3. ASSUME NEW p \in Paths, ElsewhereWrites(p) PROVE Finding'
  <2>1. Watch
    BY <1>3 DEF ElsewhereWrites, InsertVisit, InsertVisits, DeleteVisits, InsertDiscovered,
                DeleteDiscovered
  <2> QED BY <1>3, <2>1, FindWrite DEF ElsewhereWrites
<1>4. CASE TreeChanges BY <1>4, FindTree
<1>5. CASE UNCHANGED sessionVars
  BY <1>5 DEF sessionVars, sqlVars, elsewhere, Finding
<1> QED BY <1>1, <1>2, <1>3, <1>4, <1>5 DEF SessionNext

LEMMA FindingHolds == SessionSpec => [](SessionInv /\ Finding)
<1>1. SessionInit => Finding
  <2> SUFFICES ASSUME SessionInit, NEW c \in Clients PROVE sh[c].op = "none"
    BY DEF Finding, Finds
  <2>1. \E b \in BOOLEAN, p \in Paths : sh[c] = Shell(b, p) BY DEF SessionInit
  <2> QED BY <2>1 DEF Shell
<1> QED BY <1>1, FindStep, SessionInvHolds, PTL DEF SessionSpec
-----------------------------------------------------------------------------
\* The exit code of z, zi and cd tells whether the shell moved.
THEOREM RcTheorem == SessionSpec => []RcTellsTheMove
<1>1. SessionInv => RcTellsTheMove
  BY DEF SessionInv, ShellsInOrder, InOrder, RcTellsTheMove, Ran
<1> QED BY <1>1, SessionInvHolds, PTL

\* A shell is only ever sent where the argument matches and the store had a row.
THEOREM JumpTheorem == SessionSpec => []JumpsToMatches
<1>1. SessionInv => JumpsToMatches
  BY DEF SessionInv, ShellsInOrder, InOrder, JumpsToMatches, Ran
<1> QED BY <1>1, SessionInvHolds, PTL

\* Every move is recorded once, by zsh when it arrives, by bash at the prompt.
THEOREM AddTheorem == SessionSpec => []OneAddPerMove
<1>1. SessionInv => OneAddPerMove
  BY DEF SessionInv, ShellsInOrder, InOrder, OneAddPerMove, Ran, Jumps
<1> QED BY <1>1, SessionInvHolds, PTL

\* A cd that fails says so.
THEOREM LoudTheorem == SessionSpec => []RealMissIsLoud
<1>1. SessionInv => RealMissIsLoud
  BY DEF SessionInv, ShellsInOrder, InOrder, RealMissIsLoud, Ran
<1> QED BY <1>1, SessionInvHolds, PTL

\* The rows of a query were candidates, and directories unless all are asked for.
THEOREM QueryTheorem == SessionSpec => []QueryHonest
<1>1. SessionInv => QueryHonest
  BY DEF SessionInv, ShellsInOrder, InOrder, QueryHonest, Ran
<1> QED BY <1>1, SessionInvHolds, PTL

\* A directory that is there and visited throughout is found, whatever others write
\* and remove while the query looks.
THEOREM FindsTheorem == SessionSpec => []QueryFindsLive
<1>1. Finding => QueryFindsLive BY DEF Finding, Finds, Due, QueryFindsLive, Ran
<1> QED BY <1>1, FindingHolds, PTL

\* Whatever the sessions do at once, what a ranking is given lists no directory
\* twice, ranks no visited one by the floor, and invents none.
THEOREM SessionsRankRealRows ==
    SessionSpec => [](OneEntryPerPath /\ VisitedNeverFloored /\ NothingInvented)
<1>1. SessionInv => OneEntryPerPath /\ VisitedNeverFloored /\ NothingInvented
  BY DEF SessionInv, SqlInv
<1> QED BY <1>1, SessionInvHolds, PTL
=============================================================================
