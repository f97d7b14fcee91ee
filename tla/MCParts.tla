------------------------------- MODULE MCParts -------------------------------
(* Three parts of the system that share nothing, checked side by side and each *)
(* by itself: the parts that only compute, the in-memory store with its two    *)
(* mutexes, and the import of zoxide's database.                               *)
EXTENDS MCQuestions, MCMemStore, MCZoxideImport

VARIABLE part       \* which of the three runs

questionVars == <<vars, rangeVars, pureVars>>

\* The parts that do not run are in one of their initial states.
QuestionsIdle == QuestionsInit /\ NothingAsked
ImportIdle    == ImportInit /\ db = "absent" /\ rank = [p \in RowPaths |-> Max(Ranks)]

PartsInit ==
    /\ MemInit
    /\ \/ part = "questions" /\ QuestionsInit /\ ImportIdle
       \/ part = "memory" /\ QuestionsIdle /\ ImportIdle
       \/ part = "import" /\ QuestionsIdle /\ ImportInit

QuestionAnswered == part = "questions" /\ QuestionsNext /\ UNCHANGED <<memVars, importVars, part>>

MemoryCalled == part = "memory" /\ MemNext /\ UNCHANGED <<questionVars, importVars, part>>

ImportGoesOn == part = "import" /\ ImportNext /\ UNCHANGED <<questionVars, memVars, part>>

\* An answered question and an import that is over are an end; a store has none.
Ended ==
    /\ \/ part = "questions" /\ (answer # Silent \/ outcome \in {"ok", "error"} \/ "unasked" \notin {mem, sqlite})
       \/ part = "import" /\ ~Imports
    /\ UNCHANGED <<questionVars, memVars, importVars, part>>

PartsNext == QuestionAnswered \/ MemoryCalled \/ ImportGoesOn \/ Ended

PartsSpec == PartsInit /\ [][PartsNext]_<<questionVars, memVars, importVars, part>>
=============================================================================
