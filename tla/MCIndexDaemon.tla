---------------------------- MODULE MCIndexDaemon ----------------------------
(* Small file trees for the daemon.                                          *)
EXTENDS IndexDaemon

home  == <<"h">>
code  == <<"h", "a">>
proj  == <<"h", "a", "x">>
other == <<"h", "b">>
deep  == <<"h", "a", "x", "y">>
git   == <<"h", ".git">>

MCSkippedNames == {".git"}

\* A home, walked two levels deep, with a root of its own in it, walked one level
\* deep, and an ignored directory.  A project may come, as a directory with one in
\* it that is too deep for both roots, as a link or as a log.
NestedPaths == {home, code, proj, deep, git}
NestedRoots == {home, code}
NestedDepth == [r \in NestedRoots |-> IF r = home THEN 2 ELSE 1]
NestedKind  == [p \in NestedPaths |-> IF p \in {proj, deep} THEN "absent" ELSE "dir"]
NestedLinks == {proj}

\* One root that is walked two levels deep, with directories in it already.
TreePaths == {home, code, proj, other}
TreeRoots == {home}
TreeDepth == [r \in TreeRoots |-> 2]
TreeKind  == [p \in TreePaths |-> IF p = other THEN "absent" ELSE "dir"]
TreeLinks == {other}
TreeLocks == {code}
TreeLogs  == {other}

\* The same tree with a log at its top that is written all the time.
BusyKind == [p \in TreePaths |-> IF p = other THEN "file" ELSE "dir"]
=============================================================================
