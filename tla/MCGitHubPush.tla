----------------------------- MODULE MCGitHubPush -----------------------------
(***************************************************************************)
(* GitHubPush for TLC: one user, a path and a repository root, two          *)
(* versions of the files, two requests at a time, any number in a row.      *)
(***************************************************************************)
EXTENDS GitHubPush, TLC

CONSTANTS alice, pathTarget, rootTarget, v1, v2, q1, q2, app, tool, env, c1, c2

MCUsers == {alice}
MCTargets == {pathTarget, rootTarget}
MCRooted == {rootTarget}
MCVersions == {v1, v2}
MCRequests == {q1, q2}
MCNames == {app, tool, env}
MCSkipped == {env}
MCContents == {c1, c2}

Files(a, t, e) == [n \in MCNames |-> CASE n = app -> a [] n = tool -> t [] n = env -> e]

\* The second version has dropped the tool of the first.
MCFilesOf == [v \in MCVersions |-> Files(c1, IF v = v1 THEN c1 ELSE None, None)]

\* Others leave an edited app or, under the path, nothing but an .env.
MCForeign ==
    [t \in MCTargets |-> {Files(c2, None, None)} \cup
                         (IF t = pathTarget THEN {Files(None, None, c2)} ELSE {})]
MCSymmetry == Permutations(MCRequests)
===============================================================================
