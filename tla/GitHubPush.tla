------------------------------ MODULE GitHubPush ------------------------------
(***************************************************************************)
(* Publishing one agent's files to GitHub: the users' connections, the      *)
(* agent's link with its push baseline, the linked subtrees on GitHub, and  *)
(* the link and push requests.  A push reads the link, then the baseline    *)
(* hash, clones, compares, pushes without force and records, one await      *)
(* apart each; people edit the repository meanwhile.  A version of the      *)
(* agent's files stands for its own tree_hash.                              *)
(***************************************************************************)
EXTENDS FiniteSets

CONSTANTS
    User,       \* builder users who may connect a GitHub account
    Target,     \* repository, branch and path together, each on a branch of its own
    Rooted,     \* the targets with an empty path
    Name,       \* names of files under a target
    Skipped,    \* of these, the ones in _NEVER_PUSH
    Content,    \* what a file can hold
    Version,    \* what the agent's files can be
    FilesOf,    \* the files of each version, as _collect finds them
    Foreign,    \* bound: what others may leave under each target, or its default branch hold
    None,       \* no link, no connection, no hash, no version, no file, no branch
    Request,    \* slots for link and push requests, each used again and again
    Faults      \* calls may fail, with or without effect, and requests may die

\* The files under a target.
Tree == [Name -> Content \cup {None}]

ASSUME GitHubAssumption ==
    /\ Rooted \subseteq Target /\ Skipped \subseteq Name
    /\ None \notin User \cup Target \cup Version \cup Content \cup Tree
    /\ FilesOf \in [Version -> Tree]
    /\ \A v \in Version, n \in Skipped : FilesOf[v][n] = None
    /\ Foreign \in [Target -> SUBSET Tree]
    /\ Faults \in BOOLEAN

VARIABLES
    conn,      \* the users with a github_connections row
    link,      \* the github_* columns of the agent's row
    remote,    \* GitHub: the files under each target, None where its branch is missing
    request,   \* per request: where it is and what it carries (Local)
    foreign,   \* history: the targets somebody else has changed
    calm       \* history: no requests have overlapped, the link has not changed
               \* under a push, and every push that took effect was recorded

vars == <<conn, link, remote, request, foreign, calm>>

\* What _collect sees of a tree, and so does its hash.
Seen(tree) == [n \in Name \ Skipped |-> tree[n]]

Nothing == [n \in Name |-> None]

\* error: the files differ from the baseline, the push did not succeed, the rest.
Link == [target : Target \cup {None}, conn : User \cup {None},
         hash : Version \cup {None}, error : {"none", "diverged", "rejected", "other"}]
NoLink == [target |-> None, conn |-> None, hash |-> None, error |-> "none"]

\* conn becomes None when the row it names is deleted; copy is the tree to be
\* pushed; cloned says nobody has committed to the branch since it was cloned;
\* result is how the push ended.
Local == [at : {"idle", "check", "baseline", "clone", "upload", "record"},
          target : Target \cup {None}, conn : User \cup {None},
          last : Version \cup {None}, files : Version \cup {None},
          copy : Tree, cloned : BOOLEAN,
          result : {"none", "diverged", "rejected", "other"}]

Idle == [at |-> "idle", target |-> None, conn |-> None, last |-> None, files |-> None,
         copy |-> Nothing, cloned |-> FALSE, result |-> "none"]

Active(r) == request[r].at # "idle"
Quiet == \A r \in Request : ~Active(r)

Go(r, here) == request' = [request EXCEPT ![r] = here]
End(r) == Go(r, Idle)
Raced == calm' = (calm /\ Quiet)

Init ==
    /\ conn = {}
    /\ link = NoLink
    /\ remote \in [Target -> Tree \cup {None}]
    /\ \A t \in Target : remote[t] \in Foreign[t] \cup {None}
    /\ foreign = {}
    /\ request = [r \in Request |-> Idle]
    /\ calm = TRUE

-------------------------------------------------------------------------------
(* Connections and repositories.                                           *)

\* save_connection: a reconnect keeps the row, and with it the links.
Connect(u) ==
    /\ u \notin conn
    /\ conn' = conn \cup {u}
    /\ UNCHANGED <<link, remote, request, foreign, calm>>

\* The foreign key clears the links; whoever still holds the id holds nothing.
Disconnect(u) ==
    /\ u \in conn
    /\ conn' = conn \ {u}
    /\ link' = [link EXCEPT !.conn = IF @ = u THEN None ELSE @]
    /\ request' = [r \in Request |->
                      IF request[r].conn = u THEN [request[r] EXCEPT !.conn = None]
                      ELSE request[r]]
    /\ UNCHANGED <<remote, foreign, calm>>

Outdated(t) ==
    [r \in Request |-> IF request[r].target = t THEN [request[r] EXCEPT !.cloned = FALSE]
                       ELSE request[r]]

\* Somebody commits to the target's branch, creates or deletes it: the target
\* changes, its files go, or only the rest of the repository changes.
Upstream(t) ==
    /\ \E tree \in Foreign[t] \cup {None, remote[t]} : remote' = [remote EXCEPT ![t] = tree]
    /\ request' = Outdated(t)
    /\ foreign' = foreign \cup {t}
    /\ UNCHANGED <<conn, link, calm>>

-------------------------------------------------------------------------------
(* Linking.                                                                *)

BeginLink(r, u, t) ==
    /\ request[r].at = "idle" /\ u \in conn
    /\ Go(r, [Idle EXCEPT !.at = "check", !.target = t, !.conn = u])
    /\ Raced
    /\ UNCHANGED <<conn, link, remote, foreign>>

LinkedKeepingHash(t, u) == [link EXCEPT !.target = t, !.conn = u, !.error = "none"]

\* set_link: a relink does not inherit the old divergence hash or error.
Linked(t, u) == [target |-> t, conn |-> u, hash |-> None, error |-> "none"]

\* assert_writable passes, and the connection must still exist for the UPDATE.
SetLink(r) ==
    LET me == request[r] IN
    /\ me.at = "check"
    /\ link' = IF me.conn = None THEN link ELSE Linked(me.target, me.conn)
    /\ End(r)
    /\ UNCHANGED <<conn, remote, foreign, calm>>

Unlink ==
    /\ link.target # None
    /\ link' = NoLink
    /\ Raced
    /\ UNCHANGED <<conn, remote, request, foreign>>

-------------------------------------------------------------------------------
(* Pushing.                                                                *)

BeginPush(r) ==
    /\ request[r].at = "idle" /\ link.target # None /\ link.conn # None
    /\ Go(r, [Idle EXCEPT !.at = "baseline", !.target = link.target, !.conn = link.conn])
    /\ Raced
    /\ UNCHANGED <<conn, link, remote, foreign>>

\* What is left of a push once its outcome is known.
Outcome(r, how) == [Idle EXCEPT !.at = "record", !.files = request[r].files, !.result = how]
Finishes(r, how) == Go(r, Outcome(r, how))

\* get_token, get_tree_hash and _collect; without token or files the push fails.
\* Builds and edits change the files at will, so any version may be found.
ReadBaseline(r) ==
    LET me == request[r] IN
    /\ me.at = "baseline"
    /\ \/ Finishes(r, "other")
       \/ \E v \in Version :
            /\ me.conn # None
            /\ Go(r, [me EXCEPT !.at = "clone", !.conn = None, !.last = link.hash, !.files = v])
    /\ UNCHANGED <<conn, link, remote, foreign, calm>>

\* Has anyone touched our subtree since we last wrote it?  A subtree without
\* files is not compared.
Diverged(last, found) ==
    last # None /\ Seen(found) \notin {Seen(Nothing), Seen(FilesOf[last])}

\* A path is removed and written anew; at the root nothing is removed, so that
\* everything the version does not hold stays, also older files of our own.
Copied(t, found, v) ==
    IF t \in Rooted THEN [n \in Name |-> IF FilesOf[v][n] # None THEN FilesOf[v][n] ELSE found[n]]
    ELSE FilesOf[v]

\* A missing branch starts from the default branch.
Found(t) == IF remote[t] = None THEN Foreign[t] ELSE {remote[t]}

\* Nothing to commit after the copy is a success without a push, also where the
\* branch is missing.
Clone(r) ==
    LET me == request[r] IN
    /\ me.at = "clone"
    /\ \/ \E found \in Found(me.target) :
            LET copy == Copied(me.target, found, me.files) IN
            \/ Diverged(me.last, found) /\ Finishes(r, "diverged")
            \/ ~Diverged(me.last, found) /\ copy = found /\ Finishes(r, "none")
            \/ /\ ~Diverged(me.last, found) /\ copy # found
               /\ Go(r, [me EXCEPT !.at = "upload", !.copy = copy, !.cloned = TRUE])
       \/ Faults /\ Finishes(r, "other")
    /\ UNCHANGED <<conn, link, remote, foreign, calm>>

AcceptedForced(r) == TRUE
\* Fast-forward only: the branch must be where it was cloned.
Accepted(r) == request[r].cloned

\* Whatever fails a push is reported as a branch that has moved: that it has, that
\* nothing reached GitHub or was let in, that the answer was lost.
Upload(r) ==
    LET me == request[r]
        Ends(how) == [Outdated(me.target) EXCEPT ![r] = Outcome(r, how)] IN
    /\ me.at = "upload"
    /\ \/ /\ Accepted(r)
          /\ remote' = [remote EXCEPT ![me.target] = me.copy]
          /\ \/ request' = Ends("none") /\ UNCHANGED calm
             \/ Faults /\ request' = Ends("rejected") /\ calm' = FALSE
       \/ /\ ~Accepted(r) \/ Faults
          /\ Finishes(r, "rejected")
          /\ UNCHANGED <<remote, calm>>
    /\ UNCHANGED <<conn, link, foreign>>

RecordedAnyway(files, result) == [link EXCEPT !.hash = files, !.error = result]
RecordedSwapped(files, result) == [link EXCEPT !.hash = result, !.error = files]

\* record_push: a failure keeps the previous tree hash.
Recorded(files, result) ==
    [link EXCEPT !.hash = IF result = "none" THEN files ELSE @, !.error = result]

\* The row is found by agent id, whatever it is linked to by now.
Record(r) ==
    LET me == request[r] IN
    /\ me.at = "record"
    /\ link' = Recorded(me.files, me.result)
    /\ End(r)
    /\ UNCHANGED <<conn, remote, foreign, calm>>

\* A failed check, statement or call, or the death of the process.
Interrupt(r) ==
    /\ Faults /\ Active(r)
    /\ End(r)
    /\ calm' = (calm /\ ~(request[r].at = "record" /\ request[r].result = "none"))
    /\ UNCHANGED <<conn, link, remote, foreign>>

-------------------------------------------------------------------------------
Next ==
    \/ \E u \in User : Connect(u) \/ Disconnect(u)
    \/ Unlink
    \/ \E t \in Target : Upstream(t)
    \/ \E r \in Request :
        \/ \E u \in User, t \in Target : BeginLink(r, u, t)
        \/ SetLink(r) \/ BeginPush(r) \/ ReadBaseline(r) \/ Clone(r) \/ Upload(r)
        \/ Record(r) \/ Interrupt(r)

Spec == Init /\ [][Next]_vars

-------------------------------------------------------------------------------
(* Properties                                                              *)

TypeOK ==
    /\ conn \subseteq User
    /\ link \in Link
    /\ remote \in [Target -> Tree \cup {None}]
    /\ request \in [Request -> Local]
    /\ foreign \subseteq Target
    /\ calm \in BOOLEAN

\* The push of r takes effect in this step.
Publishes(r) == request[r].at = "upload" /\ request'[r].at = "record" /\ remote' # remote

\* What a push may replace: nothing, a tree without files we would see, or what
\* the baseline says we wrote.
Ours(last, tree) ==
    tree = None \/ Seen(tree) \in {Seen(Nothing), Seen(FilesOf[last])}

\* A push through a link with a baseline replaces exactly what the baseline says
\* is there: no edit, addition or deletion made on GitHub is lost, be it from
\* before the clone or from between clone and push, whichever other push or
\* target left the baseline.  Not covered, as in the code: a target whose files
\* were all deleted is filled again, and files in _NEVER_PUSH are not looked at.
BaselineSparesEdits ==
    [][\A r \in Request : Publishes(r) /\ request[r].last # None =>
          Ours(request[r].last, remote[request[r].target])]_vars

\* CONTEXT.md: an edit made on GitHub causes a push to fail rather than be
\* clobbered.  A link, a takeover say, starts without a baseline, and a path
\* loses the files in _NEVER_PUSH that others have put there.
EditsNeverClobbered ==
    [][\A r \in Request : Publishes(r) =>
          \A n \in Name : LET t == request[r].target IN
              remote[t] # None /\ remote'[t][n] # remote[t][n] =>
                  \E v \in Version : remote[t][n] \in {None, FilesOf[v][n]}]_vars

\* The target holds the version: writing it again would find nothing to commit.
Holds(t, v) == Copied(t, remote[t], v) = remote[t]

\* The baseline is what the linked target holds, if its branch exists and nobody
\* else has changed it, as long as requests on the link do not overlap and
\* outcomes are recorded.
BaselineIsRemote ==
    calm /\ Quiet /\ link.hash # None /\ link.target \notin foreign
    /\ remote[link.target] # None =>
        Holds(link.target, link.hash)

\* A path that is refused because it differs from the baseline has changes that
\* the builder did not make, under the same proviso.
RefusalIsTruthful ==
    calm /\ Quiet /\ link.error = "diverged" /\ link.target \notin Rooted =>
        link.target \in foreign \/ remote[link.target] = None

\* docs/github-setup.md: a 409 means the repository has changes the builder did
\* not make.  It also means a root with older files of the builder's own, and a
\* push that failed for whatever reason.
ConflictIsForeign ==
    calm /\ Quiet /\ link.error \in {"diverged", "rejected"} => link.target \in foreign
===============================================================================
