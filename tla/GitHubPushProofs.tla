--------------------------- MODULE GitHubPushProofs ---------------------------
(***************************************************************************)
(* Theorems about GitHubPush, for every set of users, targets, files, versions *)
(* and requests, with and without faults.                                   *)
(***************************************************************************)
EXTENDS GitHubPush, TLAPS

Pushing == {"baseline", "clone", "upload"}

\* A push has a target, and from the clone on a version of its own.
PushOK ==
    \A r \in Request :
        /\ request[r].at \in Pushing \cup {"check"} => request[r].target \in Target
        /\ request[r].at = "check" \/ request[r].at = "idle" => request[r].result = "none"
        /\ request[r].at \in {"clone", "upload"} => request[r].files \in Version
        /\ request[r].at = "record" /\ request[r].result = "none" => request[r].files \in Version

\* A copy holds its files, and a push with a baseline that still fast-forwards
\* replaces what the baseline says is there.
UploadOK ==
    \A r \in Request :
        request[r].at = "upload" =>
            /\ request[r].copy = Copied(request[r].target, request[r].copy, request[r].files)
            /\ request[r].cloned /\ request[r].last # None =>
                   Ours(request[r].last, remote[request[r].target])

\* The target cannot speak of what the builder did there last.
Excused == link.target \in foreign \/ remote[link.target] = None

\* A push has taken effect, or found nothing to do, and is about to be recorded.
Unrecorded == \E r \in Request : request[r].at = "record" /\ request[r].result = "none"

\* While requests do not overlap, a push is about the linked target and the stored
\* baseline, and a path is refused only where somebody else has written.
CalmOK ==
    calm =>
        /\ \A r, s \in Request : Active(r) /\ Active(s) => r = s
        /\ \A r \in Request :
              /\ request[r].at \in Pushing \cup {"record"} => link.target \in Target
              /\ request[r].at \in Pushing => request[r].target = link.target
              /\ request[r].at \in {"clone", "upload"} => request[r].last = link.hash
              /\ request[r].at = "record" /\ request[r].result = "diverged" =>
                     Excused \/ link.target \in Rooted
              /\ request[r].at = "record" /\ request[r].result = "none" =>
                     Excused \/ Holds(link.target, request[r].files)

\* ... and the baseline is what the target holds, up to the push that has just
\* taken effect and is about to be recorded.
BaselineOK ==
    calm /\ link.hash # None =>
        link.target \in Target /\ (Excused \/ Holds(link.target, link.hash) \/ Unrecorded)

\* ... and so far a recorded refusal is true.
RefusalOK ==
    calm /\ link.error = "diverged" =>
        link.target \in Target /\ (Excused \/ link.target \in Rooted \/ Unrecorded)

Inv == TypeOK /\ PushOK /\ UploadOK /\ CalmOK /\ BaselineOK /\ RefusalOK

-------------------------------------------------------------------------------
(* What the steps do to the requests.                                       *)

\* All of a request but its connection and whether its clone is current.
Same(q) ==
    /\ request'[q].at = request[q].at /\ request'[q].target = request[q].target
    /\ request'[q].last = request[q].last /\ request'[q].files = request[q].files
    /\ request'[q].copy = request[q].copy /\ request'[q].result = request[q].result

\* Only the request r moves.
Only(r) == \A q \in Request : q # r => request'[q] = request[q]

LEMMA IdleIs ==
    /\ Idle \in Local
    /\ Idle.at = "idle" /\ Idle.target = None /\ Idle.conn = None /\ Idle.last = None
    /\ Idle.files = None /\ Idle.copy = Nothing /\ ~Idle.cloned /\ Idle.result = "none"
<1>1. Nothing \in Tree
    BY DEF Nothing, Tree
<1>2. QED
    BY <1>1 DEF Idle, Local

LEMMA GoMoves ==
    ASSUME TypeOK, NEW r \in Request, NEW here \in Local, Go(r, here)
    PROVE  request'[r] = here /\ Only(r) /\ request' \in [Request -> Local]
    BY DEF TypeOK, Go, Only

LEMMA OutdatedKeeps ==
    ASSUME TypeOK, NEW t \in Target, NEW q \in Request
    PROVE  /\ Outdated(t)[q] \in Local
           /\ Outdated(t)[q].at = request[q].at /\ Outdated(t)[q].target = request[q].target
           /\ Outdated(t)[q].last = request[q].last /\ Outdated(t)[q].files = request[q].files
           /\ Outdated(t)[q].copy = request[q].copy
           /\ Outdated(t)[q].result = request[q].result
           /\ Outdated(t)[q].cloned => request[q].cloned /\ request[q].target # t
           /\ ~Outdated(t)[q].cloned => ~request[q].cloned \/ request[q].target = t
<1> DEFINE old == [request[q] EXCEPT !.cloned = FALSE]
<1>1. request[q] \in Local
    BY DEF TypeOK
<1>2. Outdated(t)[q] = IF request[q].target = t THEN old ELSE request[q]
    BY DEF Outdated
<1>3. /\ old \in Local /\ old.at = request[q].at /\ old.target = request[q].target
      /\ old.last = request[q].last /\ old.files = request[q].files
      /\ old.copy = request[q].copy /\ old.result = request[q].result /\ ~old.cloned
    BY <1>1 DEF Local
<1> HIDE DEF old
<1>4. QED
    BY <1>1, <1>2, <1>3

LEMMA OutcomeIs ==
    ASSUME TypeOK, NEW r \in Request, NEW how \in {"none", "diverged", "rejected", "other"}
    PROVE  /\ Outcome(r, how) \in Local /\ Outcome(r, how).at = "record"
           /\ Outcome(r, how).files = request[r].files /\ Outcome(r, how).result = how
           /\ ~Outcome(r, how).cloned
<1>1. request[r].files \in Version \cup {None}
    BY DEF TypeOK, Local
<1>2. QED
    BY <1>1, IdleIs DEF Outcome, Local

\* What stays calm was calm before and, if a request or a link change began,
\* found no request under way.
LEMMA RacedIs ==
    ASSUME Raced
    PROVE  calm' \in BOOLEAN /\ (calm' => calm /\ \A r \in Request : request[r].at = "idle")
<1>1. calm' \in BOOLEAN
    BY Zenon DEF Raced
<1>2. calm' => calm /\ Quiet
    BY Zenon DEF Raced
<1>3. QED
    BY <1>1, <1>2 DEF Quiet, Active

\* A branch has files, and a missing one starts from some.
LEMMA FoundIs ==
    ASSUME TypeOK, NEW t \in Target, NEW found \in Found(t)
    PROVE  found \in Tree /\ found # None /\ (remote[t] # None => found = remote[t])
<1>1. found \in Tree
    BY GitHubAssumption DEF Found, TypeOK
<1>2. found # None
    BY <1>1, GitHubAssumption
<1>3. QED
    BY <1>1, <1>2 DEF Found

\* A copy has files; copying the same version over it changes nothing; a path gets
\* the files of the version and no others.
LEMMA CopiedIs ==
    ASSUME NEW t \in Target, NEW found \in Tree, NEW v \in Version
    PROVE  /\ Copied(t, found, v) \in Tree
           /\ Copied(t, Copied(t, found, v), v) = Copied(t, found, v)
           /\ t \notin Rooted => Copied(t, found, v) = FilesOf[v]
<1>1. FilesOf[v] \in Tree
    BY GitHubAssumption
<1>2. CASE t \in Rooted
    <2> DEFINE over == [n \in Name |-> IF FilesOf[v][n] # None THEN FilesOf[v][n] ELSE found[n]]
               again == [n \in Name |-> IF FilesOf[v][n] # None THEN FilesOf[v][n] ELSE over[n]]
    <2>1. over \in Tree
        BY <1>1 DEF Tree
    <2>2. again = over
        OBVIOUS
    <2>3. Copied(t, found, v) = over /\ Copied(t, over, v) = again
        BY <1>2 DEF Copied
    <2> HIDE DEF over, again
    <2>4. QED
        BY <1>2, <2>1, <2>2, <2>3
<1>3. CASE t \notin Rooted
    BY <1>1, <1>3 DEF Copied
<1>4. QED
    BY <1>2, <1>3

LEMMA Initial == Init => Inv
<1> SUFFICES ASSUME Init PROVE Inv
    OBVIOUS
<1>1. NoLink \in Link /\ NoLink.hash = None /\ NoLink.error = "none"
    BY DEF NoLink, Link
<1>2. \A r \in Request : request[r] = Idle
    BY DEF Init
<1>3. TypeOK
    BY <1>1, IdleIs DEF Init, TypeOK
<1>4. PushOK /\ UploadOK
    BY <1>2, IdleIs DEF PushOK, UploadOK, Pushing
<1>5. CalmOK
    BY <1>2, IdleIs DEF CalmOK, Pushing, Active
<1>6. BaselineOK /\ RefusalOK
    BY <1>1 DEF Init, BaselineOK, RefusalOK
<1>7. QED
    BY <1>3, <1>4, <1>5, <1>6 DEF Inv

-------------------------------------------------------------------------------
(* Each step keeps the invariant.                                           *)

LEMMA ConnectKeeps ==
    ASSUME Inv, NEW u \in User, Connect(u)
    PROVE  Inv'
    BY DEF Connect, Inv, TypeOK, PushOK, UploadOK, CalmOK, BaselineOK,
           RefusalOK, Excused, Unrecorded, Holds, Active

LEMMA DisconnectKeeps ==
    ASSUME Inv, NEW u \in User, Disconnect(u)
    PROVE  Inv'
<1> DEFINE without == [link EXCEPT !.conn = IF @ = u THEN None ELSE @]
<1>1. /\ without \in Link /\ without.target = link.target /\ without.hash = link.hash
      /\ without.error = link.error
    BY DEF Inv, TypeOK, Link
<1>2. link' = without /\ UNCHANGED <<remote, foreign, calm>> /\ conn' \subseteq User
    BY DEF Disconnect, Inv, TypeOK
<1> HIDE DEF without
<1>3. ASSUME NEW q \in Request
      PROVE  request'[q] \in Local /\ Same(q) /\ request'[q].cloned = request[q].cloned
    <2> DEFINE lost == [request[q] EXCEPT !.conn = None]
    <2>1. request[q] \in Local
        BY DEF Inv, TypeOK
    <2>2. /\ lost \in Local /\ lost.at = request[q].at /\ lost.target = request[q].target
          /\ lost.last = request[q].last /\ lost.files = request[q].files
          /\ lost.copy = request[q].copy /\ lost.result = request[q].result
          /\ lost.cloned = request[q].cloned
        BY <2>1 DEF Local
    <2>3. request'[q] = IF request[q].conn = u THEN lost ELSE request[q]
        BY DEF Disconnect
    <2> HIDE DEF lost
    <2>4. QED
        BY <2>1, <2>2, <2>3 DEF Same
<1>4. request' = [r \in Request |-> request'[r]]
    BY DEF Disconnect
<1>5. TypeOK'
    BY <1>1, <1>2, <1>3, <1>4 DEF Inv, TypeOK
<1>6. PushOK' /\ UploadOK'
    BY <1>2, <1>3 DEF Inv, PushOK, UploadOK, Same
<1>7. Unrecorded => Unrecorded'
    BY <1>3 DEF Unrecorded, Same
<1>8. CalmOK'
    BY <1>1, <1>2, <1>3 DEF Inv, CalmOK, Same, Active, Excused, Holds
<1>9. BaselineOK' /\ RefusalOK'
    BY <1>1, <1>2, <1>7 DEF Inv, BaselineOK, RefusalOK, Excused, Holds
<1>10. QED
    BY <1>5, <1>6, <1>8, <1>9 DEF Inv

LEMMA UpstreamKeeps ==
    ASSUME Inv, NEW t \in Target, Upstream(t)
    PROVE  Inv'
<1>1. PICK tree \in Foreign[t] \cup {None, remote[t]} : remote' = [remote EXCEPT ![t] = tree]
    BY DEF Upstream
<1>2. /\ request' = Outdated(t) /\ foreign' = foreign \cup {t}
      /\ UNCHANGED <<conn, link, calm>>
    BY DEF Upstream
<1>3. /\ remote' \in [Target -> Tree \cup {None}]
      /\ \A s \in Target : s # t => remote'[s] = remote[s]
    <2>1. tree \in Tree \cup {None}
        BY GitHubAssumption DEF Inv, TypeOK
    <2>2. QED
        BY <1>1, <2>1 DEF Inv, TypeOK
<1>4. ASSUME NEW q \in Request
      PROVE  /\ request'[q] \in Local /\ Same(q)
             /\ request'[q].cloned => request[q].cloned /\ request[q].target # t
             /\ ~request'[q].cloned => ~request[q].cloned \/ request[q].target = t
    BY <1>2, OutdatedKeeps DEF Inv, Same
<1>5. request' = [r \in Request |-> request'[r]]
    BY <1>2 DEF Outdated
<1>6. TypeOK'
    BY <1>2, <1>3, <1>4, <1>5 DEF Inv, TypeOK
<1>7. PushOK'
    BY <1>4 DEF Inv, PushOK, Same
<1>8. UploadOK'
    BY <1>2, <1>3, <1>4 DEF Inv, UploadOK, PushOK, Pushing, Same
<1>9. /\ link.target \in Target /\ Excused => Excused'
      /\ link.target \in Target => Excused' \/ remote'[link.target] = remote[link.target]
      /\ Unrecorded => Unrecorded'
    BY <1>2, <1>3, <1>4 DEF Excused, Unrecorded, Same
<1>10. CalmOK'
    BY <1>2, <1>4, <1>9 DEF Inv, CalmOK, Same, Active, Pushing, Holds
<1>11. BaselineOK'
    BY <1>2, <1>9 DEF Inv, BaselineOK, Holds
<1>12. RefusalOK'
    BY <1>2, <1>9 DEF Inv, RefusalOK
<1>13. QED
    BY <1>6, <1>7, <1>8, <1>10, <1>11, <1>12 DEF Inv

LEMMA UnlinkKeeps ==
    ASSUME Inv, Unlink
    PROVE  Inv'
<1>1. NoLink \in Link /\ NoLink.hash = None /\ NoLink.error = "none"
    BY DEF NoLink, Link
<1>2. link' = NoLink /\ UNCHANGED <<conn, remote, request, foreign>>
    BY DEF Unlink
<1>3. calm' \in BOOLEAN /\ (calm' => calm /\ \A r \in Request : request[r].at = "idle")
    BY RacedIs DEF Unlink
<1>4. TypeOK' /\ PushOK' /\ UploadOK'
    BY <1>1, <1>2, <1>3 DEF Inv, TypeOK, PushOK, UploadOK
<1>5. CalmOK'
    BY <1>2, <1>3 DEF CalmOK, Active, Pushing
<1>6. BaselineOK' /\ RefusalOK'
    BY <1>1, <1>2 DEF BaselineOK, RefusalOK
<1>7. QED
    BY <1>4, <1>5, <1>6 DEF Inv

LEMMA BeginLinkKeeps ==
    ASSUME Inv, NEW r \in Request, NEW u \in User, NEW t \in Target, BeginLink(r, u, t)
    PROVE  Inv'
<1> DEFINE here == [Idle EXCEPT !.at = "check", !.target = t, !.conn = u]
<1>1. here \in Local /\ here.at = "check" /\ here.target = t /\ here.result = "none"
    BY IdleIs DEF Local
<1>2. Go(r, here) /\ UNCHANGED <<conn, link, remote, foreign>>
    BY DEF BeginLink
<1> HIDE DEF here
<1>3. request'[r] = here /\ Only(r) /\ request' \in [Request -> Local]
    BY <1>1, <1>2, GoMoves DEF Inv
<1>4. calm' \in BOOLEAN /\ (calm' => calm /\ \A q \in Request : request[q].at = "idle")
    BY RacedIs DEF BeginLink
<1>5. request[r].at = "idle"
    BY DEF BeginLink
<1>6. TypeOK'
    BY <1>2, <1>3, <1>4 DEF Inv, TypeOK
<1>7. PushOK' /\ UploadOK'
    BY <1>1, <1>2, <1>3 DEF Inv, PushOK, UploadOK, Only, Pushing
<1>8. CalmOK'
    BY <1>1, <1>2, <1>3, <1>4 DEF CalmOK, Active, Pushing, Only
<1>9. BaselineOK' /\ RefusalOK'
    BY <1>2, <1>3, <1>4, <1>5 DEF Inv, BaselineOK, RefusalOK, Only, Excused, Unrecorded, Holds
<1>10. QED
    BY <1>6, <1>7, <1>8, <1>9 DEF Inv

LEMMA BeginPushKeeps ==
    ASSUME Inv, NEW r \in Request, BeginPush(r)
    PROVE  Inv'
<1> DEFINE here == [Idle EXCEPT !.at = "baseline", !.target = link.target, !.conn = link.conn]
<1>1. link.target \in Target /\ link.conn \in User \cup {None}
    BY DEF BeginPush, Inv, TypeOK, Link
<1>2. /\ here \in Local /\ here.at = "baseline" /\ here.target = link.target
      /\ here.result = "none"
    BY <1>1, IdleIs DEF Local
<1>3. Go(r, here) /\ UNCHANGED <<conn, link, remote, foreign>>
    BY DEF BeginPush
<1> HIDE DEF here
<1>4. request'[r] = here /\ Only(r) /\ request' \in [Request -> Local]
    BY <1>2, <1>3, GoMoves DEF Inv
<1>5. calm' \in BOOLEAN /\ (calm' => calm /\ \A q \in Request : request[q].at = "idle")
    BY RacedIs DEF BeginPush
<1>6. request[r].at = "idle"
    BY DEF BeginPush
<1>7. TypeOK'
    BY <1>3, <1>4, <1>5 DEF Inv, TypeOK
<1>8. PushOK' /\ UploadOK'
    BY <1>1, <1>2, <1>3, <1>4 DEF Inv, PushOK, UploadOK, Only, Pushing
<1>9. CalmOK'
    BY <1>1, <1>2, <1>3, <1>4, <1>5 DEF CalmOK, Active, Pushing, Only
<1>10. BaselineOK' /\ RefusalOK'
    BY <1>3, <1>4, <1>5, <1>6 DEF Inv, BaselineOK, RefusalOK, Only, Excused, Unrecorded, Holds
<1>11. QED
    BY <1>7, <1>8, <1>9, <1>10 DEF Inv

\* A push that ends without touching GitHub, for a reason that is true.
LEMMA FinishKeeps ==
    ASSUME Inv, NEW r \in Request, NEW how \in {"none", "diverged", "rejected", "other"},
           request[r].at \in Pushing, Finishes(r, how),
           UNCHANGED <<conn, link, remote, foreign, calm>>,
           how = "none" => /\ request[r].files \in Version
                           /\ calm => Excused \/ Holds(link.target, request[r].files),
           how = "diverged" => (calm => Excused \/ link.target \in Rooted)
    PROVE  Inv'
<1> DEFINE here == Outcome(r, how)
<1>1. /\ here \in Local /\ here.at = "record" /\ here.files = request[r].files
      /\ here.result = how
    BY OutcomeIs DEF Inv
<1>2. Go(r, here)
    BY DEF Finishes
<1> HIDE DEF here
<1>3. request'[r] = here /\ Only(r) /\ request' \in [Request -> Local]
    BY <1>1, <1>2, GoMoves DEF Inv
<1>4. TypeOK'
    BY <1>3 DEF Inv, TypeOK
<1>5. PushOK' /\ UploadOK'
    BY <1>1, <1>3 DEF Inv, PushOK, UploadOK, Only, Pushing
<1>6. CalmOK'
    BY <1>1, <1>3 DEF Inv, CalmOK, Only, Active, Pushing, Excused, Holds
<1>7. Unrecorded => Unrecorded'
    BY <1>1, <1>3 DEF Unrecorded, Only, Pushing
<1>8. BaselineOK' /\ RefusalOK'
    BY <1>7 DEF Inv, BaselineOK, RefusalOK, Excused, Holds
<1>9. QED
    BY <1>4, <1>5, <1>6, <1>8 DEF Inv

LEMMA ReadBaselineKeeps ==
    ASSUME Inv, NEW r \in Request, ReadBaseline(r)
    PROVE  Inv'
<1>1. request[r].at = "baseline" /\ UNCHANGED <<conn, link, remote, foreign, calm>>
    BY DEF ReadBaseline
<1>2. CASE Finishes(r, "other")
    BY <1>1, <1>2, FinishKeeps DEF Pushing
<1>3. ASSUME NEW v \in Version,
             Go(r, [request[r] EXCEPT !.at = "clone", !.conn = None, !.last = link.hash,
                                      !.files = v])
      PROVE  Inv'
    <2> DEFINE here == [request[r] EXCEPT !.at = "clone", !.conn = None, !.last = link.hash,
                                          !.files = v]
    <2>1. request[r] \in Local /\ link.hash \in Version \cup {None}
        BY DEF Inv, TypeOK, Link
    <2>2. /\ here \in Local /\ here.at = "clone" /\ here.target = request[r].target
          /\ here.last = link.hash /\ here.files = v
        BY <2>1 DEF Local
    <2>3. Go(r, here)
        BY <1>3
    <2> HIDE DEF here
    <2>4. request'[r] = here /\ Only(r) /\ request' \in [Request -> Local]
        BY <2>2, <2>3, GoMoves DEF Inv
    <2>5. TypeOK'
        BY <1>1, <2>4 DEF Inv, TypeOK
    <2>6. PushOK' /\ UploadOK'
        BY <1>1, <2>2, <2>4 DEF Inv, PushOK, UploadOK, Only, Pushing
    <2>7. CalmOK'
        BY <1>1, <2>2, <2>4 DEF Inv, CalmOK, Only, Active, Pushing, Excused, Holds
    <2>8. BaselineOK' /\ RefusalOK'
        BY <1>1, <2>2, <2>4 DEF Inv, BaselineOK, RefusalOK, Only, Excused, Unrecorded, Holds
    <2>9. QED
        BY <2>5, <2>6, <2>7, <2>8 DEF Inv
<1>4. QED
    BY <1>2, <1>3 DEF ReadBaseline

\* Nothing to commit: the target holds the files already, or its branch is missing.
LEMMA NothingToCommitKeeps ==
    ASSUME Inv, NEW r \in Request, request[r].at = "clone",
           NEW found \in Found(request[r].target),
           Copied(request[r].target, found, request[r].files) = found, Finishes(r, "none"),
           UNCHANGED <<conn, link, remote, foreign, calm>>
    PROVE  Inv'
<1>1. request[r].target \in Target /\ request[r].files \in Version
    BY DEF Inv, PushOK, Pushing
<1>2. calm => Excused \/ Holds(link.target, request[r].files)
    BY <1>1, FoundIs DEF Inv, CalmOK, Pushing, Excused, Holds
<1>3. QED
    BY <1>1, <1>2, FinishKeeps DEF Pushing

\* A path that holds what the baseline says does not differ from it.
LEMMA DivergedKeeps ==
    ASSUME Inv, NEW r \in Request, request[r].at = "clone",
           NEW found \in Found(request[r].target),
           Diverged(request[r].last, found), Finishes(r, "diverged"),
           UNCHANGED <<conn, link, remote, foreign, calm>>
    PROVE  Inv'
<1>1. ASSUME calm, ~Excused, link.target \notin Rooted PROVE FALSE
    <2>1. /\ request[r].target = link.target /\ request[r].last = link.hash
          /\ \A q \in Request : request[q].at = "record" => q = r
        BY <1>1 DEF Inv, CalmOK, Pushing, Active
    <2>2. link.hash \in Version /\ link.target \in Target /\ Holds(link.target, link.hash)
        BY <1>1, <2>1 DEF Inv, BaselineOK, Diverged, Unrecorded, TypeOK, Link
    <2>3. found = remote[link.target] /\ found \in Tree
        BY <1>1, <2>1, <2>2, FoundIs DEF Inv, Excused
    <2>4. found = FilesOf[link.hash]
        BY <1>1, <2>2, <2>3, CopiedIs DEF Holds
    <2>5. QED
        BY <2>1, <2>4 DEF Diverged
<1>2. QED
    BY <1>1, FinishKeeps DEF Pushing

LEMMA CommitKeeps ==
    ASSUME Inv, NEW r \in Request, request[r].at = "clone",
           NEW found \in Found(request[r].target), ~Diverged(request[r].last, found),
           Go(r, [request[r] EXCEPT !.at = "upload", !.cloned = TRUE,
                      !.copy = Copied(request[r].target, found, request[r].files)]),
           UNCHANGED <<conn, link, remote, foreign, calm>>
    PROVE  Inv'
<1> DEFINE t == request[r].target
           copy == Copied(t, found, request[r].files)
           here == [request[r] EXCEPT !.at = "upload", !.cloned = TRUE, !.copy = copy]
<1>1. t \in Target /\ request[r].files \in Version
    BY DEF Inv, PushOK, Pushing
<1>2. found \in Tree /\ (remote[t] # None => found = remote[t])
    BY <1>1, FoundIs DEF Inv
<1>3. copy \in Tree /\ copy = Copied(t, copy, request[r].files)
    BY <1>1, <1>2, CopiedIs
<1>4. request[r].last # None => Ours(request[r].last, remote[t])
    BY <1>2 DEF Diverged, Ours
<1>5. request[r] \in Local
    BY DEF Inv, TypeOK
<1> HIDE DEF copy
<1>6. /\ here \in Local /\ here.at = "upload" /\ here.target = t
      /\ here.last = request[r].last /\ here.files = request[r].files /\ here.copy = copy
      /\ here.cloned
    BY <1>3, <1>5 DEF Local
<1>7. Go(r, here)
    BY DEF copy
<1> HIDE DEF here
<1>8. request'[r] = here /\ Only(r) /\ request' \in [Request -> Local]
    BY <1>6, <1>7, GoMoves DEF Inv
<1>9. TypeOK'
    BY <1>8 DEF Inv, TypeOK
<1>10. PushOK'
    BY <1>1, <1>6, <1>8 DEF Inv, PushOK, Only, Pushing
<1>11. UploadOK'
    BY <1>3, <1>4, <1>6, <1>8 DEF Inv, UploadOK, Only
<1>12. CalmOK'
    BY <1>6, <1>8 DEF Inv, CalmOK, Only, Active, Pushing, Excused, Holds
<1>13. BaselineOK' /\ RefusalOK'
    BY <1>6, <1>8 DEF Inv, BaselineOK, RefusalOK, Only, Excused, Unrecorded, Holds
<1>14. QED
    BY <1>9, <1>10, <1>11, <1>12, <1>13 DEF Inv

LEMMA CloneKeeps ==
    ASSUME Inv, NEW r \in Request, Clone(r)
    PROVE  Inv'
<1>1. request[r].at = "clone" /\ UNCHANGED <<conn, link, remote, foreign, calm>>
    BY DEF Clone
<1>2. CASE Finishes(r, "other")
    BY <1>1, <1>2, FinishKeeps DEF Pushing
<1>3. ASSUME NEW found \in Found(request[r].target),
             Diverged(request[r].last, found), Finishes(r, "diverged")
      PROVE  Inv'
    BY <1>1, <1>3, DivergedKeeps
<1>4. ASSUME NEW found \in Found(request[r].target), ~Diverged(request[r].last, found),
             \/ /\ Copied(request[r].target, found, request[r].files) = found
                /\ Finishes(r, "none")
             \/ Go(r, [request[r] EXCEPT !.at = "upload", !.cloned = TRUE,
                          !.copy = Copied(request[r].target, found, request[r].files)])
      PROVE  Inv'
    BY <1>1, <1>4, NothingToCommitKeeps, CommitKeeps
<1>5. QED
    BY <1>2, <1>3, <1>4 DEF Clone

-------------------------------------------------------------------------------
\* Only a push that still fast-forwards changes GitHub; it writes its copy, and
\* every other clone of the target is out of date.
LEMMA PublishKeeps ==
    ASSUME Inv, NEW r \in Request, NEW how \in {"none", "rejected"},
           request[r].at = "upload", request[r].cloned,
           remote' = [remote EXCEPT ![request[r].target] = request[r].copy],
           request' = [Outdated(request[r].target) EXCEPT ![r] = Outcome(r, how)],
           UNCHANGED <<conn, link, foreign>>,
           how = "none" => calm' = calm, how = "rejected" => calm' = FALSE
    PROVE  Inv'
<1> DEFINE t == request[r].target
           here == Outcome(r, how)
<1>1. t \in Target /\ request[r].files \in Version
    BY DEF Inv, PushOK, Pushing
<1>2. /\ request[r].copy \in Tree
      /\ request[r].copy = Copied(t, request[r].copy, request[r].files)
    BY DEF Inv, TypeOK, Local, UploadOK
<1>3. /\ here \in Local /\ here.at = "record" /\ here.files = request[r].files
      /\ here.result = how
    BY OutcomeIs DEF Inv
<1>4. request' = [q \in Request |-> IF q = r THEN here ELSE Outdated(t)[q]]
    BY DEF Outdated
<1> HIDE DEF here
<1>5. request'[r] = here
    BY <1>4
<1>6. ASSUME NEW q \in Request, q # r
      PROVE  /\ request'[q] \in Local /\ Same(q)
             /\ request'[q].cloned => request[q].cloned /\ request[q].target # t
    BY <1>1, <1>4, <1>6, OutdatedKeeps DEF Inv, Same
<1>7. /\ remote' \in [Target -> Tree \cup {None}] /\ remote'[t] = request[r].copy
      /\ \A s \in Target : s # t => remote'[s] = remote[s]
    BY <1>1, <1>2 DEF Inv, TypeOK
<1>8. calm' \in BOOLEAN /\ (calm' => calm /\ how = "none")
    <2>1. CASE how = "none"
        BY <2>1 DEF Inv, TypeOK
    <2>2. CASE how = "rejected"
        BY <2>2
    <2>3. QED
        BY <2>1, <2>2
<1> HIDE DEF t
<1>9. TypeOK'
    BY <1>3, <1>4, <1>5, <1>6, <1>7, <1>8 DEF Inv, TypeOK
<1>10. PushOK'
    BY <1>1, <1>3, <1>5, <1>6 DEF Inv, PushOK, Same, Pushing
<1>11. UploadOK'
    BY <1>3, <1>5, <1>6, <1>7 DEF Inv, UploadOK, PushOK, Pushing, Same
<1>12. ASSUME calm'
       PROVE  /\ link.target = t /\ \A q \in Request : q # r => request[q].at = "idle"
              /\ Holds(link.target, request[r].files)' /\ Unrecorded'
    <2>1. link.target = t /\ \A q \in Request : q # r => request[q].at = "idle"
        BY <1>8, <1>12 DEF Inv, CalmOK, Active, Pushing, t
    <2>2. /\ request'[r].at = "record" /\ request'[r].result = "none"
          /\ request'[r].files = request[r].files
        BY <1>3, <1>5, <1>8, <1>12
    <2>3. Holds(link.target, request[r].files)'
        <3>1. link' = link /\ remote'[t] = request[r].copy
            BY <1>7
        <3>2. QED
            BY <1>2, <2>1, <2>2, <3>1 DEF Holds
    <2>4. QED
        BY <2>1, <2>2, <2>3 DEF Unrecorded
<1>13. CalmOK'
    BY <1>1, <1>3, <1>5, <1>6, <1>12 DEF CalmOK, Active, Pushing, Same
<1>14. BaselineOK' /\ RefusalOK'
    BY <1>1, <1>8, <1>12 DEF BaselineOK, RefusalOK
<1>15. QED
    BY <1>9, <1>10, <1>11, <1>13, <1>14 DEF Inv

LEMMA UploadKeeps ==
    ASSUME Inv, NEW r \in Request, Upload(r)
    PROVE  Inv'
<1>1. request[r].at = "upload" /\ UNCHANGED <<conn, link, foreign>>
    BY DEF Upload
<1>2. CASE /\ Accepted(r)
           /\ remote' = [remote EXCEPT ![request[r].target] = request[r].copy]
           /\ request' = [Outdated(request[r].target) EXCEPT ![r] = Outcome(r, "none")]
           /\ UNCHANGED calm
    BY <1>1, <1>2, PublishKeeps DEF Accepted
<1>3. CASE /\ Accepted(r)
           /\ remote' = [remote EXCEPT ![request[r].target] = request[r].copy]
           /\ request' = [Outdated(request[r].target) EXCEPT ![r] = Outcome(r, "rejected")]
           /\ calm' = FALSE
    BY <1>1, <1>3, PublishKeeps DEF Accepted
<1>4. CASE Finishes(r, "rejected") /\ UNCHANGED <<remote, calm>>
    BY <1>1, <1>4, FinishKeeps DEF Pushing
<1>5. QED
    BY <1>2, <1>3, <1>4 DEF Upload

\* A request that ends: SetLink, Record and Interrupt differ in what they leave.
LEMMA EndKeeps ==
    ASSUME Inv, NEW r \in Request, End(r), UNCHANGED <<conn, remote, foreign>>,
           link' \in Link, calm' \in BOOLEAN, calm' => calm,
           calm' => \/ link' = link /\ ~(request[r].at = "record" /\ request[r].result = "none")
                    \/ /\ \A q \in Request : q # r => request[q].at = "idle"
                       /\ link'.error = "diverged" =>
                              /\ link'.target \in Target
                              /\ Excused' \/ link'.target \in Rooted
                       /\ link'.hash # None => /\ link'.target \in Target
                                               /\ Excused' \/ Holds(link.target, link.hash)'
    PROVE  Inv'
<1>1. request'[r] = Idle /\ Only(r) /\ request' \in [Request -> Local]
    BY IdleIs, GoMoves DEF Inv, End
<1>2. TypeOK'
    BY <1>1 DEF Inv, TypeOK
<1>3. PushOK' /\ UploadOK'
    BY <1>1, IdleIs DEF Inv, PushOK, UploadOK, Only, Pushing
<1>4. CASE ~calm'
    BY <1>2, <1>3, <1>4 DEF Inv, CalmOK, BaselineOK, RefusalOK
<1>5. CASE calm' /\ link' = link
           /\ ~(request[r].at = "record" /\ request[r].result = "none")
    <2>1. CalmOK'
        BY <1>1, <1>5, IdleIs DEF Inv, CalmOK, Only, Active, Pushing, Excused, Holds
    <2>2. BaselineOK' /\ RefusalOK'
        BY <1>1, <1>5 DEF Inv, BaselineOK, RefusalOK, Only, Excused, Unrecorded, Holds
    <2>3. QED
        BY <1>2, <1>3, <2>1, <2>2 DEF Inv
<1>6. CASE /\ calm' /\ \A q \in Request : q # r => request[q].at = "idle"
           /\ link'.error = "diverged" =>
                  /\ link'.target \in Target
                  /\ Excused' \/ link'.target \in Rooted
           /\ link'.hash # None => /\ link'.target \in Target
                                   /\ Excused' \/ Holds(link.target, link.hash)'
    <2>1. \A q \in Request : request'[q].at = "idle"
        BY <1>1, <1>6, IdleIs DEF Only
    <2>2. CalmOK'
        BY <2>1 DEF CalmOK, Active, Pushing
    <2>3. BaselineOK' /\ RefusalOK'
        BY <1>6 DEF BaselineOK, RefusalOK
    <2>4. QED
        BY <1>2, <1>3, <2>2, <2>3 DEF Inv
<1>7. QED
    BY <1>4, <1>5, <1>6

LEMMA SetLinkKeeps ==
    ASSUME Inv, NEW r \in Request, SetLink(r)
    PROVE  Inv'
<1>1. /\ request[r].at = "check" /\ End(r) /\ UNCHANGED <<conn, remote, foreign, calm>>
      /\ link' = IF request[r].conn = None THEN link ELSE Linked(request[r].target, request[r].conn)
    BY DEF SetLink
<1>2. request[r].target \in Target /\ request[r].conn \in User \cup {None}
    BY <1>1 DEF Inv, PushOK, TypeOK, Local
<1>3. CASE link' = link
    BY <1>1, <1>3, EndKeeps DEF Inv, TypeOK
<1>4. CASE request[r].conn # None /\ link' = Linked(request[r].target, request[r].conn)
    <2>1. link' \in Link /\ link'.hash = None /\ link'.error = "none"
        BY <1>2, <1>4 DEF Linked, Link
    <2>2. calm => \A q \in Request : q # r => request[q].at = "idle"
        BY <1>1 DEF Inv, CalmOK, Active
    <2>3. QED
        BY <1>1, <2>1, <2>2, EndKeeps DEF Inv, TypeOK
<1>5. QED
    BY <1>1, <1>3, <1>4

LEMMA RecordKeeps ==
    ASSUME Inv, NEW r \in Request, Record(r)
    PROVE  Inv'
<1>1. /\ request[r].at = "record" /\ End(r) /\ UNCHANGED <<conn, remote, foreign, calm>>
      /\ link' = Recorded(request[r].files, request[r].result)
    BY DEF Record
<1>2. /\ link \in Link /\ request[r].files \in Version \cup {None}
      /\ request[r].result \in {"none", "diverged", "rejected", "other"}
    BY DEF Inv, TypeOK, Local
<1>3. /\ link' \in Link /\ link'.target = link.target /\ link'.error = request[r].result
      /\ link'.hash = IF request[r].result = "none" THEN request[r].files ELSE link.hash
    BY <1>1, <1>2 DEF Recorded, Link
<1>4. ASSUME calm
      PROVE  /\ \A q \in Request : q # r => request[q].at = "idle"
             /\ link'.error = "diverged" =>
                    /\ link'.target \in Target
                    /\ Excused' \/ link'.target \in Rooted
             /\ link'.hash # None => /\ link'.target \in Target
                                     /\ Excused' \/ Holds(link.target, link.hash)'
    <2>1. \A q \in Request : q # r => request[q].at = "idle"
        BY <1>1, <1>4 DEF Inv, CalmOK, Active
    <2>2. link.target \in Target
        BY <1>1, <1>4 DEF Inv, CalmOK
    <2>3. CASE request[r].result = "none"
        BY <1>1, <1>3, <1>4, <2>1, <2>2, <2>3 DEF Inv, CalmOK, Excused, Holds
    <2>4. CASE request[r].result # "none"
        BY <1>1, <1>3, <1>4, <2>1, <2>2, <2>4 DEF Inv, CalmOK, BaselineOK, Excused, Holds, Unrecorded
    <2>5. QED
        BY <2>3, <2>4
<1>5. QED
    BY <1>1, <1>3, <1>4, EndKeeps DEF Inv, TypeOK

LEMMA InterruptKeeps ==
    ASSUME Inv, NEW r \in Request, Interrupt(r)
    PROVE  Inv'
<1>1. End(r) /\ UNCHANGED <<conn, link, remote, foreign>>
    BY DEF Interrupt
<1>2. calm' \in BOOLEAN
    BY Zenon DEF Interrupt
<1>3. calm' => calm /\ ~(request[r].at = "record" /\ request[r].result = "none")
    BY Zenon DEF Interrupt
<1>4. QED
    BY <1>1, <1>2, <1>3, EndKeeps DEF Inv, TypeOK

LEMMA NextKeeps == Inv /\ [Next]_vars => Inv'
<1> SUFFICES ASSUME Inv, [Next]_vars PROVE Inv'
    OBVIOUS
<1>1. CASE UNCHANGED vars
    BY <1>1 DEF vars, Inv, TypeOK, PushOK, UploadOK, CalmOK, BaselineOK,
                RefusalOK, Excused, Unrecorded, Holds, Active
<1>2. CASE Next
    BY <1>2, ConnectKeeps, DisconnectKeeps, UnlinkKeeps, UpstreamKeeps, BeginLinkKeeps,
       SetLinkKeeps, BeginPushKeeps, ReadBaselineKeeps, CloneKeeps, UploadKeeps, RecordKeeps,
       InterruptKeeps DEF Next
<1>3. QED
    BY <1>1, <1>2

-------------------------------------------------------------------------------
LEMMA Invariant == Spec => []Inv
    BY Initial, NextKeeps, PTL DEF Spec

\* Every variable of GitHubPush keeps its type.
THEOREM TypeCorrect == Spec => []TypeOK
<1>1. Inv => TypeOK
    BY DEF Inv
<1>2. QED
    BY <1>1, Invariant, PTL

\* github.py:339-386: a push through a link with a baseline replaces exactly what the
\* baseline says is there, whoever else commits, pushes and relinks at whatever time.
THEOREM BaselineSparesEditsThm == Spec => BaselineSparesEdits
<1>1. ASSUME Inv, [Next]_vars, NEW r \in Request, Publishes(r), request[r].last # None
      PROVE  Ours(request[r].last, remote[request[r].target])
    <2>1. request[r].at = "upload" /\ request'[r].at = "record" /\ remote' # remote
        BY <1>1 DEF Publishes
    <2>2. CASE UNCHANGED vars
        BY <2>1, <2>2 DEF vars
    <2>3. CASE \E u \in User : Connect(u) \/ Disconnect(u)
        BY <2>1, <2>3 DEF Connect, Disconnect
    <2>4. CASE Unlink
        BY <2>1, <2>4 DEF Unlink
    <2>5. ASSUME NEW t \in Target, Upstream(t) PROVE FALSE
        BY <1>1, <2>1, <2>5, OutdatedKeeps DEF Upstream, Inv
    <2>6. ASSUME NEW q \in Request, Upload(q)
          PROVE  Ours(request[r].last, remote[request[r].target])
        <3>1. request[q].target \in Target /\ request[q].at = "upload" /\ Accepted(q)
            BY <1>1, <2>1, <2>6 DEF Upload, Inv, PushOK, Pushing
        <3>2. PICK how \in {"none", "rejected"} :
                  request' = [Outdated(request[q].target) EXCEPT ![q] = Outcome(q, how)]
            BY <2>1, <2>6, <3>1 DEF Upload
        <3>3. q # r => request'[r] = Outdated(request[q].target)[r]
            BY <3>2 DEF Outdated
        <3>4. Outdated(request[q].target)[r].at = request[r].at
            BY <1>1, <3>1, OutdatedKeeps DEF Inv
        <3>5. q = r
            BY <2>1, <3>3, <3>4
        <3>6. QED
            BY <1>1, <2>1, <3>1, <3>5 DEF Inv, UploadOK, Accepted
    <2>7. ASSUME NEW q \in Request,
                 \/ \E u \in User, t \in Target : BeginLink(q, u, t)
                 \/ SetLink(q) \/ BeginPush(q) \/ ReadBaseline(q) \/ Clone(q) \/ Record(q)
                 \/ Interrupt(q)
          PROVE  FALSE
        BY <2>1, <2>7 DEF BeginLink, SetLink, BeginPush, ReadBaseline, Clone, Record, Interrupt
    <2>8. QED
        BY <1>1, <2>2, <2>3, <2>4, <2>5, <2>6, <2>7 DEF Next
<1>2. Inv /\ [Next]_vars =>
        [\A r \in Request : Publishes(r) /\ request[r].last # None =>
             Ours(request[r].last, remote[request[r].target])]_vars
    BY <1>1
<1>3. QED
    BY <1>2, Invariant, PTL DEF Spec, BaselineSparesEdits

\* github_store.py:171-192: with requests that do not overlap, the stored baseline is
\* what the linked target holds unless somebody else has written there or its
\* branch is missing.
THEOREM BaselineIsRemoteThm == Spec => []BaselineIsRemote
<1>1. Inv => BaselineIsRemote
    BY DEF Inv, BaselineOK, BaselineIsRemote, Quiet, Active, Excused, Unrecorded
<1>2. QED
    BY <1>1, Invariant, PTL

\* github.py:339-347: a path found to differ from the baseline has changes that the
\* builder did not make, with requests that do not overlap.
THEOREM RefusalIsTruthfulThm == Spec => []RefusalIsTruthful
<1>1. Inv => RefusalIsTruthful
    BY DEF Inv, RefusalOK, RefusalIsTruthful, Quiet, Active, Excused, Unrecorded
<1>2. QED
    BY <1>1, Invariant, PTL
===============================================================================
