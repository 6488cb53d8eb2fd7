------------------------------- MODULE Accounts -------------------------------
(***************************************************************************)
(* Who a request acts for: signup, password and Google logins create users  *)
(* and login sessions; a console call resolves its session, then the         *)
(* caller's role, then runs.  A request that creates a user or a session     *)
(* names it.  Roles are changed by others meanwhile (Members).               *)
(***************************************************************************)
EXTENDS Naturals

CONSTANTS
    Spelling,       \* addresses as people write them
    Canonical(_),   \* strip and lower
    Role,           \* the roles that are given out
    Caller,         \* requests
    Nobody          \* no user, no session

ASSUME AccountsAssumption ==
    /\ Nobody \notin Caller /\ Spelling # {}
    /\ Role \subseteq {"viewer", "editor", "admin"}
    /\ \A s \in Spelling : Canonical(s) \in Spelling /\ Canonical(Canonical(s)) = Canonical(s)

VARIABLES
    users,      \* the users: email, whether they have a password
    homes,      \* users with a Workspace of their own, of which they are admin
    role,       \* the users' roles in the Workspace the calls name
    login,      \* the login sessions: whose, and whether expired
    caller      \* per request: where it is and what it has read

accVars == <<users, homes, role, login, caller>>

Rank == [viewer |-> 0, editor |-> 1, admin |-> 2]

User == [id : Caller, email : Spelling, password : BOOLEAN]
Named(e) == {u \in users : u.email = e}
IdOf(e) == (CHOOSE u \in Named(e) : TRUE).id

Rest == [at |-> "idle", email |-> CHOOSE s \in Spelling : TRUE, user |-> Nobody]

AccInit ==
    /\ users = {} /\ homes = {} /\ login = {}
    /\ role = [c \in Caller |-> "none"]
    /\ caller = [c \in Caller |-> Rest]

Moves(c, here) == caller' = [caller EXCEPT ![c] = here]
Leaves(c) == Moves(c, [Rest EXCEPT !.at = "done"])
\* The user is known: the login session comes next.
Grants(c, e, u) == Moves(c, [Rest EXCEPT !.at = "grant", !.email = e, !.user = u])

\* One transaction inserts the user, their Workspace and the admin membership.
Inserts(c, e, password) ==
    /\ users' = users \cup {[id |-> c, email |-> e, password |-> password]}
    /\ homes' = homes \cup {c}

-------------------------------------------------------------------------------
(* Signing up and logging in.                                              *)

\* The unique email refuses a second account.
Signup(c, s) ==
    /\ caller[c].at = "idle"
    /\ IF Named(Canonical(s)) = {}
       THEN Inserts(c, Canonical(s), TRUE) /\ Grants(c, Canonical(s), c)
       ELSE Leaves(c) /\ UNCHANGED <<users, homes>>
    /\ UNCHANGED <<role, login>>

\* A Google-only user has no hash: the password is never right.
PasswordLogin(c, s) ==
    /\ caller[c].at = "idle"
    /\ \/ /\ \E u \in Named(Canonical(s)) : u.password
          /\ Grants(c, Canonical(s), IdOf(Canonical(s)))
       \/ Leaves(c)
    /\ UNCHANGED <<users, homes, role, login>>

AsWritten(s) == s

\* google_callback: what the upsert is called with.
GoogleEmail(s) == Canonical(s)

\* upsert_google_user's SELECT; an unverified address ends the callback.
GoogleLookup(c, s) ==
    /\ caller[c].at = "idle"
    /\ \/ LET e == GoogleEmail(s) IN
          IF Named(e) # {} THEN Grants(c, e, IdOf(e))
          ELSE Moves(c, [Rest EXCEPT !.at = "insert", !.email = e])
       \/ Leaves(c)
    /\ UNCHANGED <<users, homes, role, login>>

ConflictUnread(c) == Grants(c, caller[c].email, Nobody)
ConflictKeepsOwn(c) == Grants(c, caller[c].email, c)

\* The conflict of a concurrent first login: read again, link to the winner.
Conflict(c) == Grants(c, caller[c].email, IdOf(caller[c].email))

GoogleInsert(c) ==
    /\ caller[c].at = "insert"
    /\ IF Named(caller[c].email) = {}
       THEN Inserts(c, caller[c].email, FALSE) /\ Grants(c, caller[c].email, c)
       ELSE Conflict(c) /\ UNCHANGED <<users, homes>>
    /\ UNCHANGED <<role, login>>

CreateLoginSession(c) ==
    /\ caller[c].at = "grant"
    /\ login' = login \cup {[token |-> c, user |-> caller[c].user, email |-> caller[c].email]}
    /\ Leaves(c)
    /\ UNCHANGED <<users, homes, role>>

\* Logging out deletes the row; an expired one is as good as deleted.
LogoutOrExpire(l) ==
    /\ login' = login \ {l}
    /\ UNCHANGED <<users, homes, role, caller>>

-------------------------------------------------------------------------------
(* The gate of require_editor, and the handler behind it.                  *)

ResolveSession(c, l) ==
    /\ caller[c].at = "idle"
    /\ Moves(c, [Rest EXCEPT !.at = "member", !.user = l.user])
    /\ UNCHANGED <<users, homes, role, login>>

\* require_role("editor"), by the order of _RANK.
Admits(r) == r \in DOMAIN Rank /\ Rank[r] >= Rank["editor"]

ResolveMembership(c) ==
    /\ caller[c].at = "member"
    /\ IF Admits(role[caller[c].user]) THEN Moves(c, [caller[c] EXCEPT !.at = "handler"])
       ELSE Leaves(c)
    /\ UNCHANGED <<users, homes, role, login>>

Handle(c) ==
    /\ caller[c].at = "handler"
    /\ Leaves(c)
    /\ UNCHANGED <<users, homes, role, login>>

\* An admin adds, re-roles or removes the user.
ChangeRole(u, r) ==
    /\ role' = [role EXCEPT ![u.id] = r]
    /\ UNCHANGED <<users, homes, login, caller>>

Drop(c) ==
    /\ caller[c].at \notin {"idle", "done"}
    /\ Leaves(c)
    /\ UNCHANGED <<users, homes, role, login>>

AccNext ==
    \/ \E c \in Caller :
          \/ \E s \in Spelling : Signup(c, s) \/ PasswordLogin(c, s) \/ GoogleLookup(c, s)
          \/ GoogleInsert(c) \/ CreateLoginSession(c)
          \/ \E l \in login : ResolveSession(c, l)
          \/ ResolveMembership(c) \/ Handle(c) \/ Drop(c)
    \/ \E l \in login : LogoutOrExpire(l)
    \/ \E u \in users, r \in Role \cup {"none"} : ChangeRole(u, r)

AccSpec == AccInit /\ [][AccNext]_accVars

-------------------------------------------------------------------------------
\* Every variable holds what the code could hold.
AccTypeOK ==
    /\ users \subseteq User /\ homes \subseteq Caller
    /\ role \in [Caller -> Role \cup {"none"}]
    /\ login \subseteq [token : Caller, user : Caller, email : Spelling]
    /\ caller \in [Caller -> [at : {"idle", "insert", "grant", "member", "handler", "done"},
                              email : Spelling, user : Caller \cup {Nobody}]]

\* auth_store.py:97-137: one email is one account, however signups and first
\* Google logins race and however the address is spelled; every login session
\* belongs to the account of the email that was proven, which has its Workspace.
OneEmailOneAccount ==
    /\ \A u, v \in users : Canonical(u.email) = Canonical(v.email) => u = v
    /\ \A l \in login : \E u \in users : u.id = l.user /\ u.email = Canonical(l.email)
    /\ \A u \in users : u.id \in homes

\* auth_store.py:156: "a kicked/re-roled member's change takes effect immediately".
\* deps.py reads the role before the handler begins and nothing reads it again: a
\* demotion that comes in between does not stop the handler.
ActsWithinRole ==
    \A c \in Caller : caller[c].at = "handler" => Admits(role[caller[c].user])
===============================================================================
