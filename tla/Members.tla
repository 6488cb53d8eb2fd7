-------------------------------- MODULE Members --------------------------------
(***************************************************************************)
(* The members of one Workspace: who is in it, with which role, and the     *)
(* Postgres transactions that change that.  They run at READ COMMITTED: a   *)
(* plain SELECT sees what is committed and locks nothing, SELECT FOR UPDATE *)
(* takes the rows its snapshot holds one by one and re-reads each once it   *)
(* has it, and a lock is held until the transaction ends.  The statement    *)
(* that writes is one step with the COMMIT that follows it.                 *)
(***************************************************************************)
EXTENDS Naturals

CONSTANTS
    User,       \* users with an account
    Role,       \* roles of a Membership
    Admin,      \* the role that manages the Workspace
    NotMember,  \* no row in memberships
    Invite,     \* invites of the Workspace
    InviteFor,  \* the user each invite's email belongs to
    InviteRole, \* the role each invite grants
    NoInvite,
    Call,       \* requests
    NoCall,     \* a row no transaction holds
    NoUser      \* no user: a call that waits for no row

ASSUME ConstantsAssumption ==
    /\ Admin \in Role
    /\ NotMember \notin Role
    /\ InviteFor \in [Invite -> User]
    /\ InviteRole \in [Invite -> Role]
    /\ NoInvite \notin Invite
    /\ NoCall \notin Call
    /\ NoUser \notin User

VARIABLES
    role,       \* memberships, as committed
    invite,     \* invites: "none", "pending", "used" or "expired"
    call,       \* per call: where it is, what it asks for, its locals (CallState)
    holder,     \* the transaction that holds each membership row
    redeemer,   \* the transaction that holds each invite row
    joined,     \* history: how often each invite made somebody a member
    overtaken   \* history: a call took admin from a user it had read as no admin

vars == <<role, invite, call, holder, redeemer, joined, overtaken>>

-------------------------------------------------------------------------------
Membership == Role \cup {NotMember}

Running == {"read", "guard", "lock", "write", "invite", "redeem", "join"}

\* What a call is about (user, role, invite), the role of its target it read at
\* the start, the admin rows it still has to lock, whether it holds the row of
\* an admin who is not its target, and the row it waits for.
CallState == [at: {"idle", "answered"} \cup Running,
              user: User \cup {NoUser}, role: Membership, invite: Invite \cup {NoInvite},
              seen: Membership, todo: SUBSET User, found: BOOLEAN, want: User \cup {NoUser}]

Idle == [at |-> "idle", user |-> NoUser, role |-> NotMember, invite |-> NoInvite,
         seen |-> NotMember, todo |-> {}, found |-> FALSE, want |-> NoUser]

Admins == {u \in User : role[u] = Admin}
Free(u, t) == holder[u] \in {NoCall, t}

Become(t, state) == call' = [call EXCEPT ![t] = state]
Goto(t, label) == Become(t, [call[t] EXCEPT !.at = label])

\* The request is answered, one way or another, and its locals are gone.
Answer(t) == Become(t, [Idle EXCEPT !.at = "answered"])

\* COMMIT or ROLLBACK: every lock of the transaction goes.
KeepLocks(t) == UNCHANGED <<holder, redeemer>>
Release(t) ==
    /\ holder' = [u \in User |-> IF holder[u] = t THEN NoCall ELSE holder[u]]
    /\ redeemer' = [i \in Invite |-> IF redeemer[i] = t THEN NoCall ELSE redeemer[i]]

\* Any Workspace that earlier calls left with an admin.
Init ==
    /\ role \in [User -> Membership]
    /\ Admins # {}
    /\ invite \in [Invite -> {"none", "pending"}]
    /\ call = [t \in Call |-> Idle]
    /\ holder = [u \in User |-> NoCall]
    /\ redeemer = [i \in Invite |-> NoCall]
    /\ joined = [i \in Invite |-> 0]
    /\ overtaken = FALSE

-------------------------------------------------------------------------------
(* Requests.  require_admin reads the caller's role before the handler     *)
(* runs and never again; a call it refuses changes nothing.                *)

Begin(t, state) ==
    /\ call[t].at = "idle"
    /\ Become(t, state)
    /\ UNCHANGED <<role, invite, holder, redeemer, joined, overtaken>>

\* PUT /members/{user_id}, or DELETE when r is NotMember.
BeginSet(t, u, r) ==
    Admins # {} /\ Begin(t, [Idle EXCEPT !.at = "read", !.user = u, !.role = r])

\* The token of an invite is fresh.
BeginInvite(t, i) ==
    /\ invite[i] = "none" /\ Admins # {}
    /\ Begin(t, [Idle EXCEPT !.at = "invite", !.invite = i])

\* POST /invites/accept needs a login, no role.
BeginAccept(t, u, i) == Begin(t, [Idle EXCEPT !.at = "redeem", !.user = u, !.invite = i])

-------------------------------------------------------------------------------
(* change_member_role and remove_member                                    *)

\* The target's role, read without a lock, decides what is checked.
Guarded(t, current) == current = Admin /\ call[t].role # Admin

ReadRole(t) ==
    LET current == role[call[t].user] IN
    /\ call[t].at = "read"
    /\ \/ /\ current = NotMember
          /\ Answer(t)
       \/ /\ current # NotMember
          /\ Become(t, [call[t] EXCEPT !.at = IF Guarded(t, current) THEN "guard" ELSE "write",
                                       !.seen = current])
    /\ UNCHANGED <<role, invite, holder, redeemer, joined, overtaken>>

\* _other_admins_exist: the snapshot of its SELECT ... FOR UPDATE.
SnapshotAdmins(t) ==
    /\ call[t].at = "guard"
    /\ Become(t, [call[t] EXCEPT !.at = "lock", !.todo = Admins])
    /\ UNCHANGED <<role, invite, holder, redeemer, joined, overtaken>>

HoldNone(t, u) == holder
Hold(t, u) == [holder EXCEPT ![u] = t]

\* A row once locked is re-read: it counts if it is still an admin's.
LockAdmin(t, u) ==
    /\ call[t].at = "lock" /\ u \in call[t].todo
    /\ call[t].want \in {NoUser, u} /\ Free(u, t)
    /\ holder' = Hold(t, u)
    /\ Become(t, [call[t] EXCEPT !.todo = @ \ {u}, !.want = NoUser,
                                 !.found = @ \/ (role[u] = Admin /\ u # call[t].user)])
    /\ UNCHANGED <<role, invite, redeemer, joined, overtaken>>

\* LastAdmin is raised inside the transaction and rolls it back.
DecideLastAdmin(t) ==
    /\ call[t].at = "lock" /\ call[t].todo = {}
    /\ \/ /\ call[t].found
          /\ Goto(t, "write")
          /\ UNCHANGED <<holder, redeemer>>
       \/ /\ ~call[t].found
          /\ Answer(t)
          /\ Release(t)
    /\ UNCHANGED <<role, invite, joined, overtaken>>

\* FOR UPDATE and the write both wait for a row another transaction holds.
WaitFor(t, u) ==
    /\ call[t].want = NoUser /\ ~Free(u, t)
    /\ \/ call[t].at = "lock" /\ u \in call[t].todo
       \/ call[t].at = "write" /\ u = call[t].user
    /\ Become(t, [call[t] EXCEPT !.want = u])
    /\ UNCHANGED <<role, invite, holder, redeemer, joined, overtaken>>

\* A deleted row leaves the snapshots that hold it, and nobody waits for it.
Forgotten(state, u) ==
    [state EXCEPT !.todo = @ \ {u}, !.want = IF @ = u THEN NoUser ELSE @]

\* UPDATE or DELETE of the target's row, whatever became of it meanwhile.
WriteRole(t) ==
    LET u == call[t].user IN
    /\ call[t].at = "write" /\ Free(u, t)
    /\ role' = [role EXCEPT ![u] = IF @ = NotMember THEN @ ELSE call[t].role]
    /\ overtaken' = (overtaken \/ (role[u] = Admin /\ call[t].role # Admin
                                   /\ call[t].seen # Admin))
    /\ call' = [c \in Call |-> IF c = t THEN [Idle EXCEPT !.at = "answered"]
                               ELSE IF call[t].role = NotMember THEN Forgotten(call[c], u)
                               ELSE call[c]]
    /\ Release(t)
    /\ UNCHANGED <<invite, joined>>

-------------------------------------------------------------------------------
(* create_invite and accept_invite                                         *)

CreateInvite(t) ==
    /\ call[t].at = "invite"
    /\ invite' = [invite EXCEPT ![call[t].invite] = IF @ = "none" THEN "pending" ELSE @]
    /\ Answer(t)
    /\ UNCHANGED <<role, holder, redeemer, joined, overtaken>>

RedeemableIfUsed(i) == invite[i] \in {"pending", "used"}
Redeemable(i) == invite[i] = "pending"

\* The invite row is locked, then read: a second accept waits here for the
\* first and no longer finds it pending.
RedeemInvite(t) ==
    LET i == call[t].invite IN
    /\ call[t].at = "redeem" /\ redeemer[i] = NoCall
    /\ \/ /\ Redeemable(i) /\ InviteFor[i] = call[t].user
          /\ redeemer' = [redeemer EXCEPT ![i] = t]
          /\ Goto(t, "join")
       \/ /\ ~Redeemable(i) \/ InviteFor[i] # call[t].user
          /\ Answer(t)
          /\ UNCHANGED redeemer
    /\ UNCHANGED <<role, invite, holder, joined, overtaken>>

\* ON CONFLICT DO NOTHING: a member keeps the role they have.
RoleOnJoinNull(t) == IF role[call[t].user] = NotMember THEN InviteRole[call[t].invite]
                     ELSE NoUser
RoleOnJoinUpdated(t) == InviteRole[call[t].invite]
RoleOnJoin(t) == IF role[call[t].user] = NotMember THEN InviteRole[call[t].invite]
                 ELSE role[call[t].user]

JoinWorkspace(t) ==
    LET i == call[t].invite
        u == call[t].user IN
    /\ call[t].at = "join"
    /\ role' = [role EXCEPT ![u] = RoleOnJoin(t)]
    /\ joined' = [joined EXCEPT ![i] = IF role[u] = NotMember THEN @ + 1 ELSE @]
    /\ invite' = [invite EXCEPT ![i] = "used"]
    /\ Answer(t)
    /\ Release(t)
    /\ UNCHANGED overtaken

-------------------------------------------------------------------------------
(* Postgres and time                                                       *)

Rollback(t) ==
    /\ call[t].at \in Running
    /\ Answer(t)
    /\ Release(t)
    /\ UNCHANGED <<role, invite, joined, overtaken>>

\* t waits, through others or not, for itself.
Deadlocked(t) ==
    \E C \in SUBSET Call :
        /\ t \in C
        /\ \A c \in C : call[c].want # NoUser
        /\ C = {holder[call[c].want] : c \in C}

\* Postgres finds every deadlock and aborts a transaction in it.
AbortDeadlock(t) == Deadlocked(t) /\ Rollback(t)

\* A connection breaks, or the process dies.
LoseConnection(t) == Rollback(t)

\* expires_at passes, which an accept that got past its check does not notice.
ExpireInvite(i) ==
    /\ invite[i] = "pending" /\ redeemer[i] = NoCall
    /\ invite' = [invite EXCEPT ![i] = "expired"]
    /\ UNCHANGED <<role, call, holder, redeemer, joined, overtaken>>

-------------------------------------------------------------------------------
Step(t) ==
    \/ ReadRole(t) \/ SnapshotAdmins(t) \/ DecideLastAdmin(t) \/ WriteRole(t)
    \/ \E u \in User : LockAdmin(t, u) \/ WaitFor(t, u)
    \/ CreateInvite(t) \/ RedeemInvite(t) \/ JoinWorkspace(t)
    \/ AbortDeadlock(t)

Next ==
    \/ \E t \in Call, u \in User, r \in Membership : BeginSet(t, u, r)
    \/ \E t \in Call, i \in Invite : BeginInvite(t, i)
    \/ \E t \in Call, u \in User, i \in Invite : BeginAccept(t, u, i)
    \/ \E t \in Call : Step(t) \/ LoseConnection(t)
    \/ \E i \in Invite : ExpireInvite(i)

Spec == Init /\ [][Next]_vars

\* Postgres runs every statement that is not waiting, grants a lock that stays
\* free, and breaks deadlocks.
FairSpec == Spec /\ \A t \in Call : WF_vars(Step(t))

-------------------------------------------------------------------------------
(* What the members of a Workspace can rely on.                            *)

TypeOK ==
    /\ role \in [User -> Membership]
    /\ invite \in [Invite -> {"none", "pending", "used", "expired"}]
    /\ call \in [Call -> CallState]
    /\ holder \in [User -> Call \cup {NoCall}]
    /\ redeemer \in [Invite -> Call \cup {NoCall}]
    /\ joined \in [Invite -> Nat]
    /\ overtaken \in BOOLEAN

\* However demotions, removals, promotions, accepts and aborts overlap, the
\* Workspace keeps an admin, unless a call took admin from a user whom it had
\* read, before it held any lock, as no admin.
AdminRemains == ~overtaken => Admins # {}

\* An invite makes one user a member once: a removed member does not come back
\* on an invite already used, though two accepts of it overlap.
InviteJoinsOnce == \A i \in Invite : joined[i] <= 1

\* An accept never changes the role of a member, whatever it races with: only
\* the write of a change or removal of that very member does.
InviteKeepsRole ==
    [][\A u \in User : role[u] # NotMember /\ role'[u] # role[u] =>
         \E t \in Call : call[t].at = "write" /\ call[t].user = u
                         /\ call'[t].at = "answered"]_vars

\* Whatever transactions overlap or break, what the members see is what one call
\* at a time would do: an invite is consumed in the step that makes its user a
\* member with its role, a role changes only in a member's own change or
\* removal, and admin is taken beside another admin or from a user whose role
\* was read before it became admin.
Roster == INSTANCE WorkspaceRoster
RefinesRoster == Roster!Spec

\* No call on the members hangs: locks are released by every way a
\* transaction ends, and a deadlock is broken.
EveryCallEnds == \A t \in Call : call[t].at \in Running ~> call[t].at = "answered"

\* auth_store.py, _other_admins_exist: "used to block the change that would
\* leave a Workspace with no admin (an unmanageable lockout)".
NeverWithoutAdmin == Admins # {}
===============================================================================
