--------------------------- MODULE WorkspaceRoster ---------------------------
(***************************************************************************)
(* What the calls on the members of a Workspace promise, each as one step:  *)
(* the roster of members with their roles, and the invites.  A role is      *)
(* given to a member, and taken back from one; a new member comes only by   *)
(* an invite, which is good for the user and the role it names, once.  The  *)
(* last admin stays, except for a change made on a role that was out of     *)
(* date when the change was written (auth_store.py reads it without a       *)
(* lock), and that one the roster remembers.                                *)
(***************************************************************************)
CONSTANTS User, Role, Admin, NotMember, Invite, InviteFor, InviteRole

VARIABLES
    role,       \* the role of each user, NotMember without one
    invite,     \* invites: "none", "pending", "used" or "expired"
    overtaken   \* admin was taken on a role that was out of date

roster == <<role, invite, overtaken>>

Init ==
    /\ role \in [User -> Role \cup {NotMember}]
    /\ \E u \in User : role[u] = Admin
    /\ invite \in [Invite -> {"none", "pending"}]
    /\ overtaken = FALSE

Give(u, r) == role' = [role EXCEPT ![u] = r]
Turn(i, from, to) == invite[i] = from /\ invite' = [invite EXCEPT ![i] = to]

\* A member is given another role or removed; an admin stays one.
Assign(u, r) ==
    /\ role[u] # NotMember /\ (role[u] = Admin => r = Admin)
    /\ Give(u, r) /\ UNCHANGED <<invite, overtaken>>

\* An admin is demoted or removed beside another admin.
Demote(u, r) ==
    /\ role[u] = Admin /\ r # Admin
    /\ \E v \in User \ {u} : role[v] = Admin
    /\ Give(u, r) /\ UNCHANGED <<invite, overtaken>>

\* Somebody is demoted or removed who was no admin when the call looked.
Overtake(u, r) ==
    /\ role[u] = Admin /\ r # Admin
    /\ overtaken' = TRUE
    /\ Give(u, r) /\ UNCHANGED invite

Offer(i) == Turn(i, "none", "pending") /\ UNCHANGED <<role, overtaken>>
Expire(i) == Turn(i, "pending", "expired") /\ UNCHANGED <<role, overtaken>>

\* The invite is consumed with the join; a member keeps the role they have.
Accept(i) ==
    LET u == InviteFor[i] IN
    /\ Turn(i, "pending", "used")
    /\ Give(u, IF role[u] = NotMember THEN InviteRole[i] ELSE role[u])
    /\ UNCHANGED overtaken

Next ==
    \/ \E u \in User, r \in Role \cup {NotMember} : Assign(u, r) \/ Demote(u, r) \/ Overtake(u, r)
    \/ \E i \in Invite : Offer(i) \/ Expire(i) \/ Accept(i)

Spec == Init /\ [][Next]_roster
===============================================================================
