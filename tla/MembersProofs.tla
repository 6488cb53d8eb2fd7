---------------------------- MODULE MembersProofs ----------------------------
(***************************************************************************)
(* Theorems about Members, for every set of users, invites and calls.       *)
(***************************************************************************)
EXTENDS Members, TLAPS

\* A call knows whom and which invite it is about.
TargetOK ==
    \A t \in Call :
        /\ call[t].at \in {"read", "guard", "lock", "write", "redeem", "join"} =>
               call[t].user \in User
        /\ call[t].at \in {"invite", "redeem", "join"} => call[t].invite \in Invite

\* A call that found another admin holds that admin's row, and a locked row
\* keeps its role.
Witness(t) ==
    \E u \in User : u # call[t].user /\ holder[u] = t /\ role[u] = Admin

WitnessOK ==
    \A t \in Call : call[t].found => call[t].at \in {"lock", "write"} /\ Witness(t)

\* A call about to take admin from an admin it saw has found another.
GuardOK ==
    \A t \in Call :
        call[t].at = "write" /\ call[t].seen = Admin /\ call[t].role # Admin => call[t].found

\* A call about to join holds its invite, which is pending and joined nobody.
RedeemOK ==
    /\ \A t \in Call : call[t].at = "join" =>
           redeemer[call[t].invite] = t /\ invite[call[t].invite] = "pending"
    /\ \A i \in Invite : invite[i] \in {"none", "pending"} => joined[i] = 0

Inv == TypeOK /\ TargetOK /\ WitnessOK /\ GuardOK /\ RedeemOK /\ AdminRemains /\ InviteJoinsOnce

-------------------------------------------------------------------------------
LEMMA IdleIsState == Idle \in CallState
    BY ConstantsAssumption DEF Idle, CallState, Membership

LEMMA AnsweredIsState == [Idle EXCEPT !.at = "answered"] \in CallState
    BY ConstantsAssumption DEF Idle, CallState, Membership

\* What a call loses when a row is deleted under it, and what it keeps.
LEMMA ForgottenKeeps ==
    ASSUME NEW state \in CallState, NEW u \in User
    PROVE  /\ Forgotten(state, u) \in CallState
           /\ Forgotten(state, u).at = state.at
           /\ Forgotten(state, u).user = state.user
           /\ Forgotten(state, u).role = state.role
           /\ Forgotten(state, u).invite = state.invite
           /\ Forgotten(state, u).seen = state.seen
           /\ Forgotten(state, u).found = state.found
    BY DEF Forgotten, CallState

LEMMA BecomeMoves ==
    ASSUME TypeOK, NEW t \in Call, NEW state, Become(t, state)
    PROVE  /\ call'[t] = state
           /\ \A c \in Call : c # t => call'[c] = call[c]
           /\ state \in CallState => call' \in [Call -> CallState]
    BY DEF TypeOK, Become

LEMMA AnswerMoves ==
    ASSUME TypeOK, NEW t \in Call, Answer(t)
    PROVE  /\ call'[t] = [Idle EXCEPT !.at = "answered"]
           /\ \A c \in Call : c # t => call'[c] = call[c]
           /\ call' \in [Call -> CallState]
    BY BecomeMoves, AnsweredIsState DEF Answer

LEMMA ReleaseFrees ==
    ASSUME TypeOK, NEW t \in Call, Release(t)
    PROVE  /\ holder' \in [User -> Call \cup {NoCall}]
           /\ redeemer' \in [Invite -> Call \cup {NoCall}]
           /\ \A u \in User : holder[u] # t => holder'[u] = holder[u]
           /\ \A i \in Invite : redeemer[i] # t => redeemer'[i] = redeemer[i]
    BY DEF TypeOK, Release

\* A write answers its call, and takes from the others only what they had of
\* a row it deleted.
LEMMA WriteMoves ==
    ASSUME TypeOK, TargetOK, NEW t \in Call, WriteRole(t)
    PROVE  /\ call' \in [Call -> CallState]
           /\ call'[t] = [Idle EXCEPT !.at = "answered"]
           /\ \A c \in Call : c # t =>
                /\ call'[c].at = call[c].at /\ call'[c].user = call[c].user
                /\ call'[c].role = call[c].role /\ call'[c].invite = call[c].invite
                /\ call'[c].seen = call[c].seen /\ call'[c].found = call[c].found
<1>1. call[t].user \in User
    BY DEF WriteRole, TargetOK
<1>2. call'[t] = [Idle EXCEPT !.at = "answered"]
    BY DEF WriteRole
<1>3. ASSUME NEW c \in Call, c # t
      PROVE  call'[c] \in {call[c], Forgotten(call[c], call[t].user)}
    BY <1>3 DEF WriteRole
<1>4. \A c \in Call : call[c] \in CallState
    BY DEF TypeOK
<1>5. \A c \in Call : call'[c] \in CallState
    BY <1>1, <1>2, <1>3, <1>4, ForgottenKeeps, AnsweredIsState
<1>6. call' = [c \in Call |-> call'[c]]
    BY DEF WriteRole
<1>7. QED
    BY <1>1, <1>2, <1>3, <1>4, <1>5, <1>6, ForgottenKeeps

\* A call that neither locks nor writes keeps what the calls found, and one
\* that neither redeems nor joins keeps what they hold of invites.
LEMMA WitnessFrame ==
    ASSUME NEW t \in Call, WitnessOK, role' = role, holder' = holder,
           \A c \in Call : c # t => call'[c] = call[c],
           call'[t].found => /\ call[t].found /\ call'[t].at \in {"lock", "write"}
                             /\ call'[t].user = call[t].user
    PROVE  WitnessOK'
<1>1. ASSUME NEW c \in Call, call'[c].found
      PROVE  call'[c].at \in {"lock", "write"} /\ Witness(c)'
    <2>1. call[c].found /\ call'[c].user = call[c].user /\ call'[c].at \in {"lock", "write"}
        <3>1. CASE c = t
            BY <1>1, <3>1
        <3>2. CASE c # t
            BY <1>1, <3>2 DEF WitnessOK
        <3>3. QED
            BY <3>1, <3>2
    <2>2. Witness(c)
        BY <2>1 DEF WitnessOK
    <2>3. QED
        BY <2>1, <2>2 DEF Witness
<1>2. QED
    BY <1>1 DEF WitnessOK

LEMMA RedeemFrame ==
    ASSUME NEW t \in Call, RedeemOK, InviteJoinsOnce, UNCHANGED <<invite, joined, redeemer>>,
           \A c \in Call : c # t => call'[c] = call[c],
           call'[t].at = "join" => call[t].at = "join" /\ call'[t].invite = call[t].invite
    PROVE  RedeemOK' /\ InviteJoinsOnce'
    BY DEF RedeemOK, InviteJoinsOnce

LEMMA TypeStep ==
    ASSUME TypeOK, TargetOK, [Next]_vars
    PROVE  TypeOK'
<1> USE ConstantsAssumption DEF TypeOK
<1>1. ASSUME NEW t \in Call, NEW u \in User, NEW r \in Membership, BeginSet(t, u, r)
      PROVE  TypeOK'
    <2>1. [Idle EXCEPT !.at = "read", !.user = u, !.role = r] \in CallState
        BY <1>1 DEF Idle, CallState, Membership, Running
    <2>2. QED
        BY <1>1, <2>1, BecomeMoves DEF BeginSet, Begin, Become
<1>2. ASSUME NEW t \in Call, NEW i \in Invite, BeginInvite(t, i)
      PROVE  TypeOK'
    <2>1. [Idle EXCEPT !.at = "invite", !.invite = i] \in CallState
        BY <1>2 DEF Idle, CallState, Membership, Running
    <2>2. QED
        BY <1>2, <2>1, BecomeMoves DEF BeginInvite, Begin, Become
<1>3. ASSUME NEW t \in Call, NEW u \in User, NEW i \in Invite, BeginAccept(t, u, i)
      PROVE  TypeOK'
    <2>1. [Idle EXCEPT !.at = "redeem", !.user = u, !.invite = i] \in CallState
        BY <1>3 DEF Idle, CallState, Membership, Running
    <2>2. QED
        BY <1>3, <2>1, BecomeMoves DEF BeginAccept, Begin, Become
<1>4. ASSUME NEW t \in Call, ReadRole(t)
      PROVE  TypeOK'
    <2> DEFINE current == role[call[t].user]
                state == [call[t] EXCEPT !.at = IF Guarded(t, current) THEN "guard" ELSE "write",
                                         !.seen = current]
    <2>1. call[t].user \in User /\ call[t] \in CallState
        BY <1>4 DEF ReadRole, TargetOK
    <2>2. current \in Membership
        BY <2>1
    <2>3. state \in CallState
        BY <2>1, <2>2 DEF CallState, Running
    <2>4. call' \in [Call -> CallState]
        BY <1>4, <2>3, BecomeMoves, AnswerMoves DEF ReadRole
    <2>5. QED
        BY <1>4, <2>4 DEF ReadRole
<1>5. ASSUME NEW t \in Call, SnapshotAdmins(t)
      PROVE  TypeOK'
    <2>1. call[t] \in CallState /\ Admins \in SUBSET User
        BY DEF Admins
    <2>2. [call[t] EXCEPT !.at = "lock", !.todo = Admins] \in CallState
        BY <2>1 DEF CallState, Running
    <2>3. QED
        BY <1>5, <2>2, BecomeMoves DEF SnapshotAdmins
<1>6. ASSUME NEW t \in Call, NEW u \in User, LockAdmin(t, u)
      PROVE  TypeOK'
    <2> DEFINE state == [call[t] EXCEPT !.todo = @ \ {u}, !.want = NoUser,
                                         !.found = @ \/ (role[u] = Admin /\ u # call[t].user)]
    <2>1. call[t] \in CallState /\ call[t].todo \ {u} \in SUBSET User
        BY DEF CallState
    <2>2. state.found \in BOOLEAN
        BY <2>1 DEF CallState
    <2>3. state \in CallState
        BY <2>1, <2>2 DEF CallState
    <2>4. QED
        BY <1>6, <2>3, BecomeMoves DEF LockAdmin, Hold
<1>7. ASSUME NEW t \in Call, DecideLastAdmin(t)
      PROVE  TypeOK'
    <2>1. [call[t] EXCEPT !.at = "write"] \in CallState
        BY DEF CallState, Running
    <2>2. call' \in [Call -> CallState]
        BY <1>7, <2>1, BecomeMoves, AnswerMoves DEF DecideLastAdmin, Goto
    <2>3. /\ holder' \in [User -> Call \cup {NoCall}]
          /\ redeemer' \in [Invite -> Call \cup {NoCall}]
        BY <1>7, ReleaseFrees DEF DecideLastAdmin
    <2>4. QED
        BY <1>7, <2>2, <2>3 DEF DecideLastAdmin
<1>8. ASSUME NEW t \in Call, NEW u \in User, WaitFor(t, u)
      PROVE  TypeOK'
    <2>1. [call[t] EXCEPT !.want = u] \in CallState
        BY SMTT(20) DEF CallState
    <2>2. QED
        BY <1>8, <2>1, BecomeMoves DEF WaitFor
<1>9. ASSUME NEW t \in Call, WriteRole(t)
      PROVE  TypeOK'
    <2>1. call[t].user \in User /\ call[t].role \in Membership
        BY <1>9 DEF WriteRole, TargetOK, CallState
    <2>2. call' \in [Call -> CallState]
        BY <1>9, WriteMoves
    <2>3. role' \in [User -> Membership]
        BY <1>9, <2>1 DEF WriteRole
    <2>4. overtaken' \in BOOLEAN
        BY <1>9 DEF WriteRole
    <2>5. QED
        BY <1>9, <2>2, <2>3, <2>4, ReleaseFrees DEF WriteRole
<1>10. ASSUME NEW t \in Call, CreateInvite(t)
      PROVE  TypeOK'
    BY <1>10, AnswerMoves DEF CreateInvite
<1>11. ASSUME NEW t \in Call, RedeemInvite(t)
      PROVE  TypeOK'
    <2>1. [call[t] EXCEPT !.at = "join"] \in CallState
        BY DEF CallState, Running
    <2>2. call' \in [Call -> CallState]
        BY <1>11, <2>1, BecomeMoves, AnswerMoves DEF RedeemInvite, Goto
    <2>3. redeemer' \in [Invite -> Call \cup {NoCall}]
        BY <1>11 DEF RedeemInvite
    <2>4. QED
        BY <1>11, <2>2, <2>3 DEF RedeemInvite
<1>12. ASSUME NEW t \in Call, JoinWorkspace(t)
      PROVE  TypeOK'
    <2>1. call[t].user \in User /\ call[t].invite \in Invite
        BY <1>12 DEF JoinWorkspace, TargetOK
    <2>2. RoleOnJoin(t) \in Membership
        BY <2>1 DEF RoleOnJoin, Membership
    <2>3. /\ role' \in [User -> Membership]
          /\ joined' \in [Invite -> Nat]
          /\ invite' \in [Invite -> {"none", "pending", "used", "expired"}]
        BY <1>12, <2>1, <2>2 DEF JoinWorkspace
    <2>4. QED
        BY <1>12, <2>3, AnswerMoves, ReleaseFrees DEF JoinWorkspace
<1>13. ASSUME NEW t \in Call, Rollback(t)
      PROVE  TypeOK'
    BY <1>13, AnswerMoves, ReleaseFrees DEF Rollback
<1>14. ASSUME NEW i \in Invite, ExpireInvite(i)
      PROVE  TypeOK'
    BY <1>14 DEF ExpireInvite
<1>15. CASE UNCHANGED vars
    BY <1>15 DEF vars
<1>16. QED
    BY <1>1, <1>2, <1>3, <1>4, <1>5, <1>6, <1>7, <1>8, <1>9, <1>10, <1>11, <1>12, <1>13, <1>14, <1>15
    DEF Next, Step, AbortDeadlock, LoseConnection

\* Each part of the invariant, preserved action by action.
LEMMA TargetStep ==
    ASSUME TypeOK, TargetOK, [Next]_vars
    PROVE  TargetOK'
<1> USE DEF TargetOK
<1>1. ASSUME NEW t \in Call, NEW u \in User, NEW r \in Membership, BeginSet(t, u, r)
      PROVE  TargetOK'
    <2>1. /\ call'[t] = [Idle EXCEPT !.at = "read", !.user = u, !.role = r]
          /\ \A c \in Call : c # t => call'[c] = call[c]
        BY <1>1, BecomeMoves DEF BeginSet, Begin
    <2>2. /\ call'[t].at = "read"
          /\ call'[t].user = u
          /\ call'[t].role = r
          /\ call'[t].invite = NoInvite
          /\ call'[t].seen = NotMember
          /\ call'[t].found = FALSE
        BY <2>1 DEF Idle, TypeOK, CallState
    <2>3. QED
        BY <1>1, <2>1, <2>2 DEF BeginSet, Begin
<1>2. ASSUME NEW t \in Call, NEW i \in Invite, BeginInvite(t, i)
      PROVE  TargetOK'
    <2>1. /\ call'[t] = [Idle EXCEPT !.at = "invite", !.invite = i]
          /\ \A c \in Call : c # t => call'[c] = call[c]
        BY <1>2, BecomeMoves DEF BeginInvite, Begin
    <2>2. /\ call'[t].at = "invite"
          /\ call'[t].user = NoUser
          /\ call'[t].role = NotMember
          /\ call'[t].invite = i
          /\ call'[t].seen = NotMember
          /\ call'[t].found = FALSE
        BY <2>1 DEF Idle, TypeOK, CallState
    <2>3. QED
        BY <1>2, <2>1, <2>2 DEF BeginInvite, Begin
<1>3. ASSUME NEW t \in Call, NEW u \in User, NEW i \in Invite, BeginAccept(t, u, i)
      PROVE  TargetOK'
    <2>1. /\ call'[t] = [Idle EXCEPT !.at = "redeem", !.user = u, !.invite = i]
          /\ \A c \in Call : c # t => call'[c] = call[c]
        BY <1>3, BecomeMoves DEF BeginAccept, Begin
    <2>2. /\ call'[t].at = "redeem"
          /\ call'[t].user = u
          /\ call'[t].role = NotMember
          /\ call'[t].invite = i
          /\ call'[t].seen = NotMember
          /\ call'[t].found = FALSE
        BY <2>1 DEF Idle, TypeOK, CallState
    <2>3. QED
        BY <1>3, <2>1, <2>2 DEF BeginAccept, Begin
<1>4. ASSUME NEW t \in Call, ReadRole(t)
      PROVE  TargetOK'
    <2> DEFINE current == role[call[t].user]
                state == [call[t] EXCEPT !.at = IF Guarded(t, current) THEN "guard" ELSE "write",
                                         !.seen = current]
    <2>1. CASE current = NotMember
        BY <1>4, <2>1, AnswerMoves DEF ReadRole, Idle, TypeOK, CallState
    <2>2. CASE current # NotMember
        <3>1. /\ call'[t] = state
              /\ \A c \in Call : c # t => call'[c] = call[c]
            BY <1>4, <2>2, BecomeMoves DEF ReadRole
        <3>2. /\ call'[t].at = (IF Guarded(t, current) THEN "guard" ELSE "write")
              /\ call'[t].user = call[t].user
              /\ call'[t].role = call[t].role
              /\ call'[t].invite = call[t].invite
              /\ call'[t].seen = current
              /\ call'[t].found = call[t].found
            BY <3>1 DEF TypeOK, CallState
        <3>3. QED
            BY <1>4, <3>1, <3>2 DEF ReadRole, Guarded
    <2>3. QED
        BY <2>1, <2>2
<1>5. ASSUME NEW t \in Call, SnapshotAdmins(t)
      PROVE  TargetOK'
    <2>1. /\ call'[t] = [call[t] EXCEPT !.at = "lock", !.todo = Admins]
          /\ \A c \in Call : c # t => call'[c] = call[c]
        BY <1>5, BecomeMoves DEF SnapshotAdmins
    <2>2. /\ call'[t].at = "lock"
          /\ call'[t].user = call[t].user
          /\ call'[t].role = call[t].role
          /\ call'[t].invite = call[t].invite
          /\ call'[t].seen = call[t].seen
          /\ call'[t].found = call[t].found
        BY <2>1 DEF Idle, TypeOK, CallState
    <2>3. QED
        BY <1>5, <2>1, <2>2 DEF SnapshotAdmins
<1>6. ASSUME NEW t \in Call, NEW u \in User, LockAdmin(t, u)
      PROVE  TargetOK'
    <2>1. /\ call'[t] = [call[t] EXCEPT !.todo = @ \ {u}, !.want = NoUser,
                                     !.found = @ \/ (role[u] = Admin /\ u # call[t].user)]
          /\ \A c \in Call : c # t => call'[c] = call[c]
        BY <1>6, BecomeMoves DEF LockAdmin
    <2>2. /\ call'[t].at = call[t].at
          /\ call'[t].user = call[t].user
          /\ call'[t].role = call[t].role
          /\ call'[t].invite = call[t].invite
          /\ call'[t].seen = call[t].seen
          /\ call'[t].found = (call[t].found \/ (role[u] = Admin /\ u # call[t].user))
        BY <2>1 DEF Idle, TypeOK, CallState
    <2>3. QED
        BY <1>6, <2>1, <2>2 DEF LockAdmin
<1>7. ASSUME NEW t \in Call, DecideLastAdmin(t)
      PROVE  TargetOK'
    <2>1. CASE call[t].found
        <3>1. /\ call'[t] = [call[t] EXCEPT !.at = "write"]
              /\ \A c \in Call : c # t => call'[c] = call[c]
            BY <1>7, <2>1, BecomeMoves DEF DecideLastAdmin, Goto
        <3>2. /\ call'[t].at = "write"
              /\ call'[t].user = call[t].user
              /\ call'[t].role = call[t].role
              /\ call'[t].invite = call[t].invite
              /\ call'[t].seen = call[t].seen
              /\ call'[t].found = call[t].found
            BY <3>1 DEF TypeOK, CallState
        <3>3. QED
            BY <1>7, <2>1, <3>1, <3>2 DEF DecideLastAdmin
    <2>2. CASE ~call[t].found
        BY <1>7, <2>2, AnswerMoves DEF DecideLastAdmin, Idle, TypeOK, CallState
    <2>3. QED
        BY <2>1, <2>2
<1>8. ASSUME NEW t \in Call, NEW u \in User, WaitFor(t, u)
      PROVE  TargetOK'
    <2>1. /\ call'[t] = [call[t] EXCEPT !.want = u]
          /\ \A c \in Call : c # t => call'[c] = call[c]
        BY <1>8, BecomeMoves DEF WaitFor
    <2>2. /\ call'[t].at = call[t].at
          /\ call'[t].user = call[t].user
          /\ call'[t].role = call[t].role
          /\ call'[t].invite = call[t].invite
          /\ call'[t].seen = call[t].seen
          /\ call'[t].found = call[t].found
        BY <2>1 DEF Idle, TypeOK, CallState
    <2>3. QED
        BY <1>8, <2>1, <2>2 DEF WaitFor
<1>9. ASSUME NEW t \in Call, WriteRole(t)
      PROVE  TargetOK'
    <2>1. call'[t].at = "answered" /\ ~call'[t].found
        BY <1>9, WriteMoves DEF Idle
    <2>2. QED
        BY <1>9, <2>1, WriteMoves
<1>10. ASSUME NEW t \in Call, CreateInvite(t)
      PROVE  TargetOK'
    <2>1. call'[t].at = "answered" /\ ~call'[t].found
        BY <1>10, AnswerMoves DEF CreateInvite, Idle
    <2>2. QED
        BY <1>10, <2>1, AnswerMoves DEF CreateInvite
<1>11. ASSUME NEW t \in Call, RedeemInvite(t)
      PROVE  TargetOK'
    <2>1. CASE Redeemable(call[t].invite) /\ InviteFor[call[t].invite] = call[t].user
        <3>1. /\ call'[t] = [call[t] EXCEPT !.at = "join"]
              /\ \A c \in Call : c # t => call'[c] = call[c]
            BY <1>11, <2>1, BecomeMoves DEF RedeemInvite, Goto
        <3>2. /\ call'[t].at = "join"
              /\ call'[t].user = call[t].user
              /\ call'[t].role = call[t].role
              /\ call'[t].invite = call[t].invite
              /\ call'[t].seen = call[t].seen
              /\ call'[t].found = call[t].found
            BY <3>1 DEF TypeOK, CallState
        <3>3. QED
            BY <1>11, <2>1, <3>1, <3>2 DEF RedeemInvite
    <2>2. CASE ~(Redeemable(call[t].invite) /\ InviteFor[call[t].invite] = call[t].user)
        BY SMTT(20), <1>11, <2>2, AnswerMoves DEF RedeemInvite, Idle, TypeOK, CallState
    <2>3. QED
        BY <2>1, <2>2
<1>12. ASSUME NEW t \in Call, JoinWorkspace(t)
      PROVE  TargetOK'
    <2>1. call'[t].at = "answered" /\ ~call'[t].found
        BY <1>12, AnswerMoves DEF JoinWorkspace, Idle
    <2>2. QED
        BY <1>12, <2>1, AnswerMoves DEF JoinWorkspace
<1>13. ASSUME NEW t \in Call, Rollback(t)
      PROVE  TargetOK'
    <2>1. call'[t].at = "answered" /\ ~call'[t].found
        BY <1>13, AnswerMoves DEF Rollback, Idle
    <2>2. QED
        BY <1>13, <2>1, AnswerMoves DEF Rollback
<1>14. ASSUME NEW i \in Invite, ExpireInvite(i)
      PROVE  TargetOK'
    BY <1>14 DEF ExpireInvite
<1>15. CASE UNCHANGED vars
    BY <1>15 DEF vars
<1>16. QED
    BY <1>1, <1>2, <1>3, <1>4, <1>5, <1>6, <1>7, <1>8, <1>9, <1>10, <1>11, <1>12, <1>13, <1>14, <1>15
    DEF Next, Step, AbortDeadlock, LoseConnection

LEMMA GuardStep ==
    ASSUME TypeOK, TargetOK, GuardOK, [Next]_vars
    PROVE  GuardOK'
<1> USE DEF GuardOK
<1>1. ASSUME NEW t \in Call, NEW u \in User, NEW r \in Membership, BeginSet(t, u, r)
      PROVE  GuardOK'
    <2>1. /\ call'[t] = [Idle EXCEPT !.at = "read", !.user = u, !.role = r]
          /\ \A c \in Call : c # t => call'[c] = call[c]
        BY <1>1, BecomeMoves DEF BeginSet, Begin
    <2>2. /\ call'[t].at = "read"
          /\ call'[t].user = u
          /\ call'[t].role = r
          /\ call'[t].invite = NoInvite
          /\ call'[t].seen = NotMember
          /\ call'[t].found = FALSE
        BY <2>1 DEF Idle, TypeOK, CallState
    <2>3. QED
        BY <1>1, <2>1, <2>2 DEF BeginSet, Begin
<1>2. ASSUME NEW t \in Call, NEW i \in Invite, BeginInvite(t, i)
      PROVE  GuardOK'
    <2>1. /\ call'[t] = [Idle EXCEPT !.at = "invite", !.invite = i]
          /\ \A c \in Call : c # t => call'[c] = call[c]
        BY <1>2, BecomeMoves DEF BeginInvite, Begin
    <2>2. /\ call'[t].at = "invite"
          /\ call'[t].user = NoUser
          /\ call'[t].role = NotMember
          /\ call'[t].invite = i
          /\ call'[t].seen = NotMember
          /\ call'[t].found = FALSE
        BY <2>1 DEF Idle, TypeOK, CallState
    <2>3. QED
        BY <1>2, <2>1, <2>2 DEF BeginInvite, Begin
<1>3. ASSUME NEW t \in Call, NEW u \in User, NEW i \in Invite, BeginAccept(t, u, i)
      PROVE  GuardOK'
    <2>1. /\ call'[t] = [Idle EXCEPT !.at = "redeem", !.user = u, !.invite = i]
          /\ \A c \in Call : c # t => call'[c] = call[c]
        BY <1>3, BecomeMoves DEF BeginAccept, Begin
    <2>2. /\ call'[t].at = "redeem"
          /\ call'[t].user = u
          /\ call'[t].role = NotMember
          /\ call'[t].invite = i
          /\ call'[t].seen = NotMember
          /\ call'[t].found = FALSE
        BY <2>1 DEF Idle, TypeOK, CallState
    <2>3. QED
        BY <1>3, <2>1, <2>2 DEF BeginAccept, Begin
<1>4. ASSUME NEW t \in Call, ReadRole(t)
      PROVE  GuardOK'
    <2> DEFINE current == role[call[t].user]
                state == [call[t] EXCEPT !.at = IF Guarded(t, current) THEN "guard" ELSE "write",
                                         !.seen = current]
    <2>1. CASE current = NotMember
        BY <1>4, <2>1, AnswerMoves DEF ReadRole, Idle, TypeOK, CallState
    <2>2. CASE current # NotMember
        <3>1. /\ call'[t] = state
              /\ \A c \in Call : c # t => call'[c] = call[c]
            BY <1>4, <2>2, BecomeMoves DEF ReadRole
        <3>2. /\ call'[t].at = (IF Guarded(t, current) THEN "guard" ELSE "write")
              /\ call'[t].user = call[t].user
              /\ call'[t].role = call[t].role
              /\ call'[t].invite = call[t].invite
              /\ call'[t].seen = current
              /\ call'[t].found = call[t].found
            BY <3>1 DEF TypeOK, CallState
        <3>3. QED
            BY ZenonT(30), <1>4, <3>1, <3>2 DEF ReadRole, Guarded
    <2>3. QED
        BY <2>1, <2>2
<1>5. ASSUME NEW t \in Call, SnapshotAdmins(t)
      PROVE  GuardOK'
    <2>1. /\ call'[t] = [call[t] EXCEPT !.at = "lock", !.todo = Admins]
          /\ \A c \in Call : c # t => call'[c] = call[c]
        BY <1>5, BecomeMoves DEF SnapshotAdmins
    <2>2. /\ call'[t].at = "lock"
          /\ call'[t].user = call[t].user
          /\ call'[t].role = call[t].role
          /\ call'[t].invite = call[t].invite
          /\ call'[t].seen = call[t].seen
          /\ call'[t].found = call[t].found
        BY <2>1 DEF Idle, TypeOK, CallState
    <2>3. QED
        BY <1>5, <2>1, <2>2 DEF SnapshotAdmins
<1>6. ASSUME NEW t \in Call, NEW u \in User, LockAdmin(t, u)
      PROVE  GuardOK'
    <2>1. /\ call'[t] = [call[t] EXCEPT !.todo = @ \ {u}, !.want = NoUser,
                                     !.found = @ \/ (role[u] = Admin /\ u # call[t].user)]
          /\ \A c \in Call : c # t => call'[c] = call[c]
        BY <1>6, BecomeMoves DEF LockAdmin
    <2>2. /\ call'[t].at = call[t].at
          /\ call'[t].user = call[t].user
          /\ call'[t].role = call[t].role
          /\ call'[t].invite = call[t].invite
          /\ call'[t].seen = call[t].seen
          /\ call'[t].found = (call[t].found \/ (role[u] = Admin /\ u # call[t].user))
        BY <2>1 DEF Idle, TypeOK, CallState
    <2>3. QED
        BY <1>6, <2>1, <2>2 DEF LockAdmin
<1>7. ASSUME NEW t \in Call, DecideLastAdmin(t)
      PROVE  GuardOK'
    <2>1. CASE call[t].found
        <3>1. /\ call'[t] = [call[t] EXCEPT !.at = "write"]
              /\ \A c \in Call : c # t => call'[c] = call[c]
            BY <1>7, <2>1, BecomeMoves DEF DecideLastAdmin, Goto
        <3>2. /\ call'[t].at = "write"
              /\ call'[t].user = call[t].user
              /\ call'[t].role = call[t].role
              /\ call'[t].invite = call[t].invite
              /\ call'[t].seen = call[t].seen
              /\ call'[t].found = call[t].found
            BY <3>1 DEF TypeOK, CallState
        <3>3. QED
            BY <1>7, <2>1, <3>1, <3>2 DEF DecideLastAdmin
    <2>2. CASE ~call[t].found
        BY <1>7, <2>2, AnswerMoves DEF DecideLastAdmin, Idle, TypeOK, CallState
    <2>3. QED
        BY <2>1, <2>2
<1>8. ASSUME NEW t \in Call, NEW u \in User, WaitFor(t, u)
      PROVE  GuardOK'
    <2>1. /\ call'[t] = [call[t] EXCEPT !.want = u]
          /\ \A c \in Call : c # t => call'[c] = call[c]
        BY <1>8, BecomeMoves DEF WaitFor
    <2>2. /\ call'[t].at = call[t].at
          /\ call'[t].user = call[t].user
          /\ call'[t].role = call[t].role
          /\ call'[t].invite = call[t].invite
          /\ call'[t].seen = call[t].seen
          /\ call'[t].found = call[t].found
        BY <2>1 DEF Idle, TypeOK, CallState
    <2>3. QED
        BY ZenonT(30), <1>8, <2>1, <2>2 DEF WaitFor
<1>9. ASSUME NEW t \in Call, WriteRole(t)
      PROVE  GuardOK'
    <2>1. call'[t].at = "answered" /\ ~call'[t].found
        BY <1>9, WriteMoves DEF Idle
    <2>2. QED
        BY <1>9, <2>1, WriteMoves
<1>10. ASSUME NEW t \in Call, CreateInvite(t)
      PROVE  GuardOK'
    <2>1. call'[t].at = "answered" /\ ~call'[t].found
        BY <1>10, AnswerMoves DEF CreateInvite, Idle
    <2>2. QED
        BY <1>10, <2>1, AnswerMoves DEF CreateInvite
<1>11. ASSUME NEW t \in Call, RedeemInvite(t)
      PROVE  GuardOK'
    <2>1. CASE Redeemable(call[t].invite) /\ InviteFor[call[t].invite] = call[t].user
        <3>1. /\ call'[t] = [call[t] EXCEPT !.at = "join"]
              /\ \A c \in Call : c # t => call'[c] = call[c]
            BY <1>11, <2>1, BecomeMoves DEF RedeemInvite, Goto
        <3>2. /\ call'[t].at = "join"
              /\ call'[t].user = call[t].user
              /\ call'[t].role = call[t].role
              /\ call'[t].invite = call[t].invite
              /\ call'[t].seen = call[t].seen
              /\ call'[t].found = call[t].found
            BY <3>1 DEF TypeOK, CallState
        <3>3. QED
            BY <1>11, <2>1, <3>1, <3>2 DEF RedeemInvite
    <2>2. CASE ~(Redeemable(call[t].invite) /\ InviteFor[call[t].invite] = call[t].user)
        BY <1>11, <2>2, AnswerMoves DEF RedeemInvite, Idle, TypeOK, CallState
    <2>3. QED
        BY <2>1, <2>2
<1>12. ASSUME NEW t \in Call, JoinWorkspace(t)
      PROVE  GuardOK'
    <2>1. call'[t].at = "answered" /\ ~call'[t].found
        BY <1>12, AnswerMoves DEF JoinWorkspace, Idle
    <2>2. QED
        BY <1>12, <2>1, AnswerMoves DEF JoinWorkspace
<1>13. ASSUME NEW t \in Call, Rollback(t)
      PROVE  GuardOK'
    <2>1. call'[t].at = "answered" /\ ~call'[t].found
        BY <1>13, AnswerMoves DEF Rollback, Idle
    <2>2. QED
        BY <1>13, <2>1, AnswerMoves DEF Rollback
<1>14. ASSUME NEW i \in Invite, ExpireInvite(i)
      PROVE  GuardOK'
    BY <1>14 DEF ExpireInvite
<1>15. CASE UNCHANGED vars
    BY <1>15 DEF vars
<1>16. QED
    BY <1>1, <1>2, <1>3, <1>4, <1>5, <1>6, <1>7, <1>8, <1>9, <1>10, <1>11, <1>12, <1>13, <1>14, <1>15
    DEF Next, Step, AbortDeadlock, LoseConnection

LEMMA WitnessStep ==
    ASSUME TypeOK, TargetOK, WitnessOK, [Next]_vars
    PROVE  WitnessOK'
<1>1. ASSUME NEW t \in Call, NEW u \in User, NEW r \in Membership, BeginSet(t, u, r)
      PROVE  WitnessOK'
    <2>1. /\ call'[t] = [Idle EXCEPT !.at = "read", !.user = u, !.role = r]
          /\ \A c \in Call : c # t => call'[c] = call[c]
        BY <1>1, BecomeMoves DEF BeginSet, Begin
    <2>2. /\ call'[t].at = "read"
          /\ call'[t].user = u
          /\ call'[t].role = r
          /\ call'[t].invite = NoInvite
          /\ call'[t].seen = NotMember
          /\ call'[t].found = FALSE
        BY <2>1 DEF Idle, TypeOK, CallState
    <2>3. QED
        BY <1>1, <2>1, <2>2, WitnessFrame DEF BeginSet, Begin
<1>2. ASSUME NEW t \in Call, NEW i \in Invite, BeginInvite(t, i)
      PROVE  WitnessOK'
    <2>1. /\ call'[t] = [Idle EXCEPT !.at = "invite", !.invite = i]
          /\ \A c \in Call : c # t => call'[c] = call[c]
        BY <1>2, BecomeMoves DEF BeginInvite, Begin
    <2>2. /\ call'[t].at = "invite"
          /\ call'[t].user = NoUser
          /\ call'[t].role = NotMember
          /\ call'[t].invite = i
          /\ call'[t].seen = NotMember
          /\ call'[t].found = FALSE
        BY <2>1 DEF Idle, TypeOK, CallState
    <2>3. QED
        BY <1>2, <2>1, <2>2, WitnessFrame DEF BeginInvite, Begin
<1>3. ASSUME NEW t \in Call, NEW u \in User, NEW i \in Invite, BeginAccept(t, u, i)
      PROVE  WitnessOK'
    <2>1. /\ call'[t] = [Idle EXCEPT !.at = "redeem", !.user = u, !.invite = i]
          /\ \A c \in Call : c # t => call'[c] = call[c]
        BY <1>3, BecomeMoves DEF BeginAccept, Begin
    <2>2. /\ call'[t].at = "redeem"
          /\ call'[t].user = u
          /\ call'[t].role = NotMember
          /\ call'[t].invite = i
          /\ call'[t].seen = NotMember
          /\ call'[t].found = FALSE
        BY <2>1 DEF Idle, TypeOK, CallState
    <2>3. QED
        BY <1>3, <2>1, <2>2, WitnessFrame DEF BeginAccept, Begin
<1>4. ASSUME NEW t \in Call, ReadRole(t)
      PROVE  WitnessOK'
    <2> DEFINE current == role[call[t].user]
                state == [call[t] EXCEPT !.at = IF Guarded(t, current) THEN "guard" ELSE "write",
                                         !.seen = current]
    <2>1. CASE current = NotMember
        BY <1>4, <2>1, AnswerMoves, WitnessFrame DEF ReadRole, Idle, TypeOK, CallState
    <2>2. CASE current # NotMember
        <3>1. /\ call'[t] = state
              /\ \A c \in Call : c # t => call'[c] = call[c]
            BY <1>4, <2>2, BecomeMoves DEF ReadRole
        <3>2. /\ call'[t].at = (IF Guarded(t, current) THEN "guard" ELSE "write")
              /\ call'[t].user = call[t].user
              /\ call'[t].role = call[t].role
              /\ call'[t].invite = call[t].invite
              /\ call'[t].seen = current
              /\ call'[t].found = call[t].found
            BY <3>1 DEF TypeOK, CallState
        <3>3. ~call[t].found
            BY <1>4 DEF ReadRole, WitnessOK
        <3>4. QED
            BY <1>4, <3>1, <3>2, <3>3, WitnessFrame DEF ReadRole, Guarded
    <2>3. QED
        BY <2>1, <2>2
<1>5. ASSUME NEW t \in Call, SnapshotAdmins(t)
      PROVE  WitnessOK'
    <2>1. /\ call'[t] = [call[t] EXCEPT !.at = "lock", !.todo = Admins]
          /\ \A c \in Call : c # t => call'[c] = call[c]
        BY <1>5, BecomeMoves DEF SnapshotAdmins
    <2>2. /\ call'[t].at = "lock"
          /\ call'[t].user = call[t].user
          /\ call'[t].role = call[t].role
          /\ call'[t].invite = call[t].invite
          /\ call'[t].seen = call[t].seen
          /\ call'[t].found = call[t].found
        BY <2>1 DEF Idle, TypeOK, CallState
    <2>3. QED
        BY <1>5, <2>1, <2>2, WitnessFrame DEF SnapshotAdmins
<1>6. ASSUME NEW t \in Call, NEW u \in User, LockAdmin(t, u)
      PROVE  WitnessOK'
    <2>1. /\ call'[t] = [call[t] EXCEPT !.todo = @ \ {u}, !.want = NoUser,
                                     !.found = @ \/ (role[u] = Admin /\ u # call[t].user)]
          /\ \A c \in Call : c # t => call'[c] = call[c]
        BY <1>6, BecomeMoves DEF LockAdmin
    <2>2. /\ call'[t].at = "lock" /\ call'[t].user = call[t].user
          /\ call'[t].found = (call[t].found \/ (role[u] = Admin /\ u # call[t].user))
        BY <1>6, <2>1 DEF TypeOK, CallState, LockAdmin
    <2>3. /\ role' = role /\ holder' \in [User -> Call \cup {NoCall}]
          /\ holder'[u] = t
          /\ \A v \in User : v # u => holder'[v] = holder[v]
          /\ holder[u] \in {NoCall, t}
        BY <1>6 DEF LockAdmin, Hold, Free, TypeOK
    <2>4. ASSUME NEW c \in Call, c # t, call'[c].found
          PROVE  call'[c].at \in {"lock", "write"} /\ Witness(c)'
        BY <2>1, <2>3, <2>4, ConstantsAssumption DEF Witness, WitnessOK
    <2>5. ASSUME call'[t].found
          PROVE  Witness(t)'
        <3>1. CASE call[t].found
            BY <2>2, <2>3, <3>1 DEF Witness, WitnessOK
        <3>2. CASE role[u] = Admin /\ u # call[t].user
            BY <2>2, <2>3, <3>2 DEF Witness
        <3>3. QED
            BY <2>2, <2>5, <3>1, <3>2
    <2>6. QED
        BY <2>2, <2>4, <2>5 DEF WitnessOK
<1>7. ASSUME NEW t \in Call, DecideLastAdmin(t)
      PROVE  WitnessOK'
    <2>1. CASE call[t].found
        <3>1. /\ call'[t] = [call[t] EXCEPT !.at = "write"]
              /\ \A c \in Call : c # t => call'[c] = call[c]
            BY <1>7, <2>1, BecomeMoves DEF DecideLastAdmin, Goto
        <3>2. call'[t].at = "write" /\ call'[t].user = call[t].user
            BY <3>1 DEF TypeOK, CallState
        <3>3. role' = role /\ holder' = holder
            BY <1>7, <2>1 DEF DecideLastAdmin
        <3>4. QED
            BY <2>1, <3>1, <3>2, <3>3, WitnessFrame
    <2>2. CASE ~call[t].found
        <3>1. call'[t].at = "answered" /\ ~call'[t].found
            BY <1>7, <2>2, AnswerMoves DEF DecideLastAdmin, Idle
        <3>2. /\ role' = role
              /\ \A u \in User : holder[u] # t => holder'[u] = holder[u]
            BY <1>7, <2>2, ReleaseFrees DEF DecideLastAdmin
        <3>3. QED
            BY <1>7, <2>2, <3>1, <3>2, AnswerMoves DEF DecideLastAdmin, WitnessOK, Witness
    <2>3. QED
        BY <2>1, <2>2
<1>8. ASSUME NEW t \in Call, NEW u \in User, WaitFor(t, u)
      PROVE  WitnessOK'
    <2>1. /\ call'[t] = [call[t] EXCEPT !.want = u]
          /\ \A c \in Call : c # t => call'[c] = call[c]
        BY <1>8, BecomeMoves DEF WaitFor
    <2>2. /\ call'[t].at = call[t].at
          /\ call'[t].user = call[t].user
          /\ call'[t].role = call[t].role
          /\ call'[t].invite = call[t].invite
          /\ call'[t].seen = call[t].seen
          /\ call'[t].found = call[t].found
        BY <2>1 DEF Idle, TypeOK, CallState
    <2>3. QED
        BY <1>8, <2>1, <2>2, WitnessFrame DEF WaitFor
<1>9. ASSUME NEW t \in Call, WriteRole(t)
      PROVE  WitnessOK'
    <2>1. call'[t].at = "answered" /\ ~call'[t].found
        BY <1>9, WriteMoves DEF Idle
    <2>2. \A u \in User : holder[u] # t => holder'[u] = holder[u]
        BY <1>9, ReleaseFrees DEF WriteRole
    <2>3. \A u \in User : holder[u] \in Call \ {t} => role'[u] = role[u]
        BY <1>9, ConstantsAssumption DEF WriteRole, Free, TypeOK
    <2>4. ASSUME NEW c \in Call, c # t, call[c].found
          PROVE  Witness(c)'
        <3>1. PICK u \in User : u # call[c].user /\ holder[u] = c /\ role[u] = Admin
            BY <2>4 DEF Witness, WitnessOK
        <3>2. role'[u] = Admin /\ holder'[u] = c /\ call'[c].user = call[c].user
            BY <1>9, <2>2, <2>3, <2>4, <3>1, WriteMoves
        <3>3. QED
            BY <3>1, <3>2 DEF Witness
    <2>5. QED
        BY <1>9, <2>1, <2>4, WriteMoves DEF WitnessOK
<1>10. ASSUME NEW t \in Call, CreateInvite(t)
      PROVE  WitnessOK'
    <2>1. call'[t].at = "answered" /\ ~call'[t].found
        BY <1>10, AnswerMoves DEF CreateInvite, Idle
    <2>2. QED
        BY <1>10, <2>1, AnswerMoves, WitnessFrame DEF CreateInvite
<1>11. ASSUME NEW t \in Call, RedeemInvite(t)
      PROVE  WitnessOK'
    <2>1. CASE Redeemable(call[t].invite) /\ InviteFor[call[t].invite] = call[t].user
        <3>1. /\ call'[t] = [call[t] EXCEPT !.at = "join"]
              /\ \A c \in Call : c # t => call'[c] = call[c]
            BY <1>11, <2>1, BecomeMoves DEF RedeemInvite, Goto
        <3>2. /\ call'[t].at = "join"
              /\ call'[t].user = call[t].user
              /\ call'[t].role = call[t].role
              /\ call'[t].invite = call[t].invite
              /\ call'[t].seen = call[t].seen
              /\ call'[t].found = call[t].found
            BY <3>1 DEF TypeOK, CallState
        <3>3. ~call[t].found
            BY <1>11 DEF RedeemInvite, WitnessOK
        <3>4. QED
            BY <1>11, <2>1, <3>1, <3>2, <3>3, WitnessFrame DEF RedeemInvite
    <2>2. CASE ~(Redeemable(call[t].invite) /\ InviteFor[call[t].invite] = call[t].user)
        BY <1>11, <2>2, AnswerMoves, WitnessFrame DEF RedeemInvite, Idle, TypeOK, CallState
    <2>3. QED
        BY <2>1, <2>2
<1>12. ASSUME NEW t \in Call, JoinWorkspace(t)
      PROVE  WitnessOK'
    <2>1. call'[t].at = "answered" /\ ~call'[t].found
        BY <1>12, AnswerMoves DEF JoinWorkspace, Idle
    <2>2. \A u \in User : holder[u] # t => holder'[u] = holder[u]
        BY <1>12, ReleaseFrees DEF JoinWorkspace
    <2>3. \A u \in User : role[u] = Admin => role'[u] = Admin
        BY <1>12, ConstantsAssumption DEF JoinWorkspace, RoleOnJoin, TypeOK
    <2>4. ASSUME NEW c \in Call, c # t, call[c].found
          PROVE  Witness(c)'
        <3>1. PICK u \in User : u # call[c].user /\ holder[u] = c /\ role[u] = Admin
            BY <2>4 DEF Witness, WitnessOK
        <3>2. role'[u] = Admin /\ holder'[u] = c /\ call'[c].user = call[c].user
            BY <1>12, <2>2, <2>3, <2>4, <3>1, AnswerMoves DEF JoinWorkspace
        <3>3. QED
            BY <3>1, <3>2 DEF Witness
    <2>5. QED
        BY <1>12, <2>1, <2>4, AnswerMoves DEF JoinWorkspace, WitnessOK
<1>13. ASSUME NEW t \in Call, Rollback(t)
      PROVE  WitnessOK'
    <2>1. call'[t].at = "answered" /\ ~call'[t].found
        BY <1>13, AnswerMoves DEF Rollback, Idle
    <2>2. \A u \in User : holder[u] # t => holder'[u] = holder[u]
        BY <1>13, ReleaseFrees DEF Rollback
    <2>3. role' = role
        BY <1>13 DEF Rollback
    <2>4. ASSUME NEW c \in Call, c # t, call[c].found
          PROVE  Witness(c)'
        <3>1. PICK u \in User : u # call[c].user /\ holder[u] = c /\ role[u] = Admin
            BY <2>4 DEF Witness, WitnessOK
        <3>2. role'[u] = Admin /\ holder'[u] = c /\ call'[c].user = call[c].user
            BY <1>13, <2>2, <2>3, <2>4, <3>1, AnswerMoves DEF Rollback
        <3>3. QED
            BY <3>1, <3>2 DEF Witness
    <2>5. QED
        BY <1>13, <2>1, <2>4, AnswerMoves DEF Rollback, WitnessOK
<1>14. ASSUME NEW i \in Invite, ExpireInvite(i)
      PROVE  WitnessOK'
    BY <1>14 DEF ExpireInvite, WitnessOK, Witness
<1>15. CASE UNCHANGED vars
    BY <1>15 DEF vars, WitnessOK, Witness
<1>16. QED
    BY <1>1, <1>2, <1>3, <1>4, <1>5, <1>6, <1>7, <1>8, <1>9, <1>10, <1>11, <1>12, <1>13, <1>14, <1>15
    DEF Next, Step, AbortDeadlock, LoseConnection

LEMMA RedeemStep ==
    ASSUME TypeOK, TargetOK, RedeemOK, InviteJoinsOnce, [Next]_vars
    PROVE  (RedeemOK /\ InviteJoinsOnce)'
<1>1. ASSUME NEW t \in Call, NEW u \in User, NEW r \in Membership, BeginSet(t, u, r)
      PROVE  (RedeemOK /\ InviteJoinsOnce)'
    <2>1. /\ call'[t] = [Idle EXCEPT !.at = "read", !.user = u, !.role = r]
          /\ \A c \in Call : c # t => call'[c] = call[c]
        BY <1>1, BecomeMoves DEF BeginSet, Begin
    <2>2. /\ call'[t].at = "read"
          /\ call'[t].user = u
          /\ call'[t].role = r
          /\ call'[t].invite = NoInvite
          /\ call'[t].seen = NotMember
          /\ call'[t].found = FALSE
        BY <2>1 DEF Idle, TypeOK, CallState
    <2>3. QED
        BY <1>1, <2>1, <2>2, RedeemFrame DEF BeginSet, Begin
<1>2. ASSUME NEW t \in Call, NEW i \in Invite, BeginInvite(t, i)
      PROVE  (RedeemOK /\ InviteJoinsOnce)'
    <2>1. /\ call'[t] = [Idle EXCEPT !.at = "invite", !.invite = i]
          /\ \A c \in Call : c # t => call'[c] = call[c]
        BY <1>2, BecomeMoves DEF BeginInvite, Begin
    <2>2. /\ call'[t].at = "invite"
          /\ call'[t].user = NoUser
          /\ call'[t].role = NotMember
          /\ call'[t].invite = i
          /\ call'[t].seen = NotMember
          /\ call'[t].found = FALSE
        BY <2>1 DEF Idle, TypeOK, CallState
    <2>3. QED
        BY <1>2, <2>1, <2>2, RedeemFrame DEF BeginInvite, Begin
<1>3. ASSUME NEW t \in Call, NEW u \in User, NEW i \in Invite, BeginAccept(t, u, i)
      PROVE  (RedeemOK /\ InviteJoinsOnce)'
    <2>1. /\ call'[t] = [Idle EXCEPT !.at = "redeem", !.user = u, !.invite = i]
          /\ \A c \in Call : c # t => call'[c] = call[c]
        BY <1>3, BecomeMoves DEF BeginAccept, Begin
    <2>2. /\ call'[t].at = "redeem"
          /\ call'[t].user = u
          /\ call'[t].role = NotMember
          /\ call'[t].invite = i
          /\ call'[t].seen = NotMember
          /\ call'[t].found = FALSE
        BY <2>1 DEF Idle, TypeOK, CallState
    <2>3. QED
        BY <1>3, <2>1, <2>2, RedeemFrame DEF BeginAccept, Begin
<1>4. ASSUME NEW t \in Call, ReadRole(t)
      PROVE  (RedeemOK /\ InviteJoinsOnce)'
    <2> DEFINE current == role[call[t].user]
                state == [call[t] EXCEPT !.at = IF Guarded(t, current) THEN "guard" ELSE "write",
                                         !.seen = current]
    <2>1. CASE current = NotMember
        BY <1>4, <2>1, AnswerMoves, RedeemFrame DEF ReadRole, Idle, TypeOK, CallState
    <2>2. CASE current # NotMember
        <3>1. /\ call'[t] = state
              /\ \A c \in Call : c # t => call'[c] = call[c]
            BY <1>4, <2>2, BecomeMoves DEF ReadRole
        <3>2. /\ call'[t].at = (IF Guarded(t, current) THEN "guard" ELSE "write")
              /\ call'[t].user = call[t].user
              /\ call'[t].role = call[t].role
              /\ call'[t].invite = call[t].invite
              /\ call'[t].seen = current
              /\ call'[t].found = call[t].found
            BY <3>1 DEF TypeOK, CallState
        <3>3. QED
            BY <1>4, <3>1, <3>2, RedeemFrame DEF ReadRole, Guarded
    <2>3. QED
        BY <2>1, <2>2
<1>5. ASSUME NEW t \in Call, SnapshotAdmins(t)
      PROVE  (RedeemOK /\ InviteJoinsOnce)'
    <2>1. /\ call'[t] = [call[t] EXCEPT !.at = "lock", !.todo = Admins]
          /\ \A c \in Call : c # t => call'[c] = call[c]
        BY <1>5, BecomeMoves DEF SnapshotAdmins
    <2>2. /\ call'[t].at = "lock"
          /\ call'[t].user = call[t].user
          /\ call'[t].role = call[t].role
          /\ call'[t].invite = call[t].invite
          /\ call'[t].seen = call[t].seen
          /\ call'[t].found = call[t].found
        BY <2>1 DEF Idle, TypeOK, CallState
    <2>3. QED
        BY <1>5, <2>1, <2>2, RedeemFrame DEF SnapshotAdmins
<1>6. ASSUME NEW t \in Call, NEW u \in User, LockAdmin(t, u)
      PROVE  (RedeemOK /\ InviteJoinsOnce)'
    <2>1. /\ call'[t] = [call[t] EXCEPT !.todo = @ \ {u}, !.want = NoUser,
                                     !.found = @ \/ (role[u] = Admin /\ u # call[t].user)]
          /\ \A c \in Call : c # t => call'[c] = call[c]
        BY <1>6, BecomeMoves DEF LockAdmin
    <2>2. /\ call'[t].at = call[t].at
          /\ call'[t].user = call[t].user
          /\ call'[t].role = call[t].role
          /\ call'[t].invite = call[t].invite
          /\ call'[t].seen = call[t].seen
          /\ call'[t].found = (call[t].found \/ (role[u] = Admin /\ u # call[t].user))
        BY <2>1 DEF Idle, TypeOK, CallState
    <2>3. QED
        BY <1>6, <2>1, <2>2, RedeemFrame DEF LockAdmin
<1>7. ASSUME NEW t \in Call, DecideLastAdmin(t)
      PROVE  (RedeemOK /\ InviteJoinsOnce)'
    <2> USE DEF RedeemOK, InviteJoinsOnce
    <2>1. /\ call'[t].at \in {"write", "answered"}
          /\ \A c \in Call : c # t => call'[c] = call[c]
        <3>1. CASE call[t].found
            <4>1. /\ call'[t] = [call[t] EXCEPT !.at = "write"]
                  /\ \A c \in Call : c # t => call'[c] = call[c]
                BY <1>7, <3>1, BecomeMoves DEF DecideLastAdmin, Goto
            <4>2. QED
                BY <4>1 DEF TypeOK, CallState
        <3>2. CASE ~call[t].found
            BY <1>7, <3>2, AnswerMoves DEF DecideLastAdmin, Idle
        <3>3. QED
            BY <3>1, <3>2
    <2>2. /\ UNCHANGED <<invite, joined>>
          /\ \A i \in Invite : redeemer[i] # t => redeemer'[i] = redeemer[i]
        BY <1>7, ReleaseFrees DEF DecideLastAdmin
    <2>3. QED
        BY <2>1, <2>2 DEF TargetOK
<1>8. ASSUME NEW t \in Call, NEW u \in User, WaitFor(t, u)
      PROVE  (RedeemOK /\ InviteJoinsOnce)'
    <2>1. /\ call'[t] = [call[t] EXCEPT !.want = u]
          /\ \A c \in Call : c # t => call'[c] = call[c]
        BY <1>8, BecomeMoves DEF WaitFor
    <2>2. /\ call'[t].at = call[t].at
          /\ call'[t].user = call[t].user
          /\ call'[t].role = call[t].role
          /\ call'[t].invite = call[t].invite
          /\ call'[t].seen = call[t].seen
          /\ call'[t].found = call[t].found
        BY <2>1 DEF Idle, TypeOK, CallState
    <2>3. QED
        BY <1>8, <2>1, <2>2, RedeemFrame DEF WaitFor
<1>9. ASSUME NEW t \in Call, WriteRole(t)
      PROVE  (RedeemOK /\ InviteJoinsOnce)'
    <2> USE DEF RedeemOK, InviteJoinsOnce
    <2>1. /\ call'[t].at = "answered"
          /\ \A c \in Call : c # t => call'[c].at = call[c].at /\ call'[c].invite = call[c].invite
        BY <1>9, WriteMoves DEF Idle
    <2>2. /\ UNCHANGED <<invite, joined>>
          /\ \A i \in Invite : redeemer[i] # t => redeemer'[i] = redeemer[i]
        BY <1>9, ReleaseFrees DEF WriteRole
    <2>3. QED
        BY <2>1, <2>2 DEF TargetOK
<1>10. ASSUME NEW t \in Call, CreateInvite(t)
      PROVE  (RedeemOK /\ InviteJoinsOnce)'
    <2> USE DEF RedeemOK, InviteJoinsOnce
    <2> DEFINE i == call[t].invite
    <2>1. call'[t].at = "answered" /\ \A c \in Call : c # t => call'[c] = call[c]
        BY <1>10, AnswerMoves DEF CreateInvite, Idle
    <2>2. i \in Invite
        BY <1>10 DEF CreateInvite, TargetOK
    <2>3. /\ \A j \in Invite : j # i => invite'[j] = invite[j]
          /\ invite'[i] = IF invite[i] = "none" THEN "pending" ELSE invite[i]
          /\ UNCHANGED <<joined, redeemer>>
        BY <1>10, <2>2 DEF CreateInvite, TypeOK
    <2>4. QED
        BY <2>1, <2>2, <2>3 DEF TargetOK
<1>11. ASSUME NEW t \in Call, RedeemInvite(t)
      PROVE  (RedeemOK /\ InviteJoinsOnce)'
    <2> USE DEF RedeemOK, InviteJoinsOnce
    <2> DEFINE i == call[t].invite
    <2>1. CASE Redeemable(i) /\ InviteFor[i] = call[t].user
        <3>1. /\ call'[t] = [call[t] EXCEPT !.at = "join"]
              /\ \A c \in Call : c # t => call'[c] = call[c]
            BY <1>11, <2>1, BecomeMoves DEF RedeemInvite, Goto
        <3>2. call'[t].invite = i /\ i \in Invite
            BY <1>11, <3>1 DEF TypeOK, CallState, TargetOK, RedeemInvite
        <3>3. /\ redeemer'[i] = t /\ redeemer[i] = NoCall /\ invite[i] = "pending"
              /\ \A j \in Invite : j # i => redeemer'[j] = redeemer[j]
              /\ UNCHANGED <<invite, joined>>
            BY <1>11, <2>1, <3>2 DEF RedeemInvite, Redeemable, TypeOK
        <3>4. ASSUME NEW c \in Call, c # t, call'[c].at = "join"
              PROVE  redeemer'[call'[c].invite] = c /\ invite'[call'[c].invite] = "pending"
            BY <3>1, <3>2, <3>3, <3>4, ConstantsAssumption DEF TargetOK
        <3>5. redeemer'[call'[t].invite] = t /\ invite'[call'[t].invite] = "pending"
            BY <3>2, <3>3
        <3>6. \A j \in Invite : invite'[j] \in {"none", "pending"} => joined'[j] = 0
            BY <3>3
        <3>7. QED
            BY <3>3, <3>4, <3>5, <3>6
    <2>2. CASE ~(Redeemable(i) /\ InviteFor[i] = call[t].user)
        <3>1. call'[t].at = "answered"
            BY <1>11, <2>2, AnswerMoves DEF RedeemInvite, Idle
        <3>2. QED
            BY <1>11, <2>2, <3>1, AnswerMoves DEF RedeemInvite
    <2>3. QED
        BY <2>1, <2>2
<1>12. ASSUME NEW t \in Call, JoinWorkspace(t)
      PROVE  (RedeemOK /\ InviteJoinsOnce)'
    <2> USE DEF RedeemOK, InviteJoinsOnce
    <2> DEFINE i == call[t].invite
    <2>1. i \in Invite /\ redeemer[i] = t /\ invite[i] = "pending" /\ joined[i] = 0
        BY <1>12 DEF JoinWorkspace, TargetOK
    <2>2. call'[t].at = "answered" /\ \A c \in Call : c # t => call'[c] = call[c]
        BY <1>12, AnswerMoves DEF JoinWorkspace, Idle
    <2>3. /\ \A j \in Invite : j # i => joined'[j] = joined[j] /\ invite'[j] = invite[j]
          /\ \A j \in Invite : redeemer[j] # t => redeemer'[j] = redeemer[j]
          /\ joined'[i] \in {0, 1} /\ invite'[i] = "used"
        BY <1>12, <2>1, ReleaseFrees DEF JoinWorkspace, TypeOK
    <2>4. ASSUME NEW c \in Call, call'[c].at = "join"
          PROVE  redeemer'[call'[c].invite] = c /\ invite'[call'[c].invite] = "pending"
        <3>1. c # t /\ call[c].at = "join" /\ call'[c].invite = call[c].invite
            BY <2>2, <2>4
        <3>2. call[c].invite \in Invite /\ redeemer[call[c].invite] = c
            BY <3>1 DEF TargetOK
        <3>3. QED
            BY <2>1, <2>3, <3>1, <3>2
    <2>5. QED
        BY <2>1, <2>3, <2>4
<1>13. ASSUME NEW t \in Call, Rollback(t)
      PROVE  (RedeemOK /\ InviteJoinsOnce)'
    <2> USE DEF RedeemOK, InviteJoinsOnce
    <2>1. /\ call'[t].at = "answered"
          /\ \A c \in Call : c # t => call'[c].at = call[c].at /\ call'[c].invite = call[c].invite
        BY <1>13, AnswerMoves DEF Rollback, Idle
    <2>2. /\ UNCHANGED <<invite, joined>>
          /\ \A i \in Invite : redeemer[i] # t => redeemer'[i] = redeemer[i]
        BY <1>13, ReleaseFrees DEF Rollback
    <2>3. QED
        BY <2>1, <2>2 DEF TargetOK
<1>14. ASSUME NEW i \in Invite, ExpireInvite(i)
      PROVE  (RedeemOK /\ InviteJoinsOnce)'
    <2> USE DEF RedeemOK, InviteJoinsOnce
    <2>1. \A c \in Call : call[c].at = "join" => call[c].invite # i
        BY <1>14, ConstantsAssumption DEF ExpireInvite
    <2>2. QED
        BY <1>14, <2>1 DEF ExpireInvite, TypeOK, TargetOK
<1>15. CASE UNCHANGED vars
    BY <1>15 DEF vars, RedeemOK, InviteJoinsOnce
<1>16. QED
    BY <1>1, <1>2, <1>3, <1>4, <1>5, <1>6, <1>7, <1>8, <1>9, <1>10, <1>11, <1>12, <1>13, <1>14, <1>15
    DEF Next, Step, AbortDeadlock, LoseConnection

LEMMA AdminStep ==
    ASSUME TypeOK, TargetOK, WitnessOK, GuardOK, AdminRemains, [Next]_vars
    PROVE  AdminRemains'
<1> USE DEF AdminRemains, Admins
<1>1. ASSUME NEW t \in Call, NEW u \in User, NEW r \in Membership, BeginSet(t, u, r)
      PROVE  AdminRemains'
    BY <1>1 DEF BeginSet, Begin
<1>2. ASSUME NEW t \in Call, NEW i \in Invite, BeginInvite(t, i)
      PROVE  AdminRemains'
    BY <1>2 DEF BeginInvite, Begin
<1>3. ASSUME NEW t \in Call, NEW u \in User, NEW i \in Invite, BeginAccept(t, u, i)
      PROVE  AdminRemains'
    BY <1>3 DEF BeginAccept, Begin
<1>4. ASSUME NEW t \in Call, ReadRole(t)
      PROVE  AdminRemains'
    BY <1>4 DEF ReadRole
<1>5. ASSUME NEW t \in Call, SnapshotAdmins(t)
      PROVE  AdminRemains'
    BY <1>5 DEF SnapshotAdmins
<1>6. ASSUME NEW t \in Call, NEW u \in User, LockAdmin(t, u)
      PROVE  AdminRemains'
    BY <1>6 DEF LockAdmin
<1>7. ASSUME NEW t \in Call, DecideLastAdmin(t)
      PROVE  AdminRemains'
    BY <1>7 DEF DecideLastAdmin
<1>8. ASSUME NEW t \in Call, NEW u \in User, WaitFor(t, u)
      PROVE  AdminRemains'
    BY <1>8 DEF WaitFor
<1>9. ASSUME NEW t \in Call, WriteRole(t)
      PROVE  AdminRemains'
    <2> DEFINE u == call[t].user
    <2>1. u \in User /\ call[t].at = "write"
        BY <1>9 DEF WriteRole, TargetOK
    <2>2. /\ \A v \in User : v # u => role'[v] = role[v]
          /\ role'[u] = IF role[u] = NotMember THEN NotMember ELSE call[t].role
        BY <1>9, <2>1 DEF WriteRole, TypeOK
    <2>3. ASSUME ~overtaken'
          PROVE  \E v \in User : role'[v] = Admin
        <3>1. ~overtaken /\ (role[u] = Admin /\ call[t].role # Admin => call[t].seen = Admin)
            BY <1>9, <2>3 DEF WriteRole, TypeOK
        <3>2. CASE role[u] # Admin
            BY <2>2, <3>1, <3>2
        <3>3. CASE role[u] = Admin /\ call[t].role = Admin
            BY <2>1, <2>2, <3>3, ConstantsAssumption
        <3>4. CASE role[u] = Admin /\ call[t].role # Admin
            <4>1. Witness(t)
                BY <2>1, <3>1, <3>4 DEF GuardOK, WitnessOK
            <4>2. QED
                BY <2>2, <4>1 DEF Witness
        <3>5. QED
            BY <3>2, <3>3, <3>4
    <2>4. QED
        BY <2>3
<1>10. ASSUME NEW t \in Call, CreateInvite(t)
      PROVE  AdminRemains'
    BY <1>10 DEF CreateInvite
<1>11. ASSUME NEW t \in Call, RedeemInvite(t)
      PROVE  AdminRemains'
    BY <1>11 DEF RedeemInvite
<1>12. ASSUME NEW t \in Call, JoinWorkspace(t)
      PROVE  AdminRemains'
    BY <1>12, ConstantsAssumption DEF JoinWorkspace, RoleOnJoin, TypeOK
<1>13. ASSUME NEW t \in Call, Rollback(t)
      PROVE  AdminRemains'
    BY <1>13 DEF Rollback
<1>14. ASSUME NEW i \in Invite, ExpireInvite(i)
      PROVE  AdminRemains'
    BY <1>14 DEF ExpireInvite
<1>15. CASE UNCHANGED vars
    BY <1>15 DEF vars
<1>16. QED
    BY <1>1, <1>2, <1>3, <1>4, <1>5, <1>6, <1>7, <1>8, <1>9, <1>10, <1>11, <1>12, <1>13, <1>14, <1>15
    DEF Next, Step, AbortDeadlock, LoseConnection

-------------------------------------------------------------------------------
LEMMA InitInv == Init => Inv
<1> SUFFICES ASSUME Init
             PROVE  Inv
    OBVIOUS
<1> USE DEF Init
<1>1. TypeOK
    BY IdleIsState, ConstantsAssumption DEF TypeOK
<1>2. TargetOK /\ WitnessOK /\ GuardOK
    BY DEF TargetOK, WitnessOK, GuardOK, Idle
<1>3. RedeemOK /\ AdminRemains /\ InviteJoinsOnce
    BY DEF RedeemOK, AdminRemains, InviteJoinsOnce, Idle
<1>4. QED
    BY <1>1, <1>2, <1>3 DEF Inv

LEMMA StepInv == Inv /\ [Next]_vars => Inv'
    BY TypeStep, TargetStep, GuardStep, WitnessStep, RedeemStep, AdminStep DEF Inv

\* The inductive invariant holds in every reachable state.
THEOREM Invariance == Spec => []Inv
    BY InitInv, StepInv, PTL DEF Spec

\* Every variable keeps its type.
THEOREM TypeCorrect == Spec => []TypeOK
<1>1. Inv => TypeOK
    BY DEF Inv
<1>2. QED
    BY <1>1, Invariance, PTL

\* The locks of _other_admins_exist keep an admin in the Workspace, as long as
\* no call takes admin from a user it had read as no admin.
THEOREM AdminRemainsThm == Spec => []AdminRemains
<1>1. Inv => AdminRemains
    BY DEF Inv
<1>2. QED
    BY <1>1, Invariance, PTL

\* accept_invite's lock and its accepted_at make an invite good for one join.
THEOREM InviteJoinsOnceThm == Spec => []InviteJoinsOnce
<1>1. Inv => InviteJoinsOnce
    BY DEF Inv
<1>2. QED
    BY <1>1, Invariance, PTL

\* One step that changes the role of a member is that member's write.
ChangeIsOwn ==
    \A u \in User : role[u] # NotMember /\ role'[u] # role[u] =>
        \E t \in Call : call[t].at = "write" /\ call[t].user = u /\ call'[t].at = "answered"

LEMMA OwnStep ==
    ASSUME TypeOK, TargetOK, [Next]_vars
    PROVE  ChangeIsOwn
<1> USE DEF ChangeIsOwn
<1>1. ASSUME NEW t \in Call, NEW u \in User, NEW r \in Membership, BeginSet(t, u, r)
      PROVE  ChangeIsOwn
    BY <1>1 DEF BeginSet, Begin
<1>2. ASSUME NEW t \in Call, NEW i \in Invite, BeginInvite(t, i)
      PROVE  ChangeIsOwn
    BY <1>2 DEF BeginInvite, Begin
<1>3. ASSUME NEW t \in Call, NEW u \in User, NEW i \in Invite, BeginAccept(t, u, i)
      PROVE  ChangeIsOwn
    BY <1>3 DEF BeginAccept, Begin
<1>4. ASSUME NEW t \in Call, ReadRole(t)
      PROVE  ChangeIsOwn
    BY <1>4 DEF ReadRole
<1>5. ASSUME NEW t \in Call, SnapshotAdmins(t)
      PROVE  ChangeIsOwn
    BY <1>5 DEF SnapshotAdmins
<1>6. ASSUME NEW t \in Call, NEW u \in User, LockAdmin(t, u)
      PROVE  ChangeIsOwn
    BY <1>6 DEF LockAdmin
<1>7. ASSUME NEW t \in Call, DecideLastAdmin(t)
      PROVE  ChangeIsOwn
    BY <1>7 DEF DecideLastAdmin
<1>8. ASSUME NEW t \in Call, NEW u \in User, WaitFor(t, u)
      PROVE  ChangeIsOwn
    BY <1>8 DEF WaitFor
<1>9. ASSUME NEW t \in Call, WriteRole(t)
      PROVE  ChangeIsOwn
    <2>1. call'[t].at = "answered"
        BY <1>9, WriteMoves DEF Idle
    <2>2. call[t].at = "write" /\ \A u \in User : u # call[t].user => role'[u] = role[u]
        BY <1>9 DEF WriteRole, TypeOK
    <2>3. QED
        BY <2>1, <2>2
<1>10. ASSUME NEW t \in Call, CreateInvite(t)
      PROVE  ChangeIsOwn
    BY <1>10 DEF CreateInvite
<1>11. ASSUME NEW t \in Call, RedeemInvite(t)
      PROVE  ChangeIsOwn
    BY <1>11 DEF RedeemInvite
<1>12. ASSUME NEW t \in Call, JoinWorkspace(t)
      PROVE  ChangeIsOwn
    BY <1>12 DEF JoinWorkspace, RoleOnJoin, TypeOK
<1>13. ASSUME NEW t \in Call, Rollback(t)
      PROVE  ChangeIsOwn
    BY <1>13 DEF Rollback
<1>14. ASSUME NEW i \in Invite, ExpireInvite(i)
      PROVE  ChangeIsOwn
    BY <1>14 DEF ExpireInvite
<1>15. CASE UNCHANGED vars
    BY <1>15 DEF vars
<1>16. QED
    BY <1>1, <1>2, <1>3, <1>4, <1>5, <1>6, <1>7, <1>8, <1>9, <1>10, <1>11, <1>12, <1>13, <1>14, <1>15
    DEF Next, Step, AbortDeadlock, LoseConnection

\* Accepting an invite never changes the role of a member.
THEOREM InviteKeepsRoleThm == Spec => InviteKeepsRole
<1>1. Inv /\ [Next]_vars => [ChangeIsOwn]_vars
    BY OwnStep DEF Inv
<1>2. QED
    BY <1>1, Invariance, PTL DEF Spec, InviteKeepsRole, ChangeIsOwn

-------------------------------------------------------------------------------
(* The calls implement the roster.                                         *)

\* An invite is redeemed for the user it names only.
JoinFits == \A t \in Call : call[t].at = "join" => InviteFor[call[t].invite] = call[t].user

\* A call that is about to join was already, or has just redeemed its invite.
LEMMA JoinOrigin ==
    ASSUME TypeOK, TargetOK, [Next]_vars, NEW c \in Call, call'[c].at = "join"
    PROVE  /\ call'[c].user = call[c].user /\ call'[c].invite = call[c].invite
           /\ call[c].at = "join" \/ InviteFor[call[c].invite] = call[c].user
<1> DEFINE Origin == /\ call'[c].user = call[c].user /\ call'[c].invite = call[c].invite
                     /\ call[c].at = "join" \/ InviteFor[call[c].invite] = call[c].user
<1>1. ASSUME NEW t \in Call, NEW state \in CallState, state.at # "join", Become(t, state)
      PROVE  Origin
    BY <1>1, BecomeMoves
<1>2. ASSUME NEW t \in Call, Answer(t)
      PROVE  Origin
    BY <1>2, <1>1, AnsweredIsState DEF Answer, CallState, Idle
<1>3. ASSUME NEW t \in Call, NEW u \in User, NEW r \in Membership, BeginSet(t, u, r)
      PROVE  Origin
    <2> DEFINE state == [Idle EXCEPT !.at = "read", !.user = u, !.role = r]
    <2>1. state \in CallState /\ state.at # "join"
        BY ConstantsAssumption DEF Idle, CallState, Membership, Running
    <2>2. Become(t, state)
        BY <1>3 DEF BeginSet, Begin
    <2> HIDE DEF state
    <2>3. QED
        BY <1>1, <2>1, <2>2
<1>4. ASSUME NEW t \in Call, NEW i \in Invite, BeginInvite(t, i)
      PROVE  Origin
    <2> DEFINE state == [Idle EXCEPT !.at = "invite", !.invite = i]
    <2>1. state \in CallState /\ state.at # "join"
        BY ConstantsAssumption DEF Idle, CallState, Membership, Running
    <2>2. Become(t, state)
        BY <1>4 DEF BeginInvite, Begin
    <2> HIDE DEF state
    <2>3. QED
        BY <1>1, <2>1, <2>2
<1>5. ASSUME NEW t \in Call, NEW u \in User, NEW i \in Invite, BeginAccept(t, u, i)
      PROVE  Origin
    <2> DEFINE state == [Idle EXCEPT !.at = "redeem", !.user = u, !.invite = i]
    <2>1. state \in CallState /\ state.at # "join"
        BY ConstantsAssumption DEF Idle, CallState, Membership, Running
    <2>2. Become(t, state)
        BY <1>5 DEF BeginAccept, Begin
    <2> HIDE DEF state
    <2>3. QED
        BY <1>1, <2>1, <2>2
<1>6. ASSUME NEW t \in Call, ReadRole(t)
      PROVE  Origin
    BY <1>6, <1>2 DEF ReadRole, Become, TypeOK, CallState
<1>7. ASSUME NEW t \in Call, SnapshotAdmins(t)
      PROVE  Origin
    BY <1>7 DEF SnapshotAdmins, Become, TypeOK, CallState
<1>8. ASSUME NEW t \in Call, NEW u \in User, LockAdmin(t, u)
      PROVE  Origin
    BY <1>8 DEF LockAdmin, Become, TypeOK, CallState
<1>9. ASSUME NEW t \in Call, DecideLastAdmin(t)
      PROVE  Origin
    BY <1>9, <1>2 DEF DecideLastAdmin, Goto, Become, TypeOK, CallState
<1>10. ASSUME NEW t \in Call, NEW u \in User, WaitFor(t, u)
      PROVE  Origin
    BY <1>10 DEF WaitFor, Become, TypeOK, CallState
<1>11. ASSUME NEW t \in Call, WriteRole(t)
      PROVE  Origin
    BY <1>11, WriteMoves DEF Idle
<1>12. ASSUME NEW t \in Call, RedeemInvite(t)
      PROVE  Origin
    BY <1>12, <1>2 DEF RedeemInvite, Goto, Become, TypeOK, CallState
<1>13. ASSUME NEW t \in Call, CreateInvite(t) \/ JoinWorkspace(t) \/ Rollback(t)
      PROVE  Origin
    BY <1>13, <1>2 DEF CreateInvite, JoinWorkspace, Rollback
<1>14. ASSUME NEW i \in Invite, ExpireInvite(i)
      PROVE  Origin
    BY <1>14 DEF ExpireInvite
<1>15. CASE UNCHANGED vars
    BY <1>15 DEF vars
<1>16. QED
    BY <1>3, <1>4, <1>5, <1>6, <1>7, <1>8, <1>9, <1>10, <1>11, <1>12, <1>13, <1>14, <1>15
    DEF Next, Step, AbortDeadlock, LoseConnection

LEMMA JoinStep == TypeOK /\ TargetOK /\ JoinFits /\ [Next]_vars => JoinFits'
    BY JoinOrigin DEF JoinFits

LEMMA JoinInvariance == Spec => []JoinFits
<1>1. Init => JoinFits
    BY DEF Init, JoinFits, Idle
<1>2. Inv => TypeOK /\ TargetOK
    BY DEF Inv
<1>3. QED
    BY <1>1, <1>2, Invariance, JoinStep, PTL DEF Spec

LEMMA RosterInit == Init => Roster!Init
    BY DEF Init, Roster!Init, Membership, Admins

\* The write of a change or removal is one of the roster's three, by what was
\* read before it; of a user who is gone it is nothing.
LEMMA WriteRefines ==
    ASSUME Inv, NEW t \in Call, WriteRole(t)
    PROVE  [Roster!Next]_<<role, invite, overtaken>>
<1> DEFINE u == call[t].user
           r == call[t].role
<1>1. /\ u \in User /\ r \in Role \cup {NotMember} /\ call[t].at = "write"
      /\ role \in [User -> Membership] /\ overtaken \in BOOLEAN
    BY DEF Inv, WriteRole, TargetOK, TypeOK, CallState, Membership
<1>2. /\ role' = [role EXCEPT ![u] = IF role[u] = NotMember THEN role[u] ELSE r]
      /\ overtaken' = (overtaken \/ (role[u] = Admin /\ r # Admin /\ call[t].seen # Admin))
      /\ invite' = invite
    BY DEF WriteRole
<1>3. role[u] = Admin /\ r # Admin /\ call[t].seen = Admin => Witness(t)
    BY <1>1 DEF Inv, GuardOK, WitnessOK
<1>4. CASE role[u] = NotMember
    <2>1. role' = role /\ overtaken' = overtaken
        BY <1>1, <1>2, <1>4, ConstantsAssumption
    <2>2. QED
        BY <1>2, <2>1
<1>5. CASE role[u] # NotMember /\ (role[u] = Admin => r = Admin)
    <2>1. Roster!Assign(u, r)
        BY <1>1, <1>2, <1>5 DEF Roster!Assign, Roster!Give
    <2>2. QED
        BY <1>1, <2>1 DEF Roster!Next
<1>6. CASE role[u] = Admin /\ r # Admin /\ call[t].seen = Admin
    <2>1. Roster!Demote(u, r)
        BY <1>1, <1>2, <1>3, <1>6, ConstantsAssumption DEF Roster!Demote, Roster!Give, Witness
    <2>2. QED
        BY <1>1, <2>1 DEF Roster!Next
<1>7. CASE role[u] = Admin /\ r # Admin /\ call[t].seen # Admin
    <2>1. Roster!Overtake(u, r)
        BY <1>1, <1>2, <1>7, ConstantsAssumption DEF Roster!Overtake, Roster!Give
    <2>2. QED
        BY <1>1, <2>1 DEF Roster!Next
<1>8. QED
    BY <1>4, <1>5, <1>6, <1>7

\* The transaction of an accept is the roster's one step.
LEMMA JoinRefines ==
    ASSUME Inv, JoinFits, NEW t \in Call, JoinWorkspace(t)
    PROVE  Roster!Next
<1> DEFINE i == call[t].invite
<1>1. /\ i \in Invite /\ InviteFor[i] = call[t].user /\ invite[i] = "pending"
    BY DEF Inv, JoinFits, JoinWorkspace, TargetOK, RedeemOK
<1>2. /\ role' = [role EXCEPT ![call[t].user] = RoleOnJoin(t)]
      /\ invite' = [invite EXCEPT ![i] = "used"]
      /\ overtaken' = overtaken
    BY DEF JoinWorkspace
<1>3. Roster!Accept(i)
    BY <1>1, <1>2 DEF Roster!Accept, Roster!Turn, Roster!Give, RoleOnJoin
<1>4. QED
    BY <1>1, <1>3 DEF Roster!Next

\* Each step of the calls is one of the roster or leaves it alone.
LEMMA RosterStep ==
    ASSUME Inv, JoinFits, [Next]_vars
    PROVE  [Roster!Next]_<<role, invite, overtaken>>
<1>1. ASSUME NEW t \in Call, CreateInvite(t)
      PROVE  [Roster!Next]_<<role, invite, overtaken>>
    <2> DEFINE i == call[t].invite
    <2>1. i \in Invite /\ invite \in [Invite -> {"none", "pending", "used", "expired"}]
        BY <1>1 DEF CreateInvite, Inv, TargetOK, TypeOK
    <2>2. /\ invite' = [invite EXCEPT ![i] = IF invite[i] = "none" THEN "pending" ELSE invite[i]]
          /\ role' = role /\ overtaken' = overtaken
        BY <1>1 DEF CreateInvite
    <2>3. CASE invite[i] = "none"
        BY <2>1, <2>2, <2>3 DEF Roster!Next, Roster!Offer, Roster!Turn
    <2>4. CASE invite[i] # "none"
        BY <2>1, <2>2, <2>4
    <2>5. QED
        BY <2>3, <2>4
<1>2. ASSUME NEW i \in Invite, ExpireInvite(i)
      PROVE  Roster!Next
    BY <1>2 DEF ExpireInvite, Roster!Next, Roster!Expire, Roster!Turn
<1>3. ASSUME NEW t \in Call, NEW u \in User, LockAdmin(t, u) \/ WaitFor(t, u)
      PROVE  UNCHANGED <<role, invite, overtaken>>
    BY <1>3 DEF LockAdmin, WaitFor
<1>4. ASSUME NEW t \in Call,
             \/ ReadRole(t) \/ SnapshotAdmins(t) \/ DecideLastAdmin(t)
             \/ RedeemInvite(t) \/ Rollback(t)
      PROVE  UNCHANGED <<role, invite, overtaken>>
    BY <1>4 DEF ReadRole, SnapshotAdmins, DecideLastAdmin, RedeemInvite, Rollback
<1>5. ASSUME NEW t \in Call, NEW state, Begin(t, state)
      PROVE  UNCHANGED <<role, invite, overtaken>>
    BY <1>5 DEF Begin
<1>6. CASE UNCHANGED vars
    BY <1>6 DEF vars
<1>7. QED
    BY <1>1, <1>2, <1>3, <1>4, <1>5, <1>6, WriteRefines, JoinRefines
    DEF Next, Step, AbortDeadlock, LoseConnection, BeginSet, BeginInvite, BeginAccept

\* The interleaved transactions are, to whoever reads the members, the roster's
\* one call at a time.
THEOREM RosterRefinement == Spec => RefinesRoster
<1>1. Inv /\ JoinFits /\ [Next]_vars => [Roster!Next]_(Roster!roster)
    BY RosterStep DEF Roster!roster
<1>2. QED
    BY <1>1, RosterInit, Invariance, JoinInvariance, PTL DEF Spec, RefinesRoster, Roster!Spec

\* What the roster says of who may come in: nobody becomes a member but by an
\* invite to them, which is consumed, and with the role it grants.
ComeByInvite ==
    \A u \in User : role[u] = NotMember /\ role'[u] # NotMember =>
        \E i \in Invite : /\ InviteFor[i] = u /\ role'[u] = InviteRole[i]
                          /\ invite[i] = "pending" /\ invite'[i] = "used"

LEMMA RosterAdmits ==
    ASSUME role \in [User -> Membership], invite \in [Invite -> {"none", "pending", "used", "expired"}],
           [Roster!Next]_<<role, invite, overtaken>>
    PROVE  ComeByInvite
<1>1. ASSUME NEW u \in User, NEW r \in Role \cup {NotMember},
             Roster!Assign(u, r) \/ Roster!Demote(u, r) \/ Roster!Overtake(u, r)
      PROVE  ComeByInvite
    BY <1>1, ConstantsAssumption
    DEF ComeByInvite, Roster!Assign, Roster!Demote, Roster!Overtake, Roster!Give
<1>2. ASSUME NEW i \in Invite, Roster!Offer(i) \/ Roster!Expire(i)
      PROVE  ComeByInvite
    BY <1>2 DEF ComeByInvite, Roster!Offer, Roster!Expire
<1>3. ASSUME NEW i \in Invite, Roster!Accept(i)
      PROVE  ComeByInvite
    BY <1>3, ConstantsAssumption DEF ComeByInvite, Roster!Accept, Roster!Turn, Roster!Give
<1>4. QED
    BY <1>1, <1>2, <1>3 DEF Roster!Next, ComeByInvite

\* deps.py and auth_store.py: whatever races with it, a call adds nobody to a
\* Workspace who was not invited, and spends an invite on each who comes.
THEOREM JoinsByInvite == Spec => [][ComeByInvite]_vars
<1>1. Inv => role \in [User -> Membership] /\ invite \in [Invite -> {"none", "pending", "used", "expired"}]
    BY DEF Inv, TypeOK
<1>2. Inv /\ JoinFits /\ [Next]_vars => ComeByInvite
    BY <1>1, RosterStep, RosterAdmits
<1>3. QED
    BY <1>2, Invariance, JoinInvariance, PTL DEF Spec

-------------------------------------------------------------------------------
(* What EveryCallEnds rests on: no lock outlives its transaction, and no    *)
(* transaction goes back.                                                  *)

\* Whoever holds a membership row is locking or writing, and whoever holds an
\* invite is about to join by it: every way a transaction ends frees its rows.
LocksAreLive ==
    /\ \A u \in User : holder[u] # NoCall => call[holder[u]].at \in {"lock", "write"}
    /\ \A i \in Invite : redeemer[i] # NoCall =>
           call[redeemer[i]].at = "join" /\ call[redeemer[i]].invite = i

LEMMA LocksFrame ==
    ASSUME TypeOK, LocksAreLive, NEW t \in Call, UNCHANGED <<holder, redeemer>>,
           \A c \in Call : c # t =>
               call'[c].at = call[c].at /\ call'[c].invite = call[c].invite,
           call[t].at \in {"lock", "write"} => call'[t].at \in {"lock", "write"},
           call[t].at = "join" => call'[t].at = "join" /\ call'[t].invite = call[t].invite
    PROVE  LocksAreLive'
    BY DEF LocksAreLive, TypeOK

LEMMA LocksReleased ==
    ASSUME TypeOK, LocksAreLive, NEW t \in Call, Release(t),
           \A c \in Call : c # t =>
               call'[c].at = call[c].at /\ call'[c].invite = call[c].invite
    PROVE  LocksAreLive'
<1>1. ASSUME NEW u \in User, holder'[u] # NoCall
      PROVE  holder'[u] = holder[u] /\ holder[u] # t
    BY <1>1 DEF Release
<1>2. ASSUME NEW i \in Invite, redeemer'[i] # NoCall
      PROVE  redeemer'[i] = redeemer[i] /\ redeemer[i] # t
    BY <1>2 DEF Release
<1>3. QED
    BY <1>1, <1>2 DEF LocksAreLive, TypeOK

LEMMA LocksStep ==
    ASSUME TypeOK, TargetOK, LocksAreLive, [Next]_vars
    PROVE  LocksAreLive'
<1>1. ASSUME NEW t \in Call, NEW state, Begin(t, state)
      PROVE  LocksAreLive'
    <2>1. call[t].at = "idle" /\ \A c \in Call : c # t => call'[c] = call[c]
        BY <1>1, BecomeMoves DEF Begin
    <2>2. QED
        BY <1>1, <2>1, LocksFrame DEF Begin
<1>2. ASSUME NEW t \in Call, ReadRole(t)
      PROVE  LocksAreLive'
    <2>1. call[t].at = "read" /\ \A c \in Call : c # t => call'[c] = call[c]
        BY <1>2, BecomeMoves, AnswerMoves DEF ReadRole
    <2>2. QED
        BY <1>2, <2>1, LocksFrame DEF ReadRole
<1>3. ASSUME NEW t \in Call, SnapshotAdmins(t)
      PROVE  LocksAreLive'
    <2>1. call[t].at = "guard" /\ \A c \in Call : c # t => call'[c] = call[c]
        BY <1>3, BecomeMoves DEF SnapshotAdmins
    <2>2. QED
        BY <1>3, <2>1, LocksFrame DEF SnapshotAdmins
<1>4. ASSUME NEW t \in Call, NEW u \in User, LockAdmin(t, u)
      PROVE  LocksAreLive'
    <2> DEFINE state == [call[t] EXCEPT !.todo = @ \ {u}, !.want = NoUser,
                                         !.found = @ \/ (role[u] = Admin /\ u # call[t].user)]
    <2>1. call'[t] = state /\ \A c \in Call : c # t => call'[c] = call[c]
        BY <1>4, BecomeMoves DEF LockAdmin
    <2>2. state.at = call[t].at
        BY DEF TypeOK, CallState
    <2>3. call[t].at = "lock" /\ call'[t].at = "lock"
        BY <1>4, <2>1, <2>2 DEF LockAdmin
    <2>4. holder' = [holder EXCEPT ![u] = t] /\ redeemer' = redeemer
        BY <1>4 DEF LockAdmin, Hold
    <2> HIDE DEF state
    <2>5. QED
        BY <2>1, <2>3, <2>4 DEF LocksAreLive, TypeOK
<1>5. ASSUME NEW t \in Call, DecideLastAdmin(t)
      PROVE  LocksAreLive'
    <2>1. CASE call[t].found
        <3>1. call'[t] = [call[t] EXCEPT !.at = "write"]
              /\ \A c \in Call : c # t => call'[c] = call[c]
            BY <1>5, <2>1, BecomeMoves DEF DecideLastAdmin, Goto
        <3>2. call[t].at = "lock" /\ call'[t].at = "write"
            BY <1>5, <3>1 DEF DecideLastAdmin, TypeOK, CallState
        <3>3. QED
            BY <1>5, <2>1, <3>1, <3>2, LocksFrame DEF DecideLastAdmin
    <2>2. CASE ~call[t].found
        BY <1>5, <2>2, AnswerMoves, LocksReleased DEF DecideLastAdmin
    <2>3. QED
        BY <2>1, <2>2
<1>6. ASSUME NEW t \in Call, NEW u \in User, WaitFor(t, u)
      PROVE  LocksAreLive'
    <2>1. call'[t] = [call[t] EXCEPT !.want = u]
          /\ \A c \in Call : c # t => call'[c] = call[c]
        BY <1>6, BecomeMoves DEF WaitFor
    <2>2. call'[t].at = call[t].at /\ call'[t].invite = call[t].invite
        BY <2>1 DEF TypeOK, CallState
    <2>3. QED
        BY <1>6, <2>1, <2>2, LocksFrame DEF WaitFor
<1>7. ASSUME NEW t \in Call, WriteRole(t)
      PROVE  LocksAreLive'
    BY <1>7, WriteMoves, LocksReleased DEF WriteRole
<1>8. ASSUME NEW t \in Call, CreateInvite(t)
      PROVE  LocksAreLive'
    BY <1>8, AnswerMoves, LocksFrame DEF CreateInvite
<1>9. ASSUME NEW t \in Call, RedeemInvite(t)
      PROVE  LocksAreLive'
    <2> DEFINE i == call[t].invite
    <2>1. CASE Redeemable(i) /\ InviteFor[i] = call[t].user
        <3>1. /\ call'[t] = [call[t] EXCEPT !.at = "join"]
              /\ \A c \in Call : c # t => call'[c] = call[c]
            BY <1>9, <2>1, BecomeMoves DEF RedeemInvite, Goto
        <3>2. call'[t].at = "join" /\ call'[t].invite = i /\ call[t].at = "redeem"
            BY <1>9, <3>1 DEF RedeemInvite, TypeOK, CallState
        <3>3. redeemer' = [redeemer EXCEPT ![i] = t] /\ holder' = holder
            BY <1>9, <2>1 DEF RedeemInvite
        <3>4. ASSUME NEW j \in Invite, redeemer'[j] # NoCall
              PROVE  call'[redeemer'[j]].at = "join" /\ call'[redeemer'[j]].invite = j
            <4>1. CASE j = i
                BY <3>2, <3>3, <4>1 DEF TypeOK
            <4>2. CASE j # i
                <5>1. /\ redeemer'[j] = redeemer[j] /\ redeemer[j] \in Call \ {t}
                      /\ redeemer[j] # NoCall
                    BY <3>2, <3>3, <3>4, <4>2 DEF LocksAreLive, TypeOK
                <5>2. QED
                    BY <3>1, <5>1 DEF LocksAreLive
            <4>3. QED
                BY <4>1, <4>2
        <3>5. ASSUME NEW u \in User, holder'[u] # NoCall
              PROVE  call'[holder'[u]].at \in {"lock", "write"}
            <4>1. /\ holder[u] \in Call \ {t} /\ holder[u] # NoCall
                  /\ holder'[u] = holder[u]
                BY <3>2, <3>3, <3>5 DEF LocksAreLive, TypeOK
            <4>2. QED
                BY <3>1, <4>1 DEF LocksAreLive
        <3>6. QED
            BY <3>4, <3>5 DEF LocksAreLive
    <2>2. CASE ~(Redeemable(i) /\ InviteFor[i] = call[t].user)
        BY <1>9, <2>2, AnswerMoves, LocksFrame DEF RedeemInvite
    <2>3. QED
        BY <2>1, <2>2
<1>10. ASSUME NEW t \in Call, JoinWorkspace(t) \/ Rollback(t)
      PROVE  LocksAreLive'
    BY <1>10, AnswerMoves, LocksReleased DEF JoinWorkspace, Rollback
<1>11. ASSUME NEW i \in Invite, ExpireInvite(i)
      PROVE  LocksAreLive'
    BY <1>11 DEF ExpireInvite, LocksAreLive
<1>12. CASE UNCHANGED vars
    BY <1>12 DEF vars, LocksAreLive
<1>13. QED
    BY <1>1, <1>2, <1>3, <1>4, <1>5, <1>6, <1>7, <1>8, <1>9, <1>10, <1>11, <1>12
    DEF Next, Step, AbortDeadlock, LoseConnection, BeginSet, BeginInvite, BeginAccept

\* auth_store.py's transactions hold a row for no longer than they run: a row that
\* somebody waits for is held by a call that is itself under way.
THEOREM LocksAreLiveThm == Spec => []LocksAreLive
<1>1. Init => LocksAreLive
    BY DEF Init, LocksAreLive
<1>2. Inv => TypeOK /\ TargetOK
    BY DEF Inv
<1>3. QED
    BY <1>1, <1>2, Invariance, LocksStep, PTL DEF Spec

\* How many labels a call still has before it, at most.
Left(label) ==
    CASE label = "idle" -> 6 [] label = "read" -> 5 [] label = "guard" -> 4
      [] label = "lock" -> 3 [] label = "write" -> 2 [] label = "redeem" -> 2
      [] label \in {"invite", "join"} -> 1 [] OTHER -> 0

Advances(t) ==
    /\ call'[t].at # call[t].at => Left(call'[t].at) < Left(call[t].at)
    /\ call[t].at = "lock" /\ call'[t].at = "lock" => call'[t].todo \subseteq call[t].todo

LEMMA AnswerAdvances ==
    ASSUME TypeOK, NEW t \in Call, Answer(t), call[t].at \in {"idle"} \cup Running
    PROVE  \A c \in Call : Advances(c)
<1>1. call'[t].at = "answered" /\ \A c \in Call : c # t => call'[c] = call[c]
    BY AnswerMoves DEF Idle
<1>2. QED
    BY <1>1 DEF Advances, Left, Running

LEMMA GoesAdvance ==
    ASSUME TypeOK, NEW t \in Call, NEW state \in CallState, Become(t, state),
           Left(state.at) < Left(call[t].at)
    PROVE  \A c \in Call : Advances(c)
<1>1. call'[t] = state /\ \A c \in Call : c # t => call'[c] = call[c]
    BY BecomeMoves
<1>2. ASSUME NEW c \in Call
      PROVE  Advances(c)
    <2>1. CASE c = t
        BY <1>1, <2>1 DEF Advances, Left
    <2>2. CASE c # t
        BY <1>1, <2>2 DEF Advances
    <2>3. QED
        BY <2>1, <2>2
<1>3. QED
    BY <1>2

LEMMA AdvanceStep ==
    ASSUME TypeOK, TargetOK, [Next]_vars
    PROVE  \A c \in Call : Advances(c)
<1> DEFINE Forward == \A c \in Call : Advances(c)
<1>1. ASSUME NEW t \in Call, NEW u \in User, NEW r \in Membership, BeginSet(t, u, r)
      PROVE  Forward
    <2> DEFINE state == [Idle EXCEPT !.at = "read", !.user = u, !.role = r]
    <2>1. state \in CallState /\ state.at = "read"
        BY ConstantsAssumption DEF Idle, CallState, Membership, Running
    <2>2. Become(t, state) /\ call[t].at = "idle"
        BY <1>1 DEF BeginSet, Begin
    <2> HIDE DEF state
    <2>3. QED
        BY <2>1, <2>2, GoesAdvance DEF Left
<1>2. ASSUME NEW t \in Call, NEW i \in Invite, BeginInvite(t, i)
      PROVE  Forward
    <2> DEFINE state == [Idle EXCEPT !.at = "invite", !.invite = i]
    <2>1. state \in CallState /\ state.at = "invite"
        BY ConstantsAssumption DEF Idle, CallState, Membership, Running
    <2>2. Become(t, state) /\ call[t].at = "idle"
        BY <1>2 DEF BeginInvite, Begin
    <2> HIDE DEF state
    <2>3. QED
        BY <2>1, <2>2, GoesAdvance DEF Left
<1>3. ASSUME NEW t \in Call, NEW u \in User, NEW i \in Invite, BeginAccept(t, u, i)
      PROVE  Forward
    <2> DEFINE state == [Idle EXCEPT !.at = "redeem", !.user = u, !.invite = i]
    <2>1. state \in CallState /\ state.at = "redeem"
        BY ConstantsAssumption DEF Idle, CallState, Membership, Running
    <2>2. Become(t, state) /\ call[t].at = "idle"
        BY <1>3 DEF BeginAccept, Begin
    <2> HIDE DEF state
    <2>3. QED
        BY <2>1, <2>2, GoesAdvance DEF Left
<1>4. ASSUME NEW t \in Call, ReadRole(t)
      PROVE  Forward
    <2> DEFINE current == role[call[t].user]
               state == [call[t] EXCEPT !.at = IF Guarded(t, current) THEN "guard" ELSE "write",
                                        !.seen = current]
    <2>1. call[t].at = "read" /\ current \in Membership /\ call[t] \in CallState
        BY <1>4 DEF ReadRole, TargetOK, TypeOK
    <2>2. state \in CallState /\ state.at \in {"guard", "write"}
        BY <2>1 DEF CallState, Running
    <2>3. Answer(t) \/ Become(t, state)
        BY <1>4 DEF ReadRole
    <2> HIDE DEF state
    <2>4. QED
        BY <2>1, <2>2, <2>3, GoesAdvance, AnswerAdvances DEF Left, Running
<1>5. ASSUME NEW t \in Call, SnapshotAdmins(t)
      PROVE  Forward
    <2> DEFINE state == [call[t] EXCEPT !.at = "lock", !.todo = Admins]
    <2>1. state \in CallState /\ state.at = "lock"
        BY DEF TypeOK, CallState, Running, Admins
    <2>2. Become(t, state) /\ call[t].at = "guard"
        BY <1>5 DEF SnapshotAdmins
    <2> HIDE DEF state
    <2>3. QED
        BY <2>1, <2>2, GoesAdvance DEF Left
<1>6. ASSUME NEW t \in Call, NEW u \in User, LockAdmin(t, u)
      PROVE  Forward
    <2> DEFINE state == [call[t] EXCEPT !.todo = @ \ {u}, !.want = NoUser,
                                         !.found = @ \/ (role[u] = Admin /\ u # call[t].user)]
    <2>1. call'[t] = state /\ \A c \in Call : c # t => call'[c] = call[c]
        BY <1>6, BecomeMoves DEF LockAdmin
    <2>2. state.at = call[t].at /\ state.todo \subseteq call[t].todo
        BY DEF TypeOK, CallState
    <2> HIDE DEF state
    <2>3. QED
        BY <2>1, <2>2 DEF Advances
<1>7. ASSUME NEW t \in Call, DecideLastAdmin(t)
      PROVE  Forward
    <2> DEFINE state == [call[t] EXCEPT !.at = "write"]
    <2>1. state \in CallState /\ state.at = "write"
        BY DEF TypeOK, CallState, Running
    <2>2. call[t].at = "lock" /\ (Answer(t) \/ Become(t, state))
        BY <1>7 DEF DecideLastAdmin, Goto
    <2> HIDE DEF state
    <2>3. QED
        BY <2>1, <2>2, GoesAdvance, AnswerAdvances DEF Left, Running
<1>8. ASSUME NEW t \in Call, NEW u \in User, WaitFor(t, u)
      PROVE  Forward
    <2>1. call'[t] = [call[t] EXCEPT !.want = u] /\ \A c \in Call : c # t => call'[c] = call[c]
        BY <1>8, BecomeMoves DEF WaitFor
    <2>2. call'[t].at = call[t].at /\ call'[t].todo = call[t].todo
        BY <2>1 DEF TypeOK, CallState
    <2>3. QED
        BY <2>1, <2>2 DEF Advances
<1>9. ASSUME NEW t \in Call, WriteRole(t)
      PROVE  Forward
    <2> DEFINE u == call[t].user
    <2>1. call[t].at = "write" /\ call'[t].at = "answered"
        BY <1>9, WriteMoves DEF WriteRole, Idle
    <2>2. ASSUME NEW c \in Call, c # t
          PROVE  call'[c].at = call[c].at /\ call'[c].todo \subseteq call[c].todo
        <3>1. call'[c] \in {call[c], Forgotten(call[c], u)} /\ call[c] \in CallState
            BY <1>9, <2>2 DEF WriteRole, TypeOK
        <3>2. Forgotten(call[c], u).at = call[c].at
              /\ Forgotten(call[c], u).todo \subseteq call[c].todo
            BY <3>1 DEF Forgotten, CallState
        <3>3. QED
            BY <3>1, <3>2
    <2>3. Advances(t)
        BY <2>1 DEF Advances, Left
    <2>4. ASSUME NEW c \in Call, c # t
          PROVE  Advances(c)
        BY <2>2, <2>4 DEF Advances
    <2>5. QED
        BY <2>3, <2>4
<1>10. ASSUME NEW t \in Call, RedeemInvite(t)
      PROVE  Forward
    <2> DEFINE state == [call[t] EXCEPT !.at = "join"]
    <2>1. state \in CallState /\ state.at = "join"
        BY DEF TypeOK, CallState, Running
    <2>2. call[t].at = "redeem" /\ (Answer(t) \/ Become(t, state))
        BY <1>10 DEF RedeemInvite, Goto
    <2> HIDE DEF state
    <2>3. QED
        BY <2>1, <2>2, GoesAdvance, AnswerAdvances DEF Left, Running
<1>11. ASSUME NEW t \in Call, CreateInvite(t) \/ JoinWorkspace(t) \/ Rollback(t)
      PROVE  Forward
    BY <1>11, AnswerAdvances DEF CreateInvite, JoinWorkspace, Rollback, Running
<1>12. ASSUME NEW i \in Invite, ExpireInvite(i)
      PROVE  Forward
    BY <1>12 DEF ExpireInvite, Advances
<1>13. CASE UNCHANGED vars
    BY <1>13 DEF vars, Advances
<1>14. QED
    BY <1>1, <1>2, <1>3, <1>4, <1>5, <1>6, <1>7, <1>8, <1>9, <1>10, <1>11, <1>12, <1>13
    DEF Next, Step, AbortDeadlock, LoseConnection

\* A call on the members never goes back to a label it has left, nor gets more
\* rows to lock: nothing in auth_store.py retries, so a call has at most six
\* labels and as many locks as its snapshot had admins.
THEOREM CallsAdvance == Spec => [][\A t \in Call : Advances(t)]_vars
<1>1. Inv /\ [Next]_vars => \A t \in Call : Advances(t)
    BY AdvanceStep DEF Inv
<1>2. QED
    BY <1>1, Invariance, PTL DEF Spec
===============================================================================
