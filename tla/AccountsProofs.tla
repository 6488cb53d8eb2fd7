---------------------------- MODULE AccountsProofs ----------------------------
(***************************************************************************)
(* Theorems about Accounts, for every set of requests, addresses and roles, *)
(* and every way of canonicalizing an address.                              *)
(***************************************************************************)
EXTENDS Accounts, TLAPS

\* Accounts are kept under canonical addresses, one each, with a Workspace.
EmailOK ==
    /\ \A u \in users : Canonical(u.email) = u.email /\ u.id \in homes
    /\ \A u, v \in users : u.email = v.email => u = v

\* A request that may create or has found its account carries a canonical
\* address, and the account it found is that of the address.
GrantOK ==
    \A c \in Caller :
        /\ caller[c].at \in {"insert", "grant"} => Canonical(caller[c].email) = caller[c].email
        /\ caller[c].at = "grant" => \E u \in users : /\ u.id = caller[c].user
                                                      /\ u.email = caller[c].email

LoginOK ==
    \A l \in login : /\ Canonical(l.email) = l.email
                     /\ \E u \in users : u.id = l.user /\ u.email = l.email

AccInv == AccTypeOK /\ EmailOK /\ GrantOK /\ LoginOK

-------------------------------------------------------------------------------
CallerState == [at : {"idle", "insert", "grant", "member", "handler", "done"},
                email : Spelling, user : Caller \cup {Nobody}]

LEMMA RestIsState == Rest \in CallerState /\ Rest.at = "idle"
<1>1. (CHOOSE s \in Spelling : TRUE) \in Spelling
    BY AccountsAssumption
<1>2. QED
    BY <1>1 DEF Rest, CallerState

LEMMA MovesTo ==
    ASSUME AccTypeOK, NEW c \in Caller, NEW here \in CallerState, Moves(c, here)
    PROVE  /\ caller'[c] = here
           /\ \A d \in Caller : d # c => caller'[d] = caller[d]
           /\ caller' \in [Caller -> CallerState]
    BY DEF AccTypeOK, Moves, CallerState

LEMMA LeavesTo ==
    ASSUME AccTypeOK, NEW c \in Caller, Leaves(c)
    PROVE  /\ caller'[c].at = "done"
           /\ \A d \in Caller : d # c => caller'[d] = caller[d]
           /\ caller' \in [Caller -> CallerState]
<1>1. [Rest EXCEPT !.at = "done"] \in CallerState /\ [Rest EXCEPT !.at = "done"].at = "done"
    BY RestIsState DEF CallerState
<1>2. QED
    BY <1>1, MovesTo DEF Leaves

LEMMA GrantsTo ==
    ASSUME AccTypeOK, NEW c \in Caller, NEW e \in Spelling, NEW u \in Caller, Grants(c, e, u)
    PROVE  /\ caller'[c].at = "grant" /\ caller'[c].email = e /\ caller'[c].user = u
           /\ \A d \in Caller : d # c => caller'[d] = caller[d]
           /\ caller' \in [Caller -> CallerState]
<1> DEFINE here == [Rest EXCEPT !.at = "grant", !.email = e, !.user = u]
<1>1. here \in CallerState /\ here.at = "grant" /\ here.email = e /\ here.user = u
    BY RestIsState DEF CallerState
<1>2. Moves(c, here)
    BY DEF Grants
<1> HIDE DEF here
<1>3. QED
    BY <1>1, <1>2, MovesTo

LEMMA AccountOf ==
    ASSUME AccTypeOK, NEW e \in Spelling, Named(e) # {}
    PROVE  IdOf(e) \in Caller /\ \E u \in users : u.id = IdOf(e) /\ u.email = e
<1>1. (CHOOSE u \in Named(e) : TRUE) \in Named(e)
    OBVIOUS
<1>2. QED
    BY <1>1 DEF IdOf, Named, AccTypeOK, User

LEMMA CanonicalIsFixed ==
    ASSUME NEW s \in Spelling
    PROVE  Canonical(s) \in Spelling /\ Canonical(Canonical(s)) = Canonical(s)
    BY AccountsAssumption

\* An insert of an unused canonical address keeps one account per address.
LEMMA InsertsKeep ==
    ASSUME AccTypeOK, EmailOK, NEW c \in Caller, NEW e \in Spelling, NEW password \in BOOLEAN,
           Canonical(e) = e, Named(e) = {}, Inserts(c, e, password)
    PROVE  /\ users' \subseteq User /\ homes' \subseteq Caller /\ EmailOK'
           /\ users \subseteq users'
           /\ \E u \in users' : u.id = c /\ u.email = e
<1> DEFINE new == [id |-> c, email |-> e, password |-> password]
<1>1. new \in User /\ new.id = c /\ new.email = e
    BY DEF User
<1>2. users' = users \cup {new} /\ homes' = homes \cup {c}
    BY DEF Inserts
<1>3. \A u \in users : u.email # e
    BY DEF Named
<1> HIDE DEF new
<1>4. QED
    BY <1>1, <1>2, <1>3 DEF AccTypeOK, EmailOK

-------------------------------------------------------------------------------
LEMMA AccInitial == AccInit => AccInv
    BY RestIsState DEF AccInit, AccInv, AccTypeOK, EmailOK, GrantOK, LoginOK, CallerState

\* A request that ends leaves the invariant as it was.
LEMMA LeavesKeeps ==
    ASSUME AccInv, NEW c \in Caller, Leaves(c), UNCHANGED <<users, homes, role, login>>
    PROVE  AccInv'
<1>1. /\ caller'[c].at = "done"
      /\ \A d \in Caller : d # c => caller'[d] = caller[d]
      /\ caller' \in [Caller -> CallerState]
    BY LeavesTo DEF AccInv
<1>2. AccTypeOK' /\ EmailOK' /\ LoginOK'
    BY <1>1 DEF AccInv, AccTypeOK, EmailOK, LoginOK, CallerState
<1>3. GrantOK'
    BY <1>1 DEF AccInv, GrantOK
<1>4. QED
    BY <1>2, <1>3 DEF AccInv

\* So does one that has found its account.
LEMMA GrantsKeeps ==
    ASSUME AccInv, NEW c \in Caller, NEW e \in Spelling, Canonical(e) = e, NEW u \in Caller,
           Grants(c, e, u), UNCHANGED <<role, login>>,
           users' \subseteq User, homes' \subseteq Caller, EmailOK', users \subseteq users',
           \E v \in users' : v.id = u /\ v.email = e
    PROVE  AccInv'
<1>1. /\ caller'[c].at = "grant" /\ caller'[c].email = e /\ caller'[c].user = u
      /\ \A d \in Caller : d # c => caller'[d] = caller[d]
      /\ caller' \in [Caller -> CallerState]
    BY GrantsTo DEF AccInv
<1>2. AccTypeOK'
    BY <1>1 DEF AccInv, AccTypeOK, CallerState
<1>3. GrantOK'
    BY <1>1 DEF AccInv, GrantOK
<1>4. LoginOK'
    BY DEF AccInv, LoginOK
<1>5. QED
    BY <1>2, <1>3, <1>4 DEF AccInv

\* A known address leads to its account.
LEMMA KnownKeeps ==
    ASSUME AccInv, NEW c \in Caller, NEW e \in Spelling, Canonical(e) = e, Named(e) # {},
           Grants(c, e, IdOf(e)), UNCHANGED <<users, homes, role, login>>
    PROVE  AccInv'
<1>1. IdOf(e) \in Caller /\ \E u \in users : u.id = IdOf(e) /\ u.email = e
    BY AccountOf DEF AccInv
<1>2. users' \subseteq User /\ homes' \subseteq Caller /\ EmailOK'
    BY DEF AccInv, AccTypeOK, EmailOK
<1>3. QED
    BY <1>1, <1>2, GrantsKeeps

\* A new address gets its account.
LEMMA NewKeeps ==
    ASSUME AccInv, NEW c \in Caller, NEW e \in Spelling, Canonical(e) = e, Named(e) = {},
           NEW password \in BOOLEAN, Inserts(c, e, password), Grants(c, e, c),
           UNCHANGED <<role, login>>
    PROVE  AccInv'
    BY InsertsKeep, GrantsKeeps DEF AccInv

LEMMA AccStep == AccInv /\ [AccNext]_accVars => AccInv'
<1> SUFFICES ASSUME AccInv, [AccNext]_accVars PROVE AccInv'
    OBVIOUS
<1>1. ASSUME NEW c \in Caller, NEW s \in Spelling, Signup(c, s) PROVE AccInv'
    <2>1. CASE Named(Canonical(s)) = {}
        BY <1>1, <2>1, CanonicalIsFixed, NewKeeps DEF Signup
    <2>2. CASE Named(Canonical(s)) # {}
        BY <1>1, <2>2, LeavesKeeps DEF Signup
    <2>3. QED
        BY <2>1, <2>2
<1>2. ASSUME NEW c \in Caller, NEW s \in Spelling, PasswordLogin(c, s) PROVE AccInv'
    <2>1. CASE Named(Canonical(s)) # {} /\ Grants(c, Canonical(s), IdOf(Canonical(s)))
        BY <1>2, <2>1, CanonicalIsFixed, KnownKeeps DEF PasswordLogin
    <2>2. CASE Leaves(c)
        BY <1>2, <2>2, LeavesKeeps DEF PasswordLogin
    <2>3. QED
        BY <1>2, <2>1, <2>2 DEF PasswordLogin
<1>3. ASSUME NEW c \in Caller, NEW s \in Spelling, GoogleLookup(c, s) PROVE AccInv'
    <2> DEFINE e == Canonical(s)
    <2>1. e \in Spelling /\ Canonical(e) = e
        BY CanonicalIsFixed
    <2>2. CASE Named(e) # {} /\ Grants(c, e, IdOf(e))
        BY <1>3, <2>1, <2>2, KnownKeeps DEF GoogleLookup
    <2>3. CASE Moves(c, [Rest EXCEPT !.at = "insert", !.email = e])
        <3> DEFINE here == [Rest EXCEPT !.at = "insert", !.email = e]
        <3> HIDE DEF e
        <3>1. here \in CallerState /\ here.at = "insert" /\ here.email = e
            BY <2>1, RestIsState DEF CallerState
        <3>2. Moves(c, here)
            BY <2>3
        <3> HIDE DEF here
        <3>3. /\ caller'[c] = here
              /\ \A d \in Caller : d # c => caller'[d] = caller[d]
              /\ caller' \in [Caller -> CallerState]
            BY <3>1, <3>2, MovesTo DEF AccInv
        <3>4. UNCHANGED <<users, homes, role, login>>
            BY <1>3 DEF GoogleLookup
        <3>5. AccTypeOK' /\ EmailOK' /\ LoginOK'
            BY <3>3, <3>4 DEF AccInv, AccTypeOK, EmailOK, LoginOK, CallerState
        <3>6. GrantOK'
            BY <2>1, <3>1, <3>3, <3>4 DEF AccInv, GrantOK
        <3>7. QED
            BY <3>5, <3>6 DEF AccInv
    <2>4. CASE Leaves(c)
        BY <1>3, <2>4, LeavesKeeps DEF GoogleLookup
    <2>5. QED
        BY <1>3, <2>2, <2>3, <2>4 DEF GoogleLookup, GoogleEmail
<1>4. ASSUME NEW c \in Caller, GoogleInsert(c) PROVE AccInv'
    <2>1. caller[c].email \in Spelling /\ Canonical(caller[c].email) = caller[c].email
        BY <1>4 DEF AccInv, AccTypeOK, GrantOK, GoogleInsert
    <2>2. CASE Named(caller[c].email) = {}
        BY <1>4, <2>1, <2>2, NewKeeps DEF GoogleInsert
    <2>3. CASE Named(caller[c].email) # {}
        BY <1>4, <2>1, <2>3, KnownKeeps DEF GoogleInsert, Conflict
    <2>4. QED
        BY <2>2, <2>3
<1>5. ASSUME NEW c \in Caller, CreateLoginSession(c) PROVE AccInv'
    <2> DEFINE new == [token |-> c, user |-> caller[c].user, email |-> caller[c].email]
    <2>1. /\ login' = login \cup {new}
          /\ UNCHANGED <<users, homes, role>>
          /\ Leaves(c)
          /\ caller[c].at = "grant"
        BY <1>5 DEF CreateLoginSession
    <2>2. /\ Canonical(caller[c].email) = caller[c].email /\ caller[c].email \in Spelling
          /\ \E u \in users : u.id = caller[c].user /\ u.email = caller[c].email
        BY <2>1 DEF AccInv, GrantOK, AccTypeOK
    <2>3. caller[c].user \in Caller
        BY <2>2 DEF AccInv, AccTypeOK, User
    <2>4. /\ new \in [token : Caller, user : Caller, email : Spelling]
          /\ new.user = caller[c].user /\ new.email = caller[c].email
        BY <2>2, <2>3
    <2> HIDE DEF new
    <2>5. /\ caller'[c].at = "done"
          /\ \A d \in Caller : d # c => caller'[d] = caller[d]
          /\ caller' \in [Caller -> CallerState]
        BY <2>1, LeavesTo DEF AccInv
    <2>6. AccTypeOK' /\ EmailOK'
        BY <2>1, <2>4, <2>5 DEF AccInv, AccTypeOK, EmailOK, CallerState
    <2>7. LoginOK'
        BY <2>1, <2>2, <2>4 DEF AccInv, LoginOK
    <2>8. GrantOK'
        BY <2>1, <2>5 DEF AccInv, GrantOK
    <2>9. QED
        BY <2>6, <2>7, <2>8 DEF AccInv
<1>6. ASSUME NEW c \in Caller, NEW l \in login, ResolveSession(c, l) PROVE AccInv'
    <2> DEFINE here == [Rest EXCEPT !.at = "member", !.user = l.user]
    <2>1. l.user \in Caller
        BY DEF AccInv, AccTypeOK
    <2>2. here \in CallerState /\ here.at = "member"
        BY <2>1, RestIsState DEF CallerState
    <2>3. Moves(c, here) /\ UNCHANGED <<users, homes, role, login>>
        BY <1>6 DEF ResolveSession
    <2> HIDE DEF here
    <2>4. /\ caller'[c] = here
          /\ \A d \in Caller : d # c => caller'[d] = caller[d]
          /\ caller' \in [Caller -> CallerState]
        BY <2>2, <2>3, MovesTo DEF AccInv
    <2>5. AccTypeOK' /\ EmailOK' /\ LoginOK'
        BY <2>3, <2>4 DEF AccInv, AccTypeOK, EmailOK, LoginOK, CallerState
    <2>6. GrantOK'
        BY <2>1, <2>2, <2>3, <2>4 DEF AccInv, GrantOK
    <2>7. QED
        BY <2>5, <2>6 DEF AccInv
<1>7. ASSUME NEW c \in Caller, ResolveMembership(c) PROVE AccInv'
    <2> DEFINE here == [caller[c] EXCEPT !.at = "handler"]
    <2>1. CASE Moves(c, here)
        <3>1. caller[c] \in CallerState
            BY DEF AccInv, AccTypeOK, CallerState
        <3>2. here \in CallerState /\ here.at = "handler"
            BY <3>1 DEF CallerState
        <3> HIDE DEF here
        <3>3. /\ caller'[c] = here
              /\ \A d \in Caller : d # c => caller'[d] = caller[d]
              /\ caller' \in [Caller -> CallerState]
            BY <2>1, <3>2, MovesTo DEF AccInv
        <3>4. UNCHANGED <<users, homes, role, login>>
            BY <1>7 DEF ResolveMembership
        <3>5. AccTypeOK' /\ EmailOK' /\ LoginOK'
            BY <3>3, <3>4 DEF AccInv, AccTypeOK, EmailOK, LoginOK, CallerState
        <3>6. GrantOK'
            BY <3>2, <3>3, <3>4 DEF AccInv, GrantOK
        <3>7. QED
            BY <3>5, <3>6 DEF AccInv
    <2>2. CASE Leaves(c)
        BY <1>7, <2>2, LeavesKeeps DEF ResolveMembership
    <2>3. QED
        BY <1>7, <2>1, <2>2 DEF ResolveMembership
<1>8. ASSUME NEW c \in Caller, Handle(c) \/ Drop(c) PROVE AccInv'
    BY <1>8, LeavesKeeps DEF Handle, Drop
<1>9. ASSUME NEW l \in login, LogoutOrExpire(l) PROVE AccInv'
    BY <1>9 DEF LogoutOrExpire, AccInv, AccTypeOK, EmailOK, GrantOK, LoginOK
<1>10. ASSUME NEW u \in users, NEW r \in Role \cup {"none"}, ChangeRole(u, r) PROVE AccInv'
    BY <1>10 DEF ChangeRole, AccInv, AccTypeOK, EmailOK, GrantOK, LoginOK
<1>11. CASE UNCHANGED accVars
    BY <1>11 DEF accVars, AccInv, AccTypeOK, EmailOK, GrantOK, LoginOK
<1>12. QED
    BY <1>1, <1>2, <1>3, <1>4, <1>5, <1>6, <1>7, <1>8, <1>9, <1>10, <1>11 DEF AccNext

-------------------------------------------------------------------------------
LEMMA AccInvariant == AccSpec => []AccInv
    BY AccInitial, AccStep, PTL DEF AccSpec

\* Every variable of Accounts keeps its type.
THEOREM AccTypeCorrect == AccSpec => []AccTypeOK
<1>1. AccInv => AccTypeOK
    BY DEF AccInv
<1>2. QED
    BY <1>1, AccInvariant, PTL

\* auth_store.py:97-137: one account per email however signups and first Google
\* logins race, and every login session belongs to the account of its email.
THEOREM OneEmailOneAccountThm == AccSpec => []OneEmailOneAccount
<1>1. AccInv => OneEmailOneAccount
    BY DEF AccInv, EmailOK, LoginOK, OneEmailOneAccount
<1>2. QED
    BY <1>1, AccInvariant, PTL
===============================================================================
