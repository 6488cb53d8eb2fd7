SPECIFICATION Spec
CONSTANTS
    alice = alice
    bob = bob
    carol = carol
    i1 = i1
    admin = admin
    viewer = viewer
    User <- MCUser
    Role = {admin, viewer}
    Admin = admin
    NotMember = NotMember
    Invite <- MCInvite
    InviteFor <- MCInviteFor
    InviteRole <- MCInviteRole
    NoInvite = NoInvite
    Call = {t1, t2, t3}
    NoCall = NoCall
    NoUser = NoUser
SYMMETRY MCSymmetry
INVARIANTS
    TypeOK
    AdminRemains
    InviteJoinsOnce
PROPERTIES
    RefinesRoster
CHECK_DEADLOCK FALSE
