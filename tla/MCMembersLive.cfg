SPECIFICATION FairSpec
CONSTANTS
    alice = alice
    bob = bob
    carol = carol
    i1 = i1
    admin = admin
    viewer = viewer
    User <- MCUser
    Role = {admin, viewer}
    Admin = admin
    NotMember = NotMember
    Invite <- MCInvite
    InviteFor <- MCInviteFor
    InviteRole <- MCInviteRole
    NoInvite = NoInvite
    Call = {t1, t2}
    NoCall = NoCall
    NoUser = NoUser
PROPERTY EveryCallEnds
CHECK_DEADLOCK FALSE
