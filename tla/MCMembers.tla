------------------------------- MODULE MCMembers -------------------------------
(***************************************************************************)
(* Members for TLC: three users, overlapping calls, one invite that grants  *)
(* admin to one of them, two roles (editor and viewer weigh the same here). *)
(***************************************************************************)
EXTENDS Members, TLC

CONSTANTS alice, bob, carol, i1, admin, viewer

MCUser == {alice, bob, carol}
MCInvite == {i1}
MCInviteFor == [i \in MCInvite |-> carol]
MCInviteRole == [i \in MCInvite |-> admin]

\* Alice and Bob differ by their role only; so do the calls by what they do.
MCSymmetry == Permutations(Call) \cup Permutations({alice, bob})
===============================================================================
