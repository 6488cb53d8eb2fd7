---------------------------- MODULE MCPhoneBinding ----------------------------
(***************************************************************************)
(* PhoneBinding for TLC: two numbers, four requests and one agent; the      *)
(* webhook project is the other project.                                    *)
(***************************************************************************)
EXTENDS PhoneBinding, TLC

CONSTANTS r1, r2, r3, r4, n1, n2, a1

MCRequests == {r1, r2, r3, r4}
MCNumbers == {n1, n2}
MCAgents == {a1}
\* Requests and numbers are interchangeable.
MCSymmetry == Permutations(MCRequests) \cup Permutations(MCNumbers)
===============================================================================
