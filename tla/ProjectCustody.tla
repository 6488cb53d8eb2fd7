---------------------------- MODULE ProjectCustody ----------------------------
(***************************************************************************)
(* What provisioning and teardown promise about TurnCall projects: who      *)
(* answers for each of them.  A project is born in the custody of the call  *)
(* that creates it (saga) and ends up in the registry, or reclaimed, or     *)
(* with nobody (orphan).  The registry gives a project up only to a         *)
(* teardown: reclaimed, or shelved when TurnCall did not take the delete.   *)
(* Nothing leaves reclaimed, and nothing in this program finds an orphan    *)
(* again.                                                                   *)
(***************************************************************************)
CONSTANT Project

VARIABLE custody

Custody == {"unborn", "saga", "registry", "shelved", "orphan", "reclaimed"}

Init == custody = [p \in Project |-> "unborn"]

Move(p, from, to) ==
    /\ custody[p] = from
    /\ custody' = [custody EXCEPT ![p] = to]

Provision(p) == Move(p, "unborn", "saga")

\* The project exists and the call that asked for it never learned its id.
BornOrphan(p) == Move(p, "unborn", "orphan")

Record(p) == Move(p, "saga", "registry")

Compensate(p) == Move(p, "saga", "reclaimed")

Shelve(p) == Move(p, "registry", "shelved")

Reclaim(p) == \E from \in {"registry", "shelved"} : Move(p, from, "reclaimed")

\* A failed call gives up its own project; a crash gives up those of all calls.
Abandon(P) ==
    /\ P # {} /\ \A p \in P : custody[p] = "saga"
    /\ custody' = [p \in Project |-> IF p \in P THEN "orphan" ELSE custody[p]]

Next ==
    \/ \E p \in Project : \/ Provision(p) \/ BornOrphan(p) \/ Record(p)
                          \/ Compensate(p) \/ Shelve(p) \/ Reclaim(p)
    \/ \E P \in SUBSET Project : Abandon(P)

Spec == Init /\ [][Next]_custody
===============================================================================
