----------------------------- MODULE MCCreateSaga -----------------------------
(***************************************************************************)
(* CreateSaga for TLC: two create calls that may share a session, one       *)
(* teardown, every fault.                                                   *)
(***************************************************************************)
EXTENDS CreateSaga

MCFaults == Fault
MCNoFaults == {}
===============================================================================
