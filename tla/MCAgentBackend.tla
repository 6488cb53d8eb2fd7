---------------------------- MODULE MCAgentBackend ----------------------------
(***************************************************************************)
(* AgentBackend for TLC: two configs with different tools and one that      *)
(* differs from the first in its prompt only; the first build, two more     *)
(* tasks, every fault.                                                      *)
(***************************************************************************)
EXTENDS AgentBackend

CONSTANTS b0, t1, t2, booking, faq, bookingReworded, toolsA, toolsB

MCTask == {b0, t1, t2}
MCConfig == {booking, faq, bookingReworded}
MCToolSet == {toolsA, toolsB}
MCToolsOf == [c \in MCConfig |-> IF c = faq THEN toolsB ELSE toolsA]
MCFaults == Fault
MCDockerFaults == {"docker"}
MCNoFaults == {}

\* t1 and t2 are interchangeable, so it is enough to see t1 begin first.
FirstThingsFirst == task[t1].at = "idle" => task'[t2].at = "idle"
===============================================================================
