---------------------------- MODULE PlanQueueMC ----------------------------
(* Instances of PlanQueue for TLC: which process a source belongs to, and   *)
(* which mishaps happen.                                                    *)
EXTENDS PlanQueue

CONSTANTS p1, p2, s1, s2, u1

\* s1 and u1 are sources of p1, s2 of the project.
ScopeDef == [s \in Sources |-> IF s = s2 THEN Processes ELSE {p1}]

Times(c, u, d, x) ==
    [m \in Mishap |-> CASE m = "crash" -> c [] m = "unreadable" -> u
                        [] m = "draft" -> d [] m = "purge" -> x]

OneMisread == Times(0, 1, 0, 0)
OneOfEach  == Times(1, 1, 1, 1)
=============================================================================
