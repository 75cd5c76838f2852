------------------------ MODULE MCGovernedExecution ------------------------
(* Small instances of GovernedExecution. *)
EXTENDS GovernedExecution, TLC

CONSTANTS a1, a2, r1, r2

\* Two Actions of one Run that ask for different items.
OneRun == [a \in Actions |-> r1]

\* Payload 1 and payload 2 differ; their items differ, or not.
DifferentShapes == [a \in Actions |-> IF a = a1 THEN 1 ELSE 2]

SameShapes == [a \in Actions |-> 1]

DifferentItems == [sh \in Shapes |-> sh]

SameItems == [sh \in Shapes |-> 1]

\* Requests are interchangeable; document names are ordered.
InstanceSymmetry == Permutations(Requests)
=============================================================================
