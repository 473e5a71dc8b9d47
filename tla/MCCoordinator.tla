---------------------------- MODULE MCCoordinator ----------------------------
(***************************************************************************)
(* Model values for Coordinator: node 1 calls a capability, node 2 renders *)
(* its result when the task reports, node 3 generates text with one retry  *)
(* and a deadline.                                                         *)
(***************************************************************************)
EXTENDS Coordinator, TLC

CONSTANTS a1, a2

MCNodes == 1 .. 3
MCBefore == {<<1, 2>>}
MCRetryable == {2, 3}
MCRetryLimit == [n \in MCNodes |-> 1]
MCTaskNodes == {2}
MCLinked == {1, 2}
MCDeadline == [n \in MCNodes |-> IF n = 3 THEN 1 ELSE 9]
MCCallers == {a1, a2}
MCSymmetry == Permutations(MCCallers)
=============================================================================
