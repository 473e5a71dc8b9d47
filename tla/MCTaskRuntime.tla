---------------------------- MODULE MCTaskRuntime ----------------------------
(***************************************************************************)
(* Model values for TaskRuntime: a provider that accepts, reports progress *)
(* twice and ends the task in two contradicting ways, once in time and     *)
(* once after the task expired.                                            *)
(***************************************************************************)
EXTENDS TaskRuntime, TLC

CONSTANTS ack, half, more, done, broken, w1, w2

MCEvents == {ack, half, more, done, broken}
MCKind == ack :> "accepted" @@ half :> "progress" @@ more :> "progress" @@
          done :> "succeeded" @@ broken :> "failed"
MCOccurredAt == ack :> 0 @@ half :> 1 @@ more :> 1 @@ done :> 1 @@ broken :> 2
MCProgress == [e \in MCEvents |-> IF e = half THEN 50 ELSE IF e = more THEN 70 ELSE 0]
MCWorkers == {w1, w2}
MCSymmetry == Permutations(MCWorkers)
=============================================================================
