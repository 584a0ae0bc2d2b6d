--------------------------- MODULE MCRunLifecycle ---------------------------
(***************************************************************************)
(* Instances of RunLifecycle for TLC: a first step with two attempts, and  *)
(* later steps with one.                                                   *)
(***************************************************************************)
EXTENDS RunLifecycle, TLC

MCMaxAttempts == [s \in Steps |-> IF s = 1 THEN 2 ELSE 1]

MCSymmetry == Permutations(Txns) \cup Permutations(Actors)
=============================================================================
