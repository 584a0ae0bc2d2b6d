--------------------------- MODULE MCTaskPipeline ---------------------------
(***************************************************************************)
(* Instances of TaskPipeline for TLC.                                      *)
(***************************************************************************)
EXTENDS TaskPipeline, TLC

CONSTANTS a1, a2, f1, f2, Poison

(* Handlers of ordinary attempts end in any outcome; a poison attempt raises. *)
MCResults == [a \in Attempts |-> IF a \in Poison THEN {"raises"} ELSE Outcomes]

MCSymmetry == Permutations(Workers) \cup Permutations(Reapers)
=============================================================================
