--------------------------- MODULE MCDocumentApi ---------------------------
(***************************************************************************)
(* An instance of DocumentApi for TLC: windows of two seconds, and as      *)
(* limits one request of an operator and two of a supervisor.              *)
(***************************************************************************)
EXTENDS DocumentApi, TLC

MCMaxRequests == [r \in Roles |-> IF r = "operator" THEN 1 ELSE 2]

MCSymmetry == Permutations(Requests) \cup Permutations(Procs)
=============================================================================
