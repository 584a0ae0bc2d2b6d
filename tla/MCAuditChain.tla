---------------------------- MODULE MCAuditChain ----------------------------
(***************************************************************************)
(* Instances of AuditChain for TLC: transaction t1 runs on the first host, *)
(* the others on the last one.  The actor and the event type of the two    *)
(* kinds of events join to the same bytes.                                 *)
(***************************************************************************)
EXTENDS AuditChain

CONSTANTS t1, t2, h1, h2

MCHostOf == [t \in Txns |-> IF t = t1 \/ h2 \notin Hosts THEN h1 ELSE h2]

MCBytes == {"a", "b", "c"}
MCStepIds == {"s1", "s2"}
MCKinds ==
  {[actor |-> <<"a">>, event_type |-> <<"b", "b">>, payload |-> <<"c">>, step_id |-> "s1"],
   [actor |-> <<"a", "b">>, event_type |-> <<"b">>, payload |-> <<"c", "c">>, step_id |-> "s2"]}
=============================================================================
