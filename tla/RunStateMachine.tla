-------------------------- MODULE RunStateMachine --------------------------
(***************************************************************************)
(* The WorkflowRun of the domain model: VALID_TRANSITIONS and              *)
(* transition_to.  A run that does not exist yet is pending, version 0.    *)
(***************************************************************************)
EXTENDS Naturals

VARIABLES state, version

TERMINAL_STATES == {"completed", "failed", "cancelled"}

States == {"pending", "running", "awaiting_human"} \cup TERMINAL_STATES

VALID_TRANSITIONS ==
  [s \in States |->
     CASE s = "pending" -> {"running"}
       [] s = "running" -> {"awaiting_human", "completed", "failed", "cancelled"}
       [] s = "awaiting_human" -> {"running", "cancelled"}
       [] s \in TERMINAL_STATES -> {}]

Init == state = "pending" /\ version = 0

(* transition_to: the table is consulted, the version counts the transitions. *)
transition_to(target) ==
  /\ target \in VALID_TRANSITIONS[state]
  /\ state' = target
  /\ version' = version + 1

Next == \E target \in States : transition_to(target)

Spec == Init /\ [][Next]_<<state, version>>
=============================================================================
