--------------------------- MODULE MCClaimIntake ---------------------------
(***************************************************************************)
(* An instance of ClaimIntake for TLC: claims of two documents whose       *)
(* fields the handlers treat differently.                                  *)
(***************************************************************************)
EXTENDS ClaimIntake, TLC

Text(found) == [binary |-> FALSE, raw |-> [f \in found |-> TRUE], ocr |-> NoFields]

(* Nothing is found unless OCR works; a value of ill is badly formed. *)
Scan(found, ill) ==
  [binary |-> TRUE, raw |-> NoFields, ocr |-> [f \in found |-> f \notin ill]]

Filed(first, second) ==
  [d \in Docs |-> IF d = CHOOSE x \in Docs : TRUE THEN first ELSE second]

MCClaims ==
  LET full == Text({"claim_number", "policy_number", "claimant_name"})
  IN  {Filed(full, full),                                        \* acceptable
       Filed(full, Scan({"policy_number"}, {"policy_number"})),  \* it depends
       Filed(Text({"claim_number"}), Scan({"policy_number"}, {}))}  \* never acceptable

MCSymmetry == Permutations(Txns)
=============================================================================
