---------------------------- MODULE MCEidWebhook ----------------------------
(* Constants for model checking EidWebhook. *)
EXTENDS EidWebhook

(* A plain deposit, as a landlord's application would create it. *)
MCApplication ==
  {[type |-> "CASH_EQUIVALENT", amount |-> 3, eid |-> "NOT_STARTED",
    pledged |-> FALSE, settlement |-> Nil, reservation |-> Nil]}
=============================================================================
