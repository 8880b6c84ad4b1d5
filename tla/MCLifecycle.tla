---------------------------- MODULE MCLifecycle ----------------------------
(* Instances of DepositLifecycle for TLC. *)
EXTENDS LifecycleClaims

App(type, pledged, settlement, reservation) ==
  [type |-> type, amount |-> 2, eid |-> "NOT_STARTED", pledged |-> pledged,
   settlement |-> settlement, reservation |-> reservation]

(* An application that arrives with the fields the negotiation fills in      *)
(* later: Create stores them as they come.                                   *)
Preset ==
  [initiatedBy |-> "TENANT", lastProposedBy |-> "TENANT",
   proposed |-> [refund |-> 2, retention |-> 0],
   agreed |-> [refund |-> 2, retention |-> 0], escalated |-> FALSE]

PlainApplication == {App("INSURANCE", FALSE, Nil, Nil)}

MCApplications ==
  PlainApplication \cup
  {App("CASH_EQUIVALENT", TRUE, Preset,
       [released |-> 0, reserved |-> 2, resolved |-> FALSE])}

OneSplit == {[refund |-> 2, retention |-> 0]}
TwoSplits == {[refund |-> 2, retention |-> 0], [refund |-> 1, retention |-> 1]}
OneHoldback == {[released |-> 1, reserved |-> 1]}
Bills == {[cost |-> 1, advance |-> 1], [cost |-> 2, advance |-> 1]}
WholeHoldback == {[released |-> 0, reserved |-> 2]}
SteepBills == Bills \cup {[cost |-> 4, advance |-> 1]}
=============================================================================
