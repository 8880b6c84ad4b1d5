--------------------------- MODULE MCCredentials ---------------------------
(* Instances of CredentialLifecycle for TLC. *)
EXTENDS CredentialLifecycle

MCApplication ==
  {[type |-> "INSURANCE", amount |-> 2, eid |-> "NOT_STARTED",
    pledged |-> FALSE, settlement |-> Nil, reservation |-> Nil]}

MCSplits == {[refund |-> 1, retention |-> 1]}
MCHoldbacks == {[released |-> 1, reserved |-> 1]}
MCBills == {[cost |-> 1, advance |-> 1], [cost |-> 2, advance |-> 1]}
=============================================================================
