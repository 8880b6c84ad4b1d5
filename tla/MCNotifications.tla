-------------------------- MODULE MCNotifications --------------------------
(* Instances of Notifications for TLC, over the deposits of MCLifecycle. *)
EXTENDS MCLifecycle, Notifications

(* No trust account, and the deposit of 2 with interest. *)
MCTrusteeships ==
  {[balance |-> 0, interest |-> 0], [balance |-> 3, interest |-> 1]}

(* The applications that are made: those in cash come with a trust account.  *)
(* Neither the type nor the account ever changes, so the bound leaves out    *)
(* the creation of others and nothing else.                                  *)
CashInTrust ==
  \A id \in KnownIds :
    (deposits[id].type = "CASH_EQUIVALENT") = (trust[id].balance > 0)
=============================================================================
