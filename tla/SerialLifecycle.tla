-------------------------- MODULE SerialLifecycle --------------------------
(***************************************************************************)
(* DepositLifecycle seen as an implementation of DepositContract.  It is   *)
(* one when requests do not overlap (Requests has one element), and not    *)
(* when they do: see the runs that expect a violation.                     *)
(***************************************************************************)
EXTENDS DepositLifecycle

(* What a user sees of deposit d. *)
Terms(d) ==
  IF d = Nil THEN Nil
  ELSE [phase |-> d.state,
        mover |-> d.history[Len(d.history)].actor,
        proposer |-> SettlementOrBlank(d).lastProposedBy,
        proposal |-> SettlementOrBlank(d).proposed,
        agreed |-> SettlementOrBlank(d).agreed]

(* Nil differs from these records too. *)
ASSUME SerialAssumption ==
  Nil \notin [phase : LifecycleStates, mover : Actors,
              proposer : Party \cup {""}, proposal : Split, agreed : Split]

Contract ==
  INSTANCE DepositContract WITH
    NoSplit <- NoSplit, Transitions <- validTransitions, None <- Nil,
    contract <- [id \in Ids |-> Terms(deposits[id])]

(* Handled one at a time, the requests keep the promise of DepositContract:  *)
(* legal single steps, alternating proposals, acceptance by the other party  *)
(* of the proposal as it stands, finality of CLOSED.                         *)
KeepsContract == Contract!Spec

(* A shortfall proposal divides exactly the reservation it is about: the     *)
(* landlord never keeps more than was reserved, the tenant gets the rest.    *)
UtilityProposalDividesReservation ==
  \A id \in Ids : deposits[id] # Nil =>
    LET d == deposits[id]
        n == Len(d.history)
    IN  n > 1 /\ d.state = "SETTLE_PROPOSED"
          /\ d.history[n - 1].state = "PARTIALLY_RELEASED" =>
          /\ d.settlement.proposed.retention \in 0 .. d.reservation.reserved
          /\ d.settlement.proposed.refund =
               d.reservation.reserved - d.settlement.proposed.retention
=============================================================================
