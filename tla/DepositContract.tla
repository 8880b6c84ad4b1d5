-------------------------- MODULE DepositContract --------------------------
(***************************************************************************)
(* What the deposit API promises its users, without requests or storage: a *)
(* deposit moves along the transition table one step at a time, the        *)
(* parties alternate in proposing how to divide the money, a proposal is   *)
(* accepted by the party that did not make it and exactly as it stands,    *)
(* and a CLOSED deposit never changes again.                               *)
(*                                                                         *)
(* DepositLifecycle implements this specification as long as requests do   *)
(* not overlap.                                                            *)
(***************************************************************************)
EXTENDS Integers

CONSTANTS
  Ids,          \* deposits
  Party,        \* the two sides of the negotiation
  Split,        \* the ways to divide the money
  NoSplit,      \* nothing agreed
  Transitions,  \* legal pairs of phases
  None          \* a deposit that does not exist yet

(* contract[id] is None or a record: the phase of the deposit, the mover     *)
(* (who made the last step), the proposal on the table and its proposer,     *)
(* and the division agreed on or imposed.                                    *)
VARIABLE contract

Init == contract = [id \in Ids |-> None]

(* A step takes the terms t of a deposit to the terms u. *)

Legal(t, u) == <<t.phase, u.phase>> \in Transitions

SameProposal(t, u) == u.proposer = t.proposer /\ u.proposal = t.proposal

Open(u) == u.phase = "REQUESTED" /\ u.mover = "TENANT"

(* Any step that does not touch the negotiation. *)
Advance(t, u) ==
  /\ Legal(t, u)
  /\ u.phase \notin {"SETTLE_PROPOSED", "CLOSED"}
  /\ SameProposal(t, u) /\ u.agreed = t.agreed

(* The wallet shows its credential: nothing moves. *)
Present(t, u) ==
  /\ t.phase = "PLEDGED" /\ u.phase = "PLEDGED"
  /\ u.mover = "WALLET"
  /\ SameProposal(t, u) /\ u.agreed = t.agreed

(* A first proposal, or the other party's answer to the one on the table. *)
Propose(t, u) ==
  /\ u.phase = "SETTLE_PROPOSED"
  /\ \/ Legal(t, u)
     \/ t.phase = "SETTLE_PROPOSED" /\ u.proposer # t.proposer
  /\ u.proposer \in Party /\ u.mover = u.proposer
  /\ u.agreed = NoSplit

Accept(t, u) ==
  /\ t.phase = "SETTLE_PROPOSED" /\ u.phase = "CLOSED"
  /\ u.mover \in Party \ {t.proposer}
  /\ SameProposal(t, u) /\ u.agreed = t.proposal

(* An authority decides. *)
Impose(t, u) ==
  /\ Legal(t, u) /\ u.phase = "CLOSED"
  /\ u.mover = "EXTERNAL"
  /\ SameProposal(t, u) /\ u.agreed \in Split

(* The landlord returns the whole reservation. *)
Return(t, u) ==
  /\ t.phase = "PARTIALLY_RELEASED" /\ u.phase = "CLOSED"
  /\ u.mover = "LANDLORD"
  /\ SameProposal(t, u) /\ u.agreed = t.agreed

Step(t, u) ==
  \/ Advance(t, u)
  \/ Present(t, u)
  \/ Propose(t, u)
  \/ Accept(t, u)
  \/ Impose(t, u)
  \/ Return(t, u)

(* One deposit takes a step, the others stay as they are. *)
Next ==
  \E id \in Ids :
    /\ contract'[id] # None
    /\ \/ contract[id] = None /\ Open(contract'[id])
       \/ contract[id] # None /\ Step(contract[id], contract'[id])
    /\ \A other \in Ids \ {id} : contract'[other] = contract[other]

Spec == Init /\ [][Next]_contract
=============================================================================
