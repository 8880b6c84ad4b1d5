-------------------------- MODULE DepositLifecycle --------------------------
(***************************************************************************)
(* The deposit API of the XMiete server: the lifecycle handlers of         *)
(* server/internal/api over the PostgreSQL repository.                     *)
(*                                                                         *)
(* Every handler runs in a goroutine of its own and does the same three    *)
(* things.  It reads the deposit without a lock (GetByID) and validates    *)
(* the request against that copy; it then calls UpdateState, a transaction *)
(* that locks the row, applies the handler's patch to what the row holds   *)
(* NOW and writes the new state without looking at the current one; last   *)
(* come the effects that follow the commit.  Each of the three is a step,  *)
(* and steps of different requests interleave.                             *)
(*                                                                         *)
(* Requests that are answered with an error before UpdateState change      *)
(* nothing and are not steps.  Names, dates, claim items, references and   *)
(* wallet metadata are payload and left out.                               *)
(***************************************************************************)
EXTENDS Integers, Sequences

CONSTANTS
  Ids,           \* deposit ids, handed out by Create
  Requests,      \* slots for requests in flight
  Applications,  \* what a client may POST to /deposits
  Splits,        \* refund/retention pairs a party or an authority may send
  Holdbacks,     \* released/reserved pairs a landlord may send
  UtilityBills,  \* cost/advance pairs a landlord may send
  MaxHistory,    \* bound on the length of a deposit's history
  Nil            \* Go's nil, and an absent row

LifecycleStates ==
  {"REQUESTED", "IDENTIFIED", "FUNDED", "PLEDGED", "RELEASED", "CLAIMED",
   "SETTLE_PROPOSED", "DISPUTED", "PARTIALLY_RELEASED", "CLOSED"}

DepositTypes == {"CASH_EQUIVALENT", "BANK_GUARANTEE", "INSURANCE"}

EIDStatus == {"NOT_STARTED", "IN_PROGRESS", "VERIFIED", "FAILED"}

Party == {"LANDLORD", "TENANT"}

Actors == Party \cup {"IDENTITY_PROVIDER", "BANK", "EXTERNAL", "WALLET"}

(* A way to divide the money: what the tenant gets, what the landlord keeps. *)
Split == [refund : Int, retention : Int]

(* The zero value of the agreed amounts. *)
NoSplit == [refund |-> 0, retention |-> 0]

(* "" is the zero value of a party name, in a Settlement made by Dispute. *)
Settlement ==
  [initiatedBy : Party \cup {""}, lastProposedBy : Party \cup {""},
   proposed : Split, agreed : Split, escalated : BOOLEAN]

(* &models.Settlement{} *)
BlankSettlement ==
  [initiatedBy |-> "", lastProposedBy |-> "", proposed |-> NoSplit,
   agreed |-> NoSplit, escalated |-> FALSE]

UtilityReservation == [released : Int, reserved : Int, resolved : BOOLEAN]

HistoryEntry == [state : LifecycleStates, actor : Actors]

(* The part of a deposit a client supplies and Create stores unchanged.      *)
(* pledged is Pledge != nil && Pledge.IsConfirmedByBank.                     *)
Application ==
  [type : DepositTypes, amount : Int, eid : EIDStatus, pledged : BOOLEAN,
   settlement : Settlement \cup {Nil},
   reservation : UtilityReservation \cup {Nil}]

Deposit ==
  [type : DepositTypes, amount : Int, eid : EIDStatus, pledged : BOOLEAN,
   settlement : Settlement \cup {Nil},
   reservation : UtilityReservation \cup {Nil},
   state : LifecycleStates, history : Seq(HistoryEntry)]

Operations ==
  {"CreateDeposit", "UpdateIdentity", "Pledge", "Release", "Claim", "Settle",
   "SettleAccept", "Dispute", "DisputeResolve", "PartialRelease",
   "UtilityClose", "UtilityPropose", "ReceiveVpResponse"}

(***************************************************************************)
(* What a handler keeps between its read and its last effect: the state it *)
(* saw, and the state, actor and values its call of UpdateState closes     *)
(* over.  settlement is the one the handler built (Settle, UtilitySettle)  *)
(* or the one it read and checked (SettleAccept).                          *)
(***************************************************************************)
Call ==
  [pc : {"insert", "update", "revoke", "delete", "notify"}, op : Operations,
   id : Ids, seen : LifecycleStates, to : LifecycleStates, actor : Actors,
   settlement : Settlement \cup {Nil},
   reservation : UtilityReservation \cup {Nil}, agreed : Split]

(***************************************************************************)
(* Nil differs from every record, as a nil pointer does from a pointer;    *)
(* the JSON a client sends has the fields of its request type.             *)
(***************************************************************************)
ASSUME LifecycleAssumption ==
  /\ Nil \notin Deposit
  /\ Nil \notin Call
  /\ Nil \notin Settlement
  /\ Nil \notin UtilityReservation
  /\ Applications \subseteq Application
  /\ Splits \subseteq Split
  /\ Holdbacks \subseteq [released : Int, reserved : Int]
  /\ UtilityBills \subseteq [cost : Int, advance : Int]
  /\ MaxHistory \in Nat

VARIABLES
  deposits,  \* table deposits: the JSON document of each row, Nil if absent
  audit,     \* table deposit_history: the rows of each deposit, in order
  calls      \* the request each slot serves, Nil when it serves none

vars == <<deposits, audit, calls>>

-----------------------------------------------------------------------------
(* package statemachine *)

validTransitions ==
  {<<"REQUESTED", "IDENTIFIED">>,
   <<"IDENTIFIED", "FUNDED">>, <<"IDENTIFIED", "PLEDGED">>,
   <<"FUNDED", "PLEDGED">>, <<"FUNDED", "SETTLE_PROPOSED">>,
   <<"PLEDGED", "RELEASED">>, <<"PLEDGED", "CLAIMED">>,
   <<"PLEDGED", "SETTLE_PROPOSED">>, <<"PLEDGED", "PARTIALLY_RELEASED">>,
   <<"CLAIMED", "RELEASED">>,
   <<"RELEASED", "CLOSED">>,
   <<"PARTIALLY_RELEASED", "SETTLE_PROPOSED">>,
   <<"PARTIALLY_RELEASED", "CLOSED">>,
   <<"SETTLE_PROPOSED", "CLOSED">>, <<"SETTLE_PROPOSED", "DISPUTED">>,
   <<"DISPUTED", "CLOSED">>}

CanTransition(from, to) == <<from, to>> \in validTransitions

(* The state an eID outcome leads to; only VERIFIED leads anywhere. *)
StateForIdentityUpdate(eid) == IF eid = "VERIFIED" THEN {"IDENTIFIED"} ELSE {}

-----------------------------------------------------------------------------
(* package db *)

Init ==
  /\ deposits = [id \in Ids |-> Nil]
  /\ audit = [id \in Ids |-> << >>]
  /\ calls = [r \in Requests |-> Nil]

(* The audit rows exist once Create has returned, and only then does a      *)
(* client learn the id: nobody can name a deposit before.                   *)
KnownIds == {id \in Ids : audit[id] # << >>}

HasRoom(id) == Len(deposits[id].history) < MaxHistory

(* A request that passed validation is about to call UpdateState. *)
Request(id, op, to, actor) ==
  [pc |-> "update", op |-> op, id |-> id, seen |-> deposits[id].state,
   to |-> to, actor |-> actor, settlement |-> Nil, reservation |-> Nil,
   agreed |-> NoSplit]

Submit(r, c) ==
  /\ calls[r] = Nil
  /\ HasRoom(c.id)
  /\ calls' = [calls EXCEPT ![r] = c]
  /\ UNCHANGED <<deposits, audit>>

(***************************************************************************)
(* PostgresRepo.Create is two statements and no transaction: the row is    *)
(* there before its first audit row, and stays if the second INSERT fails. *)
(***************************************************************************)
(* Mutant: the state of the first entry is left at its zero value. *)
FirstEntryWithoutState == [state |-> "", actor |-> "TENANT"]

FirstEntry == [state |-> "REQUESTED", actor |-> "TENANT"]

CreateDeposit(r) ==
  \E id \in Ids, a \in Applications :
    /\ calls[r] = Nil
    /\ deposits[id] = Nil
    /\ a.amount > 0
    /\ deposits' = [deposits EXCEPT ![id] =
         [type |-> a.type, amount |-> a.amount, eid |-> a.eid,
          pledged |-> a.pledged, settlement |-> a.settlement,
          reservation |-> a.reservation,
          state |-> "REQUESTED", history |-> <<FirstEntry>>]]
    /\ calls' = [calls EXCEPT ![r] =
         [pc |-> "insert", op |-> "CreateDeposit", id |-> id,
          seen |-> "REQUESTED", to |-> "REQUESTED", actor |-> "TENANT",
          settlement |-> Nil, reservation |-> Nil, agreed |-> NoSplit]]
    /\ UNCHANGED audit

InsertHistory(r) ==
  /\ calls[r] # Nil
  /\ calls[r].pc = "insert"
  /\ audit' = [audit EXCEPT ![calls[r].id] = <<FirstEntry>>]
  /\ calls' = [calls EXCEPT ![r] = Nil]
  /\ UNCHANGED deposits

(***************************************************************************)
(* The patch each handler passes to UpdateState, applied to the locked row *)
(* d, which may differ from the copy the handler validated.                *)
(***************************************************************************)
SetIdentity(d) == [d EXCEPT !.eid = "VERIFIED"]

SetPledge(d) == [d EXCEPT !.pledged = TRUE]

ReplaceSettlement(c, d) == [d EXCEPT !.settlement = c.settlement]

LockProposal(d) == [d EXCEPT !.settlement.agreed = d.settlement.proposed]

SettlementOrBlank(d) ==
  IF d.settlement = Nil THEN BlankSettlement ELSE d.settlement

Escalate(d) ==
  [d EXCEPT !.settlement = [SettlementOrBlank(d) EXCEPT !.escalated = TRUE]]

RecordResolution(c, d) ==
  [d EXCEPT !.settlement = [SettlementOrBlank(d) EXCEPT !.agreed = c.agreed]]

SetReservation(c, d) == [d EXCEPT !.reservation = c.reservation]

ResolveReservation(d) == [d EXCEPT !.reservation.resolved = TRUE]

ProposeShortfall(c, d) ==
  [d EXCEPT !.reservation.resolved = TRUE, !.settlement = c.settlement]

Patch(c, d) ==
  CASE c.op = "UpdateIdentity" -> SetIdentity(d)
    [] c.op = "Pledge" -> SetPledge(d)
    [] c.op = "Settle" -> ReplaceSettlement(c, d)
    [] c.op = "SettleAccept" -> LockProposal(d)
    [] c.op = "Dispute" -> Escalate(d)
    [] c.op = "DisputeResolve" -> RecordResolution(c, d)
    [] c.op = "PartialRelease" -> SetReservation(c, d)
    [] c.op = "UtilityClose" -> ResolveReservation(d)
    [] c.op = "UtilityPropose" -> ProposeShortfall(c, d)
    [] OTHER -> d

(* What the handler still has to do once UpdateState has committed. *)
AfterUpdate(op) ==
  CASE op \in {"Release", "SettleAccept", "DisputeResolve"} -> "revoke"
    [] op = "ReceiveVpResponse" -> "delete"
    [] OTHER -> "notify"

(* The state UpdateState writes and the history entry that goes with it. *)
Written(c, d) ==
  LET p == Patch(c, d)
  IN  [p EXCEPT !.state = c.to,
                !.history = Append(p.history,
                                   [state |-> c.to, actor |-> c.actor])]

(* Mutant: the INSERT into deposit_history is missing. *)
UpdateStateWithoutAudit(r) ==
  LET c == calls[r]
  IN  /\ c # Nil
      /\ c.pc = "update"
      /\ HasRoom(c.id)
      /\ deposits' = [deposits EXCEPT ![c.id] = Written(c, deposits[c.id])]
      /\ calls' = [calls EXCEPT ![r].pc = AfterUpdate(c.op)]
      /\ UNCHANGED audit

UpdateState(r) ==
  LET c == calls[r]
  IN  /\ c # Nil
      /\ c.pc = "update"
      /\ HasRoom(c.id)
      /\ deposits' = [deposits EXCEPT ![c.id] = Written(c, deposits[c.id])]
      /\ audit' = [audit EXCEPT ![c.id] =
                     Append(audit[c.id], [state |-> c.to, actor |-> c.actor])]
      /\ calls' = [calls EXCEPT ![r].pc = AfterUpdate(c.op)]

-----------------------------------------------------------------------------
(* package api: the lifecycle handlers, up to their call of UpdateState *)

UpdateIdentity(r) ==
  \E id \in KnownIds, eid \in EIDStatus :
    \E next \in StateForIdentityUpdate(eid) :
      /\ CanTransition(deposits[id].state, next)
      /\ Submit(r, Request(id, "UpdateIdentity", next, "IDENTITY_PROVIDER"))

(* Mutant: the bank's confirmation is accepted whatever the state. *)
PledgeWithoutTransition(r) ==
  \E id \in KnownIds : Submit(r, Request(id, "Pledge", "PLEDGED", "BANK"))

Pledge(r) ==
  \E id \in KnownIds :
    /\ CanTransition(deposits[id].state, "PLEDGED")
    /\ Submit(r, Request(id, "Pledge", "PLEDGED", "BANK"))

Release(r) ==
  \E id \in KnownIds :
    /\ CanTransition(deposits[id].state, "RELEASED")
    /\ Submit(r, Request(id, "Release", "RELEASED", "LANDLORD"))

(* Mutant: a claim is accepted whatever the state. *)
ClaimWithoutTransition(r) ==
  \E id \in KnownIds : Submit(r, Request(id, "Claim", "CLAIMED", "LANDLORD"))

Claim(r) ==
  \E id \in KnownIds :
    /\ CanTransition(deposits[id].state, "CLAIMED")
    /\ Submit(r, Request(id, "Claim", "CLAIMED", "LANDLORD"))

(* Mutant: a counter-proposal keeps the opener as last proposer too. *)
ProposalByOpener(opener, by, split) ==
  [BlankSettlement EXCEPT !.initiatedBy = opener, !.lastProposedBy = opener,
                          !.proposed = split]

(* A proposal replaces the whole Settlement; a counter-proposal keeps only   *)
(* who opened the negotiation, from the copy the handler read.               *)
Proposal(opener, by, split) ==
  [BlankSettlement EXCEPT !.initiatedBy = opener, !.lastProposedBy = by,
                          !.proposed = split]

Settle(r) ==
  \E id \in KnownIds, by \in Party, split \in Splits :
    LET d == deposits[id]
        first == d.state \in {"PLEDGED", "FUNDED"}
        counter == d.state = "SETTLE_PROPOSED"
    IN  /\ first \/ counter
        /\ first => CanTransition(d.state, "SETTLE_PROPOSED")
        /\ counter => d.settlement = Nil \/ d.settlement.lastProposedBy # by
        /\ Submit(r, [Request(id, "Settle", "SETTLE_PROPOSED", by)
                       EXCEPT !.settlement =
             Proposal(IF first THEN by ELSE d.settlement.initiatedBy,
                      by, split)])

(* Mutant: the check "cannot accept your own proposal" is missing. *)
SettleAcceptOwn(r) ==
  \E id \in KnownIds, by \in Party :
    /\ deposits[id].state = "SETTLE_PROPOSED"
    /\ deposits[id].settlement # Nil
    /\ Submit(r, [Request(id, "SettleAccept", "CLOSED", by)
                   EXCEPT !.settlement = deposits[id].settlement])

SettleAccept(r) ==
  \E id \in KnownIds, by \in Party :
    LET d == deposits[id]
    IN  /\ d.state = "SETTLE_PROPOSED"
        /\ d.settlement # Nil
        /\ d.settlement.lastProposedBy # by
        /\ Submit(r, [Request(id, "SettleAccept", "CLOSED", by)
                       EXCEPT !.settlement = d.settlement])

Dispute(r) ==
  \E id \in KnownIds, by \in Party :
    /\ CanTransition(deposits[id].state, "DISPUTED")
    /\ Submit(r, Request(id, "Dispute", "DISPUTED", by))

DisputeResolve(r) ==
  \E id \in KnownIds, split \in Splits :
    /\ split.refund >= 0 /\ split.retention >= 0
    /\ CanTransition(deposits[id].state, "CLOSED")
    /\ Submit(r, [Request(id, "DisputeResolve", "CLOSED", "EXTERNAL")
                   EXCEPT !.agreed = split])

(* Mutant: the patch that stores the reservation is missing. *)
PartialReleaseWithoutReservation(r) ==
  \E id \in KnownIds, h \in Holdbacks :
    /\ h.released >= 0 /\ h.reserved > 0
    /\ CanTransition(deposits[id].state, "PARTIALLY_RELEASED")
    /\ Submit(r, Request(id, "PartialRelease", "PARTIALLY_RELEASED",
                          "LANDLORD"))

PartialRelease(r) ==
  \E id \in KnownIds, h \in Holdbacks :
    /\ h.released >= 0 /\ h.reserved > 0
    /\ CanTransition(deposits[id].state, "PARTIALLY_RELEASED")
    /\ Submit(r, [Request(id, "PartialRelease", "PARTIALLY_RELEASED",
                           "LANDLORD")
                   EXCEPT !.reservation =
           [released |-> h.released, reserved |-> h.reserved,
            resolved |-> FALSE]])

(* Mutant: the retention is not capped by the reservation. *)
RetentionUncapped(shortfall, reserved) == shortfall

(* What the landlord keeps of the reservation for a shortfall. *)
Retention(shortfall, reserved) ==
  IF shortfall > reserved THEN reserved ELSE shortfall

UtilitySettle(r) ==
  \E id \in KnownIds, bill \in UtilityBills :
    LET d == deposits[id]
        shortfall == bill.cost - bill.advance
        kept == Retention(shortfall, d.reservation.reserved)
    IN  /\ bill.cost >= 0 /\ bill.advance >= 0
        /\ d.state = "PARTIALLY_RELEASED"
        /\ d.reservation # Nil
        /\ \/ /\ shortfall <= 0
              /\ Submit(r, Request(id, "UtilityClose", "CLOSED", "LANDLORD"))
           \/ /\ shortfall > 0
              /\ Submit(r, [Request(id, "UtilityPropose", "SETTLE_PROPOSED",
                                     "LANDLORD")
                             EXCEPT !.settlement =
                   Proposal("LANDLORD", "LANDLORD",
                            [refund |-> d.reservation.reserved - kept,
                             retention |-> kept])])

(* Mutant: the check that the deposit is PLEDGED is missing. *)
ReceiveVpResponseInAnyState(r) ==
  \E id \in KnownIds :
    Submit(r, Request(id, "ReceiveVpResponse", deposits[id].state, "WALLET"))

(* The presentation itself is checked against a VP session; here any        *)
(* presentation may arrive.  The handler writes back the state it read.     *)
ReceiveVpResponse(r) ==
  \E id \in KnownIds :
    /\ deposits[id].state = "PLEDGED"
    /\ Submit(r, Request(id, "ReceiveVpResponse", deposits[id].state,
                          "WALLET"))

-----------------------------------------------------------------------------
(* package api: what follows the commit.  The effects are on other           *)
(* components; here a step only says when they happen.                       *)

Proceed(r, from, to) ==
  /\ calls[r] # Nil
  /\ calls[r].pc = from
  /\ calls' = [calls EXCEPT ![r].pc = to]
  /\ UNCHANGED <<deposits, audit>>

(* s.sessions.RevokeByDepositID, whose error is only logged *)
RevokeCredentials(r) == Proceed(r, "revoke", "notify")

(* s.vpSessions.Delete *)
DeleteVpSession(r) == Proceed(r, "delete", "notify")

(* fireWebhook and the mails start goroutines; the client gets its answer. *)
Notify(r) ==
  /\ calls[r] # Nil
  /\ calls[r].pc = "notify"
  /\ calls' = [calls EXCEPT ![r] = Nil]
  /\ UNCHANGED <<deposits, audit>>

(* The request ends early: a statement fails and the client gets a 500, or   *)
(* the server stops.  An open transaction is rolled back; what is committed  *)
(* stays and the effects that should have followed are lost.                 *)
Fail(r) ==
  /\ calls[r] # Nil
  /\ calls' = [calls EXCEPT ![r] = Nil]
  /\ UNCHANGED <<deposits, audit>>

Handle(r) ==
  \/ CreateDeposit(r)
  \/ UpdateIdentity(r)
  \/ Pledge(r)
  \/ Release(r)
  \/ Claim(r)
  \/ Settle(r)
  \/ SettleAccept(r)
  \/ Dispute(r)
  \/ DisputeResolve(r)
  \/ PartialRelease(r)
  \/ UtilitySettle(r)
  \/ ReceiveVpResponse(r)

Continue(r) ==
  \/ InsertHistory(r)
  \/ UpdateState(r)
  \/ RevokeCredentials(r)
  \/ DeleteVpSession(r)
  \/ Notify(r)
  \/ Fail(r)

Next == \E r \in Requests : Handle(r) \/ Continue(r)

Spec == Init /\ [][Next]_vars

-----------------------------------------------------------------------------
(* Properties *)

History(id) == deposits[id].history

InFlight(id) ==
  {r \in Requests : calls[r] # Nil /\ calls[r].id = id /\ calls[r].pc = "update"}

(* Every variable has its type. *)
TypeOK ==
  /\ deposits \in [Ids -> Deposit \cup {Nil}]
  /\ audit \in [Ids -> Seq(HistoryEntry)]
  /\ calls \in [Requests -> Call \cup {Nil}]

(* A counter-proposal and a wallet presentation write the state they read. *)
Follows(from, to) ==
  \/ CanTransition(from, to)
  \/ from = to /\ to \in {"SETTLE_PROPOSED", "PLEDGED"}

(* Whatever requests overlap, each state in a deposit's history was reached  *)
(* by a legal transition from a state the deposit really was in before:      *)
(* UpdateState does not re-check, but no handler calls it unjustified.       *)
HistoryJustified ==
  \A id \in Ids : deposits[id] # Nil =>
    /\ Len(History(id)) > 0
    /\ History(id)[1].state = "REQUESTED"
    /\ \A k \in 2 .. Len(History(id)) :
         \E j \in 1 .. (k - 1) :
           Follows(History(id)[j].state, History(id)[k].state)

(* The document, its history and the audit table never part: the state is    *)
(* the last entry's, and the audit rows are the history, except that a       *)
(* deposit whose Create stopped between its INSERTs has no rows at all.      *)
AuditMatchesHistory ==
  \A id \in Ids : deposits[id] # Nil =>
    /\ History(id) # << >>
    /\ deposits[id].state = History(id)[Len(History(id))].state
    /\ audit[id] # << >> => audit[id] = History(id)
    /\ audit[id] = << >> => Len(History(id)) = 1

(* No patch follows a nil pointer, although each was checked on an older     *)
(* copy: an accepted settlement and a settled reservation are still there    *)
(* when the row is locked, and a counter-proposal finds its predecessor.     *)
NoNilDereference ==
  /\ \A r \in Requests :
       calls[r] # Nil /\ calls[r].pc = "update" =>
         /\ calls[r].op = "SettleAccept" =>
              deposits[calls[r].id].settlement # Nil
         /\ calls[r].op \in {"UtilityClose", "UtilityPropose"} =>
              deposits[calls[r].id].reservation # Nil
  /\ \A id \in Ids : deposits[id] # Nil =>
       /\ deposits[id].state = "SETTLE_PROPOSED" =>
            deposits[id].settlement # Nil
       /\ deposits[id].state = "PARTIALLY_RELEASED" =>
            deposits[id].reservation # Nil

(* States in which money is pledged, moving or gone. *)
Secured ==
  LifecycleStates \ {"REQUESTED", "IDENTIFIED", "FUNDED"}

(* A deposit that ever was PLEDGED or further had a bank-confirmed pledge    *)
(* and a verified tenant first, and keeps both, however requests overlap.    *)
PledgeBacksPayout ==
  \A id \in Ids : deposits[id] # Nil =>
    ((\E k \in 1 .. Len(History(id)) : History(id)[k].state \in Secured)
      => deposits[id].pledged /\ deposits[id].eid = "VERIFIED")

(* The party named as last proposer is the one whose proposal the history    *)
(* records last, so "cannot accept your own proposal" looks at the right     *)
(* party even when proposals overwrite each other.                           *)
LastProposerRecorded ==
  \A id \in Ids : deposits[id] # Nil =>
    \A k \in 1 .. Len(History(id)) :
      /\ History(id)[k].state = "SETTLE_PROPOSED"
      /\ \A j \in (k + 1) .. Len(History(id)) :
           History(id)[j].state # "SETTLE_PROPOSED"
      => /\ deposits[id].settlement # Nil
         /\ deposits[id].settlement.lastProposedBy = History(id)[k].actor

(* Once a deposit is CLOSED and no request validated earlier is still on its *)
(* way to UpdateState, it stays CLOSED and its document never changes.       *)
ClosedAtRest(id) ==
  /\ deposits[id] # Nil
  /\ deposits[id].state = "CLOSED"
  /\ InFlight(id) = {}

ClosedIsFinalAtRest ==
  [][\A id \in Ids : ClosedAtRest(id) =>
       deposits'[id] = deposits[id] /\ ClosedAtRest(id)']_vars

=============================================================================
