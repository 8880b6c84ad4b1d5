----------------------- MODULE DepositLifecycleProofs -----------------------
(***************************************************************************)
(* Proofs about DepositLifecycle, for any number of deposits, of requests  *)
(* in flight and of history entries.                                       *)
(***************************************************************************)
EXTENDS DepositLifecycle, SequenceTheorems, TLAPS

(***************************************************************************)
(* What every call of UpdateState has in common, whichever handler makes   *)
(* it: which operations lead to which states, and what they bring along.   *)
(***************************************************************************)
Shape(c) ==
  /\ c.op # "CreateDeposit"
  /\ c.to \notin {"REQUESTED", "FUNDED"}
  /\ c.op = "UpdateIdentity" <=> c.to = "IDENTIFIED"
  /\ c.op \in {"Pledge", "ReceiveVpResponse"} <=> c.to = "PLEDGED"
  /\ c.op \in {"Settle", "UtilityPropose"} <=> c.to = "SETTLE_PROPOSED"
  /\ c.op = "PartialRelease" <=> c.to = "PARTIALLY_RELEASED"
  /\ c.op \in {"Release", "SettleAccept", "DisputeResolve"} =>
       c.to \in {"RELEASED", "CLOSED"}
  /\ c.to = "SETTLE_PROPOSED" =>
       c.settlement # Nil /\ c.settlement.lastProposedBy = c.actor
  /\ c.to = "PARTIALLY_RELEASED" => c.reservation # Nil

(* The pointers the patch of c follows are not nil in the row d. *)
Applicable(c, d) ==
  /\ c.op = "SettleAccept" => d.settlement # Nil
  /\ c.op \in {"UtilityClose", "UtilityPropose"} => d.reservation # Nil

(* What a handler has established when it calls UpdateState. *)
Admitted(c) ==
  /\ c \in Call
  /\ c.pc = "update"
  /\ c.id \in KnownIds
  /\ c.seen = deposits[c.id].state
  /\ Follows(c.seen, c.to)
  /\ c.op = "ReceiveVpResponse" => c.seen = "PLEDGED"
  /\ Shape(c)
  /\ Applicable(c, deposits[c.id])

(* A step that only ends a request or drops one of its later effects. *)
WindsDown(r) ==
  /\ calls[r] # Nil
  /\ \E x \in {Nil, [calls[r] EXCEPT !.pc = "notify"]} :
       calls' = [calls EXCEPT ![r] = x]
  /\ UNCHANGED <<deposits, audit>>

(* What a commit of UpdateState on behalf of request c writes to the row d,   *)
(* the audit table and the request; every invariant below relies on it.      *)
Commits(r, c, d) ==
  /\ c = calls[r] /\ c # Nil /\ c.pc = "update"
  /\ c.id \in KnownIds /\ c.id \in Ids
  /\ Shape(c) /\ Applicable(c, d)
  /\ d = deposits[c.id] /\ d # Nil /\ d.history = audit[c.id]
  /\ deposits' = [deposits EXCEPT ![c.id] = Written(c, d)]
  /\ audit' = [audit EXCEPT ![c.id] =
       Append(d.history, [state |-> c.to, actor |-> c.actor])]
  /\ calls' = [calls EXCEPT ![r] = [c EXCEPT !.pc = AfterUpdate(c.op)]]
  /\ AfterUpdate(c.op) \in {"revoke", "delete", "notify"}

(* A step that commits nothing leaves the documents alone, but for the one a *)
(* Create stores; the requests on their way stay the same, but for the one a *)
(* handler has just admitted.                                                *)
Preparing ==
  /\ \A id \in Ids : deposits[id] # Nil => deposits'[id] = deposits[id]
  /\ \A id \in Ids : deposits[id] = Nil /\ deposits'[id] # Nil =>
       deposits'[id].history = <<FirstEntry>>
  /\ \A r \in Requests : calls'[r] # Nil /\ calls'[r].pc = "update" =>
       calls'[r] = calls[r] \/ \E c : calls'[r] = c /\ Admitted(c)

(* The states deposit id has been in. *)
Visited(id) == {History(id)[k].state : k \in 1 .. Len(History(id))}

(***************************************************************************)
(* The inductive invariant behind type correctness.  TypeOK alone is not   *)
(* inductive: a patch keeps the type of the document only if the pointers  *)
(* it follows are set, and they were checked on an older copy.             *)
(***************************************************************************)
CallSound(r) ==
  LET c == calls[r]
  IN  c # Nil =>
        /\ deposits[c.id] # Nil
        /\ c.pc = "insert" =>
             /\ audit[c.id] = << >>
             /\ deposits[c.id].history = <<FirstEntry>>
             /\ \A q \in Requests \ {r} :
                  calls[q] # Nil => calls[q].id # c.id
        /\ c.pc = "update" =>
             /\ c.id \in KnownIds
             /\ Shape(c)
             /\ Applicable(c, deposits[c.id])

SafeInv ==
  /\ TypeOK
  /\ \A id \in KnownIds : deposits[id] # Nil
  /\ \A r \in Requests : CallSound(r)
  /\ NoNilDereference
  /\ AuditMatchesHistory

(* HistoryJustified is inductive together with what UpdateState relies on:   *)
(* a request on its way was justified by a state the history records.        *)
JustifiedInv ==
  /\ HistoryJustified
  /\ \A r \in Requests : calls[r] # Nil /\ calls[r].pc = "update" =>
       \E from \in Visited(calls[r].id) : Follows(from, calls[r].to)

(* Nothing leads to FUNDED; a request other than the identity update is only *)
(* on its way once the tenant is verified, and one that moves pledged money  *)
(* once the bank has confirmed, unless it is that confirmation.              *)
PayoutInv ==
  /\ \A id \in Ids : deposits[id] # Nil =>
       /\ "FUNDED" \notin Visited(id)
       /\ Visited(id) # {"REQUESTED"} => deposits[id].eid = "VERIFIED"
       /\ Visited(id) \cap Secured # {} => deposits[id].pledged
  /\ \A r \in Requests : calls[r] # Nil /\ calls[r].pc = "update" =>
       /\ calls[r].op # "UpdateIdentity" =>
            deposits[calls[r].id].eid = "VERIFIED"
       /\ calls[r].to \in Secured /\ calls[r].op # "Pledge" =>
            deposits[calls[r].id].pledged

-----------------------------------------------------------------------------
(* Appending one element: the old entries stay, the new one is last. *)
LEMMA AppendFacts ==
  ASSUME NEW S, NEW s \in Seq(S), NEW e \in S
  PROVE  /\ Append(s, e) \in Seq(S)
         /\ Len(s) \in Nat
         /\ Len(Append(s, e)) = Len(s) + 1
         /\ \A i \in 1 .. Len(s) : Append(s, e)[i] = s[i]
         /\ Append(s, e)[Len(s) + 1] = e
         /\ Append(s, e) # << >>
BY AppendProperties, LenProperties

(* The zero Settlement is one. *)
LEMMA BlankSettlementType ==
  NoSplit \in Split /\ BlankSettlement \in Settlement
<1>1. NoSplit \in Split
  BY DEF NoSplit, Split
<1> QED
  BY <1>1 DEF BlankSettlement, Settlement

(* A patch keeps the type of the document, touches neither state nor         *)
(* history, never unsets a pointer, and changes the last proposer only when  *)
(* it is a proposal.                                                         *)
LEMMA PatchFacts ==
  ASSUME NEW c \in Call, NEW d \in Deposit, Shape(c), Applicable(c, d)
  PROVE  /\ Patch(c, d) \in Deposit
         /\ Patch(c, d).history = d.history
         /\ d.settlement # Nil => Patch(c, d).settlement # Nil
         /\ d.reservation # Nil => Patch(c, d).reservation # Nil
         /\ c.to = "SETTLE_PROPOSED" => Patch(c, d).settlement = c.settlement
         /\ c.to # "SETTLE_PROPOSED" /\ d.settlement # Nil =>
              Patch(c, d).settlement.lastProposedBy
                = d.settlement.lastProposedBy
         /\ c.to = "PARTIALLY_RELEASED" =>
              Patch(c, d).reservation = c.reservation
         /\ d.pledged \/ c.op = "Pledge" => Patch(c, d).pledged
         /\ c.op = "UpdateIdentity" => Patch(c, d).eid = "VERIFIED"
         /\ c.op # "UpdateIdentity" => Patch(c, d).eid = d.eid
<1> USE DEF Shape, Applicable
<1> DEFINE s == SettlementOrBlank(d)
<1>a. s \in Settlement /\ (d.settlement # Nil => s = d.settlement)
  BY BlankSettlementType DEF Deposit, SettlementOrBlank
<1>b. Nil \notin Settlement /\ Nil \notin UtilityReservation
  BY LifecycleAssumption
<1> HIDE DEF s
<1>1. CASE c.op = "UpdateIdentity"
  <2>1. Patch(c, d) = [d EXCEPT !.eid = "VERIFIED"]
    BY <1>1 DEF Patch, SetIdentity
  <2> QED
    BY <1>1, <2>1 DEF Deposit, EIDStatus
<1>2. CASE c.op = "Pledge"
  <2>1. Patch(c, d) = [d EXCEPT !.pledged = TRUE]
    BY <1>2 DEF Patch, SetPledge
  <2> QED
    BY <1>2, <2>1 DEF Deposit
<1>3. CASE c.op = "Settle"
  <2>1. Patch(c, d) = [d EXCEPT !.settlement = c.settlement]
    BY <1>3 DEF Patch, ReplaceSettlement
  <2> QED
    BY <1>3, <2>1 DEF Deposit, Call
<1>4. CASE c.op = "SettleAccept"
  <2> DEFINE t == [d.settlement EXCEPT !.agreed = d.settlement.proposed]
  <2>1. Patch(c, d) = [d EXCEPT !.settlement = t]
    BY <1>4 DEF Patch, LockProposal
  <2>2. t \in Settlement /\ t.lastProposedBy = d.settlement.lastProposedBy
    BY <1>4 DEF Deposit, Settlement
  <2> HIDE DEF t
  <2> QED
    BY <1>4, <1>b, <2>1, <2>2 DEF Deposit
<1>5. CASE c.op = "Dispute"
  <2> DEFINE t == [s EXCEPT !.escalated = TRUE]
  <2>1. Patch(c, d) = [d EXCEPT !.settlement = t]
    BY <1>5 DEF Patch, s, Escalate
  <2>2. t \in Settlement /\ t.lastProposedBy = s.lastProposedBy
    BY <1>a DEF Settlement
  <2> HIDE DEF t
  <2> QED
    BY <1>5, <1>a, <1>b, <2>1, <2>2 DEF Deposit
<1>6. CASE c.op = "DisputeResolve"
  <2> DEFINE t == [s EXCEPT !.agreed = c.agreed]
  <2>1. Patch(c, d) = [d EXCEPT !.settlement = t]
    BY <1>6 DEF Patch, s, RecordResolution
  <2>2. t \in Settlement /\ t.lastProposedBy = s.lastProposedBy
    BY <1>a DEF Settlement, Call
  <2> HIDE DEF t
  <2> QED
    BY <1>6, <1>a, <1>b, <2>1, <2>2 DEF Deposit
<1>7. CASE c.op = "PartialRelease"
  <2>1. Patch(c, d) = [d EXCEPT !.reservation = c.reservation]
    BY <1>7 DEF Patch, SetReservation
  <2> QED
    BY <1>7, <2>1 DEF Deposit, Call
<1>8. CASE c.op = "UtilityClose"
  <2> DEFINE u == [d.reservation EXCEPT !.resolved = TRUE]
  <2>1. Patch(c, d) = [d EXCEPT !.reservation = u]
    BY <1>8 DEF Patch, ResolveReservation
  <2>2. u \in UtilityReservation
    BY <1>8 DEF Deposit, UtilityReservation
  <2> HIDE DEF u
  <2> QED
    BY <1>8, <1>b, <2>1, <2>2 DEF Deposit
<1>9. CASE c.op = "UtilityPropose"
  <2> DEFINE u == [d.reservation EXCEPT !.resolved = TRUE]
  <2>1. Patch(c, d) = [d EXCEPT !.reservation = u, !.settlement = c.settlement]
    BY <1>9 DEF Patch, ProposeShortfall
  <2>2. u \in UtilityReservation
    BY <1>9 DEF Deposit, UtilityReservation
  <2>3. c.settlement \in Settlement
    BY <1>9 DEF Call
  <2> HIDE DEF u
  <2>4. Patch(c, d) \in Deposit
    BY <2>1, <2>2, <2>3 DEF Deposit
  <2> QED
    BY <1>9, <1>b, <2>1, <2>2, <2>4 DEF Deposit
<1>10. CASE c.op \in {"Release", "Claim", "ReceiveVpResponse"}
  <2>1. Patch(c, d) = d
    BY <1>10 DEF Patch
  <2> QED
    BY <1>10, <2>1
<1> QED
  BY <1>1, <1>2, <1>3, <1>4, <1>5, <1>6, <1>7, <1>8, <1>9, <1>10 DEF Call, Operations

(* What UpdateState writes: the patched document with one more entry. *)
LEMMA WrittenFacts ==
  ASSUME NEW c \in Call, NEW d \in Deposit, Shape(c), Applicable(c, d)
  PROVE  /\ Written(c, d) \in Deposit
         /\ Written(c, d).state = c.to
         /\ Written(c, d).history
              = Append(d.history, [state |-> c.to, actor |-> c.actor])
         /\ Written(c, d).settlement = Patch(c, d).settlement
         /\ Written(c, d).reservation = Patch(c, d).reservation
         /\ Patch(c, d).pledged => Written(c, d).pledged
         /\ Written(c, d).eid = Patch(c, d).eid
<1> DEFINE p == Patch(c, d)
           e == [state |-> c.to, actor |-> c.actor]
           h == Append(p.history, e)
<1>1. p \in Deposit /\ p.history = d.history
  BY PatchFacts
<1>2. e \in HistoryEntry /\ c.to \in LifecycleStates
  BY DEF Call, HistoryEntry
<1>3. h \in Seq(HistoryEntry)
  BY <1>1, <1>2, AppendFacts DEF Deposit
<1>4. Written(c, d) = [p EXCEPT !.state = c.to, !.history = h]
  BY DEF Written
<1> HIDE DEF p, h
<1>5. [p EXCEPT !.state = c.to, !.history = h] \in Deposit
  BY <1>1, <1>2, <1>3 DEF Deposit
<1>6. /\ [p EXCEPT !.state = c.to, !.history = h].state = c.to
      /\ [p EXCEPT !.state = c.to, !.history = h].history = h
      /\ [p EXCEPT !.state = c.to, !.history = h].settlement = p.settlement
      /\ [p EXCEPT !.state = c.to, !.history = h].reservation = p.reservation
      /\ p.pledged => [p EXCEPT !.state = c.to, !.history = h].pledged
      /\ [p EXCEPT !.state = c.to, !.history = h].eid = p.eid
  BY <1>1 DEF Deposit
<1> QED
  BY <1>1, <1>4, <1>5, <1>6 DEF p, h

(* A request record built by a handler is well typed. *)
LEMMA RequestType ==
  ASSUME TypeOK, NEW id \in Ids, deposits[id] # Nil,
         NEW op \in Operations, NEW to \in LifecycleStates,
         NEW actor \in Actors
  PROVE  Request(id, op, to, actor) \in Call
BY BlankSettlementType DEF Request, Call, TypeOK, Deposit

(* A proposal is a Settlement whose last proposer is the one who makes it. *)
LEMMA ProposalType ==
  ASSUME NEW opener \in Party \cup {""}, NEW by \in Party, NEW split \in Split
  PROVE  /\ Proposal(opener, by, split) \in Settlement
         /\ Proposal(opener, by, split).lastProposedBy = by
BY BlankSettlementType DEF Proposal, BlankSettlement, Settlement

(* A request that carries no settlement and no reservation. *)
LEMMA RequestAdmitted ==
  ASSUME TypeOK, NEW id \in KnownIds, deposits[id] # Nil,
         NEW op \in Operations, NEW to \in LifecycleStates, NEW actor \in Actors,
         Follows(deposits[id].state, to),
         op = "ReceiveVpResponse" => deposits[id].state = "PLEDGED",
         Shape(Request(id, op, to, actor)),
         Applicable(Request(id, op, to, actor), deposits[id])
  PROVE  Admitted(Request(id, op, to, actor))
<1>1. Request(id, op, to, actor) \in Call
  BY RequestType DEF KnownIds
<1> QED
  BY <1>1 DEF Admitted, Request

(* Every handler that gets as far as UpdateState has established Admitted. *)
LEMMA HandlersAdmitted ==
  ASSUME SafeInv, NEW r \in Requests, Handle(r)
  PROVE  CreateDeposit(r) \/ \E c : Admitted(c) /\ Submit(r, c)
<1>a. /\ \A id \in KnownIds : id \in Ids /\ deposits[id] # Nil /\ deposits[id] \in Deposit
      /\ TypeOK
      /\ NoNilDereference
  BY DEF SafeInv, KnownIds, TypeOK
<1>1. CASE UpdateIdentity(r)
  <2>1. PICK id \in KnownIds, eid \in EIDStatus :
          \E next \in StateForIdentityUpdate(eid) :
            /\ CanTransition(deposits[id].state, next)
            /\ Submit(r, Request(id, "UpdateIdentity", next, "IDENTITY_PROVIDER"))
    BY <1>1 DEF UpdateIdentity
  <2>2. /\ CanTransition(deposits[id].state, "IDENTIFIED")
        /\ Submit(r, Request(id, "UpdateIdentity", "IDENTIFIED", "IDENTITY_PROVIDER"))
    BY <2>1 DEF StateForIdentityUpdate
  <2>3. /\ Follows(deposits[id].state, "IDENTIFIED")
        /\ Shape(Request(id, "UpdateIdentity", "IDENTIFIED", "IDENTITY_PROVIDER"))
        /\ Applicable(Request(id, "UpdateIdentity", "IDENTIFIED", "IDENTITY_PROVIDER"),
                      deposits[id])
    BY <2>2 DEF Follows, Shape, Applicable, Request
  <2>4. Admitted(Request(id, "UpdateIdentity", "IDENTIFIED", "IDENTITY_PROVIDER"))
    BY <1>a, <2>3, RequestAdmitted DEF Operations, LifecycleStates, Actors, Party
  <2> QED
    BY <2>2, <2>4
<1>2. CASE Pledge(r)
  <2>1. PICK id \in KnownIds :
          /\ CanTransition(deposits[id].state, "PLEDGED")
          /\ Submit(r, Request(id, "Pledge", "PLEDGED", "BANK"))
    BY <1>2 DEF Pledge
  <2>2. /\ Follows(deposits[id].state, "PLEDGED")
        /\ Shape(Request(id, "Pledge", "PLEDGED", "BANK"))
        /\ Applicable(Request(id, "Pledge", "PLEDGED", "BANK"),
                      deposits[id])
    BY <2>1 DEF Follows, Shape, Applicable, Request
  <2>3. Admitted(Request(id, "Pledge", "PLEDGED", "BANK"))
    BY <1>a, <2>2, RequestAdmitted DEF Operations, LifecycleStates, Actors, Party
  <2> QED
    BY <2>1, <2>3
<1>3. CASE Release(r)
  <2>1. PICK id \in KnownIds :
          /\ CanTransition(deposits[id].state, "RELEASED")
          /\ Submit(r, Request(id, "Release", "RELEASED", "LANDLORD"))
    BY <1>3 DEF Release
  <2>2. /\ Follows(deposits[id].state, "RELEASED")
        /\ Shape(Request(id, "Release", "RELEASED", "LANDLORD"))
        /\ Applicable(Request(id, "Release", "RELEASED", "LANDLORD"),
                      deposits[id])
    BY <2>1 DEF Follows, Shape, Applicable, Request
  <2>3. Admitted(Request(id, "Release", "RELEASED", "LANDLORD"))
    BY <1>a, <2>2, RequestAdmitted DEF Operations, LifecycleStates, Actors, Party
  <2> QED
    BY <2>1, <2>3
<1>4. CASE Claim(r)
  <2>1. PICK id \in KnownIds :
          /\ CanTransition(deposits[id].state, "CLAIMED")
          /\ Submit(r, Request(id, "Claim", "CLAIMED", "LANDLORD"))
    BY <1>4 DEF Claim
  <2>2. /\ Follows(deposits[id].state, "CLAIMED")
        /\ Shape(Request(id, "Claim", "CLAIMED", "LANDLORD"))
        /\ Applicable(Request(id, "Claim", "CLAIMED", "LANDLORD"),
                      deposits[id])
    BY <2>1 DEF Follows, Shape, Applicable, Request
  <2>3. Admitted(Request(id, "Claim", "CLAIMED", "LANDLORD"))
    BY <1>a, <2>2, RequestAdmitted DEF Operations, LifecycleStates, Actors, Party
  <2> QED
    BY <2>1, <2>3
<1>5. CASE Settle(r)
  <2>1. PICK id \in KnownIds, by \in Party, split \in Splits :
          LET d == deposits[id]
              first == d.state \in {"PLEDGED", "FUNDED"}
              counter == d.state = "SETTLE_PROPOSED"
          IN  /\ first \/ counter
              /\ first => CanTransition(d.state, "SETTLE_PROPOSED")
              /\ counter => d.settlement = Nil \/ d.settlement.lastProposedBy # by
              /\ Submit(r, [Request(id, "Settle", "SETTLE_PROPOSED", by)
                             EXCEPT !.settlement =
                   Proposal(IF first THEN by ELSE d.settlement.initiatedBy,
                            by, split)])
    BY <1>5 DEF Settle
  <2> DEFINE d == deposits[id]
             first == d.state \in {"PLEDGED", "FUNDED"}
             opener == IF first THEN by ELSE d.settlement.initiatedBy
             q == Request(id, "Settle", "SETTLE_PROPOSED", by)
             p == Proposal(opener, by, split)
  <2>2. /\ first \/ d.state = "SETTLE_PROPOSED"
        /\ first => CanTransition(d.state, "SETTLE_PROPOSED")
        /\ Submit(r, [q EXCEPT !.settlement = p])
    BY <2>1
  <2>3. opener \in Party \cup {""}
    BY <1>a, <2>2 DEF NoNilDereference, KnownIds, Deposit, Settlement
  <2>4. p \in Settlement /\ p.lastProposedBy = by /\ p # Nil
    <3> HIDE DEF opener
    <3>1. split \in Split
      BY LifecycleAssumption
    <3>2. p \in Settlement /\ p.lastProposedBy = by
      BY <2>3, <3>1, ProposalType
    <3> QED
      BY <3>2, LifecycleAssumption
  <2>5. q \in Call
    BY <1>a, RequestType DEF Operations, LifecycleStates, Actors
  <2> HIDE DEF p
  <2>6. [q EXCEPT !.settlement = p] \in Call
    BY <2>4, <2>5 DEF Call
  <2>7. Admitted([q EXCEPT !.settlement = p])
    BY <1>a, <2>2, <2>4, <2>6 DEF Request, Admitted, Shape, Applicable, Follows
  <2> QED
    BY <2>2, <2>7
<1>6. CASE SettleAccept(r)
  <2>1. PICK id \in KnownIds, by \in Party :
          /\ deposits[id].state = "SETTLE_PROPOSED"
          /\ deposits[id].settlement # Nil
          /\ Submit(r, [Request(id, "SettleAccept", "CLOSED", by)
                         EXCEPT !.settlement = deposits[id].settlement])
    BY <1>6 DEF SettleAccept
  <2> DEFINE d == deposits[id]
             q == Request(id, "SettleAccept", "CLOSED", by)
  <2>2. /\ d.state = "SETTLE_PROPOSED"
        /\ d.settlement # Nil
        /\ Submit(r, [q EXCEPT !.settlement = d.settlement])
    BY <2>1
  <2>3. q \in Call
    BY <1>a, RequestType DEF Operations, LifecycleStates, Actors
  <2>4. [q EXCEPT !.settlement = d.settlement] \in Call
    BY <1>a, <2>3 DEF Call, Deposit
  <2>5. CanTransition("SETTLE_PROPOSED", "CLOSED")
    BY DEF CanTransition, validTransitions
  <2>6. Admitted([q EXCEPT !.settlement = d.settlement])
    BY <1>a, <2>2, <2>4, <2>5 DEF Request, Admitted, Shape, Applicable, Follows
  <2> QED
    BY <2>2, <2>6
<1>7. CASE Dispute(r)
  <2>1. PICK id \in KnownIds, by \in Party :
          /\ CanTransition(deposits[id].state, "DISPUTED")
          /\ Submit(r, Request(id, "Dispute", "DISPUTED", by))
    BY <1>7 DEF Dispute
  <2>2. /\ Follows(deposits[id].state, "DISPUTED")
        /\ Shape(Request(id, "Dispute", "DISPUTED", by))
        /\ Applicable(Request(id, "Dispute", "DISPUTED", by),
                      deposits[id])
    BY <2>1 DEF Follows, Shape, Applicable, Request
  <2>3. Admitted(Request(id, "Dispute", "DISPUTED", by))
    BY <1>a, <2>2, RequestAdmitted DEF Operations, LifecycleStates, Actors, Party
  <2> QED
    BY <2>1, <2>3
<1>8. CASE DisputeResolve(r)
  <2>1. PICK id \in KnownIds, split \in Splits :
          /\ CanTransition(deposits[id].state, "CLOSED")
          /\ Submit(r, [Request(id, "DisputeResolve", "CLOSED", "EXTERNAL")
                         EXCEPT !.agreed = split])
    BY <1>8 DEF DisputeResolve
  <2> DEFINE q == Request(id, "DisputeResolve", "CLOSED", "EXTERNAL")
  <2>2. /\ CanTransition(deposits[id].state, "CLOSED")
        /\ Submit(r, [q EXCEPT !.agreed = split])
    BY <2>1
  <2>3. q \in Call
    BY <1>a, RequestType DEF Operations, LifecycleStates, Actors
  <2>4. [q EXCEPT !.agreed = split] \in Call
    BY <2>3, LifecycleAssumption DEF Call
  <2>5. Admitted([q EXCEPT !.agreed = split])
    BY <1>a, <2>2, <2>4 DEF Request, Admitted, Shape, Applicable, Follows
  <2> QED
    BY <2>2, <2>5
<1>9. CASE PartialRelease(r)
  <2>1. PICK id \in KnownIds, h \in Holdbacks :
          /\ CanTransition(deposits[id].state, "PARTIALLY_RELEASED")
          /\ Submit(r, [Request(id, "PartialRelease", "PARTIALLY_RELEASED",
                                "LANDLORD")
                         EXCEPT !.reservation =
                 [released |-> h.released, reserved |-> h.reserved,
                  resolved |-> FALSE]])
    BY <1>9 DEF PartialRelease
  <2> DEFINE q == Request(id, "PartialRelease", "PARTIALLY_RELEASED", "LANDLORD")
             u == [released |-> h.released, reserved |-> h.reserved,
                   resolved |-> FALSE]
  <2>2. /\ CanTransition(deposits[id].state, "PARTIALLY_RELEASED")
        /\ Submit(r, [q EXCEPT !.reservation = u])
    BY <2>1
  <2>3. q \in Call
    BY <1>a, RequestType DEF Operations, LifecycleStates, Actors, Party
  <2>4. u \in UtilityReservation /\ u # Nil
    <3>1. h \in [released : Int, reserved : Int]
      BY LifecycleAssumption
    <3>2. u \in UtilityReservation
      BY <3>1 DEF UtilityReservation
    <3> QED
      BY <3>2, LifecycleAssumption
  <2> HIDE DEF u
  <2>5. [q EXCEPT !.reservation = u] \in Call
    BY <2>3, <2>4 DEF Call
  <2>6. Admitted([q EXCEPT !.reservation = u])
    BY <1>a, <2>2, <2>4, <2>5 DEF Request, Admitted, Shape, Applicable, Follows
  <2> QED
    BY <2>2, <2>6
<1>10. CASE UtilitySettle(r)
  <2>1. PICK id \in KnownIds, bill \in UtilityBills :
          LET d == deposits[id]
              shortfall == bill.cost - bill.advance
              kept == Retention(shortfall, d.reservation.reserved)
          IN  /\ d.state = "PARTIALLY_RELEASED"
              /\ d.reservation # Nil
              /\ \/ Submit(r, Request(id, "UtilityClose", "CLOSED", "LANDLORD"))
                 \/ Submit(r, [Request(id, "UtilityPropose", "SETTLE_PROPOSED",
                                       "LANDLORD")
                               EXCEPT !.settlement =
                      Proposal("LANDLORD", "LANDLORD",
                               [refund |-> d.reservation.reserved - kept,
                                retention |-> kept])])
    BY <1>10 DEF UtilitySettle
  <2> DEFINE d == deposits[id]
             kept == Retention(bill.cost - bill.advance, d.reservation.reserved)
             split == [refund |-> d.reservation.reserved - kept,
                       retention |-> kept]
             p == Proposal("LANDLORD", "LANDLORD", split)
             close == Request(id, "UtilityClose", "CLOSED", "LANDLORD")
             q == Request(id, "UtilityPropose", "SETTLE_PROPOSED", "LANDLORD")
  <2>2. /\ d.state = "PARTIALLY_RELEASED"
        /\ d.reservation # Nil
        /\ Submit(r, close) \/ Submit(r, [q EXCEPT !.settlement = p])
    BY <2>1
  <2>3. d.reservation \in UtilityReservation
    BY <1>a, <2>2 DEF Deposit
  <2>4. split \in Split
    BY <2>3, LifecycleAssumption DEF UtilityReservation, Retention, Split
  <2> HIDE DEF split
  <2>5. p \in Settlement /\ p.lastProposedBy = "LANDLORD" /\ p # Nil
    BY <2>4, ProposalType, LifecycleAssumption DEF Party
  <2> HIDE DEF p
  <2>6. /\ CanTransition("PARTIALLY_RELEASED", "CLOSED")
        /\ CanTransition("PARTIALLY_RELEASED", "SETTLE_PROPOSED")
    BY DEF CanTransition, validTransitions
  <2>7. Admitted(close)
    <3>1. /\ Follows(deposits[id].state, "CLOSED")
          /\ Shape(close)
          /\ Applicable(close, deposits[id])
      BY <2>2, <2>6 DEF Follows, Shape, Applicable, Request
    <3> QED
      BY <1>a, <3>1, RequestAdmitted DEF Operations, LifecycleStates, Actors, Party
  <2>8. q \in Call
    BY <1>a, RequestType DEF Operations, LifecycleStates, Actors, Party
  <2>9. [q EXCEPT !.settlement = p] \in Call
    BY <2>5, <2>8 DEF Call
  <2>10. Admitted([q EXCEPT !.settlement = p])
    BY <1>a, <2>2, <2>5, <2>6, <2>9 DEF Request, Admitted, Shape, Applicable, Follows
  <2> QED
    BY <2>2, <2>7, <2>10
<1>11. CASE ReceiveVpResponse(r)
  <2>1. PICK id \in KnownIds :
          /\ deposits[id].state = "PLEDGED"
          /\ Submit(r, Request(id, "ReceiveVpResponse", "PLEDGED", "WALLET"))
    BY <1>11 DEF ReceiveVpResponse
  <2>2. /\ Follows(deposits[id].state, "PLEDGED")
        /\ Shape(Request(id, "ReceiveVpResponse", "PLEDGED", "WALLET"))
        /\ Applicable(Request(id, "ReceiveVpResponse", "PLEDGED", "WALLET"),
                      deposits[id])
    BY <2>1 DEF Follows, Shape, Applicable, Request
  <2>3. Admitted(Request(id, "ReceiveVpResponse", "PLEDGED", "WALLET"))
    BY <1>a, <2>1, <2>2, RequestAdmitted DEF Operations, LifecycleStates, Actors, Party
  <2> QED
    BY <2>1, <2>3
<1> QED
  BY <1>1, <1>2, <1>3, <1>4, <1>5, <1>6, <1>7, <1>8, <1>9, <1>10, <1>11 DEF Handle

(* Every step is of one of five kinds. *)
LEMMA StepKinds ==
  ASSUME SafeInv, [Next]_vars
  PROVE  \/ UNCHANGED vars
         \/ \E r \in Requests :
              \/ CreateDeposit(r)
              \/ InsertHistory(r)
              \/ UpdateState(r)
              \/ WindsDown(r)
              \/ \E c : Admitted(c) /\ Submit(r, c)
<1>1. CASE UNCHANGED vars
  BY <1>1
<1>2. CASE Next
  <2>1. PICK r \in Requests : Handle(r) \/ Continue(r)
    BY <1>2 DEF Next
  <2>2. CASE Handle(r)
    BY <2>2, HandlersAdmitted
  <2>3. CASE InsertHistory(r) \/ UpdateState(r)
    BY <2>3
  <2>4. CASE RevokeCredentials(r) \/ DeleteVpSession(r) \/ Notify(r) \/ Fail(r)
    BY <2>4 DEF RevokeCredentials, DeleteVpSession, Notify, Fail, Proceed, WindsDown
  <2> QED
    BY <2>1, <2>2, <2>3, <2>4 DEF Continue
<1> QED
  BY <1>1, <1>2

-----------------------------------------------------------------------------
(* Type correctness: SafeInv is inductive. *)

(* A request no step touches stays sound as long as its row keeps what the   *)
(* request relies on.                                                        *)
LEMMA CallKept ==
  ASSUME SafeInv, NEW q \in Requests, calls'[q] = calls[q],
         calls[q] # Nil => deposits'[calls[q].id] # Nil,
         calls[q] # Nil /\ calls[q].pc = "insert" =>
           /\ audit'[calls[q].id] = audit[calls[q].id]
           /\ deposits'[calls[q].id] = deposits[calls[q].id]
           /\ \A p \in Requests \ {q} :
                calls'[p] # Nil => calls'[p].id # calls[q].id,
         calls[q] # Nil /\ calls[q].pc = "update" =>
           /\ calls[q].id \in KnownIds'
           /\ Applicable(calls[q], deposits'[calls[q].id])
  PROVE  CallSound(q)'
<1>1. CallSound(q)
  BY DEF SafeInv
<1>2. CASE calls[q] = Nil
  BY <1>2 DEF CallSound
<1>3. CASE calls[q] # Nil
  <2>1. PICK c : c = calls[q] /\ c = calls'[q] /\ c # Nil
    BY <1>3
  <2>2. c.pc = "insert" => audit[c.id] = << >> /\ deposits[c.id].history = <<FirstEntry>>
    BY <1>1, <2>1 DEF CallSound
  <2>3. c.pc = "update" => Shape(c)
    BY <1>1, <2>1 DEF CallSound
  <2> QED
    BY <2>1, <2>2, <2>3 DEF CallSound, Shape, Applicable
<1> QED
  BY <1>2, <1>3

(* A handler that submits a request preserves SafeInv. *)
LEMMA SafeSubmit ==
  ASSUME SafeInv, NEW r \in Requests, NEW c, Admitted(c), Submit(r, c)
  PROVE  SafeInv'
<1>1. /\ calls' = [calls EXCEPT ![r] = c]
      /\ deposits' = deposits /\ audit' = audit
      /\ KnownIds' = KnownIds
  BY DEF Submit, KnownIds
<1>2. /\ c \in Call /\ c # Nil /\ c.pc = "update" /\ c.id \in KnownIds
      /\ Shape(c) /\ Applicable(c, deposits[c.id])
      /\ deposits[c.id] # Nil
  BY LifecycleAssumption DEF Admitted, SafeInv
<1>3. TypeOK'
  BY <1>1, <1>2 DEF SafeInv, TypeOK
<1>4. ASSUME NEW q \in Requests PROVE CallSound(q)'
  <2>1. CASE q = r
    BY <1>1, <1>2, <2>1 DEF CallSound, SafeInv, TypeOK, Shape, Applicable
  <2>2. CASE q # r
    <3>1. calls'[q] = calls[q] /\ calls'[r] = c /\ CallSound(q)
          /\ \A p \in Requests \ {r} : calls'[p] = calls[p]
      BY <1>1, <2>2 DEF SafeInv, TypeOK
    <3>2. calls[q] # Nil /\ calls[q].pc = "insert" => calls[q].id # c.id
      BY <1>2, <3>1 DEF CallSound, KnownIds
    <3> QED
      BY <1>1, <2>2, <3>1, <3>2, CallKept DEF CallSound
  <2> QED
    BY <2>1, <2>2
<1>5. NoNilDereference'
  BY <1>1, <1>2 DEF NoNilDereference, SafeInv, TypeOK, Applicable
<1>6. AuditMatchesHistory'
  BY <1>1 DEF AuditMatchesHistory, History, SafeInv
<1> QED
  BY <1>1, <1>3, <1>4, <1>5, <1>6 DEF SafeInv

(* The steps after the commit, and a failure, preserve SafeInv. *)
LEMMA SafeQuiet ==
  ASSUME SafeInv, NEW r \in Requests, WindsDown(r)
  PROVE  SafeInv'
<1>1. PICK x \in {Nil, [calls[r] EXCEPT !.pc = "notify"]} :
        calls' = [calls EXCEPT ![r] = x]
  BY DEF WindsDown
<1>2. /\ deposits' = deposits /\ audit' = audit
      /\ KnownIds' = KnownIds
      /\ calls[r] # Nil /\ calls[r] \in Call
  BY DEF WindsDown, KnownIds, SafeInv, TypeOK
<1>3. x = Nil \/ (x \in Call /\ x.id = calls[r].id /\ x.pc = "notify")
  BY <1>1, <1>2 DEF Call
<1>4. TypeOK'
  BY <1>1, <1>2, <1>3 DEF SafeInv, TypeOK
<1>5. ASSUME NEW q \in Requests PROVE CallSound(q)'
  <2>1. CASE q = r
    BY <1>1, <1>2, <1>3, <2>1 DEF CallSound, SafeInv, TypeOK
  <2>2. CASE q # r
    <3>1. calls'[q] = calls[q]
      BY <1>1, <2>2 DEF SafeInv, TypeOK
    <3>2. \A p \in Requests : calls'[p] # Nil =>
            calls[p] # Nil /\ calls'[p].id = calls[p].id
      BY <1>1, <1>2, <1>3 DEF SafeInv, TypeOK
    <3>3. CallSound(q)
      BY DEF SafeInv
    <3> QED
      BY <1>2, <3>1, <3>2, <3>3, CallKept DEF CallSound
  <2> QED
    BY <2>1, <2>2
<1>6. NoNilDereference'
  BY <1>1, <1>2, <1>3 DEF NoNilDereference, SafeInv, TypeOK
<1>7. AuditMatchesHistory'
  BY <1>2 DEF AuditMatchesHistory, History, SafeInv
<1> QED
  BY <1>2, <1>4, <1>5, <1>6, <1>7 DEF SafeInv

(* CreateDeposit preserves SafeInv. *)
LEMMA SafeCreate ==
  ASSUME SafeInv, NEW r \in Requests, CreateDeposit(r)
  PROVE  SafeInv'
<1> DEFINE New(a) ==
             [type |-> a.type, amount |-> a.amount, eid |-> a.eid,
              pledged |-> a.pledged, settlement |-> a.settlement,
              reservation |-> a.reservation,
              state |-> "REQUESTED", history |-> <<FirstEntry>>]
           Insert(i) ==
             [pc |-> "insert", op |-> "CreateDeposit", id |-> i,
              seen |-> "REQUESTED", to |-> "REQUESTED", actor |-> "TENANT",
              settlement |-> Nil, reservation |-> Nil, agreed |-> NoSplit]
<1>1. PICK id \in Ids, a \in Applications :
        /\ calls[r] = Nil
        /\ deposits[id] = Nil
        /\ deposits' = [deposits EXCEPT ![id] = New(a)]
        /\ calls' = [calls EXCEPT ![r] = Insert(id)]
        /\ audit' = audit
  BY DEF CreateDeposit
<1> DEFINE d == New(a)
           c == Insert(id)
<1>2. d \in Deposit /\ d # Nil
  <2>1. a \in Application
    BY LifecycleAssumption
  <2>2. FirstEntry \in HistoryEntry
    BY DEF FirstEntry, HistoryEntry, LifecycleStates, Actors, Party
  <2>3. <<FirstEntry>> \in Seq(HistoryEntry)
    BY <2>2
  <2>4. d \in Deposit
    BY <2>1, <2>3 DEF Deposit, Application, LifecycleStates
  <2> QED
    BY <2>4, LifecycleAssumption
<1>3. d.history = <<FirstEntry>> /\ d.state = "REQUESTED"
  OBVIOUS
<1>4. c \in Call /\ c # Nil
  <2>1. c \in Call
    BY BlankSettlementType
    DEF Call, Operations, LifecycleStates, Actors, Party
  <2> QED
    BY <2>1, LifecycleAssumption
<1>5. c.id = id /\ c.pc = "insert"
  OBVIOUS
<1> HIDE DEF d, c
<1>6. /\ deposits' = [deposits EXCEPT ![id] = d]
      /\ calls' = [calls EXCEPT ![r] = c]
  BY <1>1 DEF d, c
<1>7. KnownIds' = KnownIds /\ id \notin KnownIds /\ audit[id] = << >>
  BY <1>1 DEF KnownIds, SafeInv
<1>8. TypeOK'
  BY <1>1, <1>2, <1>4, <1>6 DEF SafeInv, TypeOK
<1>9. /\ calls'[r] = c /\ deposits'[id] = d
      /\ \A p \in Requests \ {r} : calls'[p] = calls[p]
      /\ \A i \in Ids \ {id} : deposits'[i] = deposits[i]
  BY <1>6 DEF SafeInv, TypeOK
<1>10. \A p \in Requests : calls[p] # Nil =>
         calls[p].id \in Ids /\ deposits[calls[p].id] # Nil /\ calls[p].id # id
  BY <1>1 DEF SafeInv, CallSound, TypeOK, Call
<1>11. ASSUME NEW q \in Requests PROVE CallSound(q)'
  <2>1. CASE q = r
    BY <1>1, <1>2, <1>3, <1>4, <1>5, <1>7, <1>9, <1>10, <2>1 DEF CallSound
  <2>2. CASE q # r
    <3>1. CallSound(q) /\ calls'[q] = calls[q]
      BY <1>9, <2>2 DEF SafeInv
    <3>2. calls[q] # Nil => deposits'[calls[q].id] = deposits[calls[q].id]
      BY <1>9, <1>10
    <3>3. calls[q] # Nil => \A p \in Requests \ {q} :
            calls'[p] # Nil /\ calls'[p].id = calls[q].id =>
              calls[p] # Nil /\ calls[p].id = calls[q].id
      BY <1>5, <1>9, <1>10
    <3>4. calls[q] # Nil =>
            /\ deposits[calls[q].id] # Nil
            /\ calls[q].pc = "insert" =>
                 \A p \in Requests \ {q} :
                   calls'[p] # Nil => calls'[p].id # calls[q].id
            /\ calls[q].pc = "update" =>
                 /\ calls[q].id \in KnownIds
                 /\ Applicable(calls[q], deposits[calls[q].id])
      BY <3>1, <3>3 DEF CallSound
    <3> QED
      BY <1>1, <1>7, <3>1, <3>2, <3>4, CallKept
  <2> QED
    BY <2>1, <2>2
<1>12. NoNilDereference'
  <2>1. ASSUME NEW q \in Requests, calls'[q] # Nil, calls'[q].pc = "update"
        PROVE  Applicable(calls'[q], deposits'[calls'[q].id])
    BY <1>11, <2>1 DEF CallSound, Applicable
  <2>2. ASSUME NEW i \in Ids, deposits'[i] # Nil
        PROVE  /\ deposits'[i].state = "SETTLE_PROPOSED" =>
                    deposits'[i].settlement # Nil
               /\ deposits'[i].state = "PARTIALLY_RELEASED" =>
                    deposits'[i].reservation # Nil
    BY <1>3, <1>9, <2>2 DEF SafeInv, NoNilDereference
  <2> QED
    BY <2>1, <2>2 DEF NoNilDereference, Applicable
<1>13. AuditMatchesHistory'
  <2>1. ASSUME NEW i \in Ids, deposits'[i] # Nil
        PROVE  /\ deposits'[i].history # << >>
               /\ deposits'[i].state
                    = deposits'[i].history[Len(deposits'[i].history)].state
               /\ audit'[i] # << >> => audit'[i] = deposits'[i].history
               /\ audit'[i] = << >> => Len(deposits'[i].history) = 1
    <3>1. CASE i = id
      <4>1. /\ deposits'[i].history = <<FirstEntry>>
            /\ deposits'[i].state = "REQUESTED" /\ audit'[i] = << >>
        BY <1>1, <1>3, <1>7, <1>9, <3>1
      <4> QED
        BY <4>1 DEF FirstEntry
    <3>2. CASE i # id
      BY <1>1, <1>9, <2>1, <3>2 DEF SafeInv, AuditMatchesHistory, History
    <3> QED
      BY <3>1, <3>2
  <2> QED
    BY <2>1 DEF AuditMatchesHistory, History
<1>14. \A i \in KnownIds' : deposits'[i] # Nil
  BY <1>7, <1>9 DEF SafeInv, KnownIds
<1> QED
  BY <1>8, <1>11, <1>12, <1>13, <1>14 DEF SafeInv

(* InsertHistory preserves SafeInv. *)
LEMMA SafeInsert ==
  ASSUME SafeInv, NEW r \in Requests, InsertHistory(r)
  PROVE  SafeInv'
<1> DEFINE c == calls[r]
<1>1. /\ c # Nil /\ c.pc = "insert" /\ c \in Call /\ c.id \in Ids
      /\ audit' = [audit EXCEPT ![c.id] = <<FirstEntry>>]
      /\ calls' = [calls EXCEPT ![r] = Nil]
      /\ deposits' = deposits
  BY DEF InsertHistory, SafeInv, TypeOK, Call
<1>2. /\ deposits[c.id] # Nil
      /\ deposits[c.id].history = <<FirstEntry>>
      /\ \A q \in Requests \ {r} : calls[q] # Nil => calls[q].id # c.id
  BY <1>1 DEF SafeInv, CallSound
<1>3. FirstEntry \in HistoryEntry
  BY DEF FirstEntry, HistoryEntry, LifecycleStates, Actors, Party
<1>4. TypeOK'
  BY <1>1, <1>3 DEF SafeInv, TypeOK
<1>5. KnownIds' = KnownIds \cup {c.id}
  BY <1>1 DEF KnownIds, SafeInv, TypeOK
<1>6. ASSUME NEW q \in Requests PROVE CallSound(q)'
  <2>1. CASE q = r
    BY <1>1, <2>1 DEF CallSound, SafeInv, TypeOK
  <2>2. CASE q # r
    <3>1. /\ calls'[q] = calls[q] /\ CallSound(q)
          /\ calls'[r] = Nil
          /\ \A p \in Requests \ {r} : calls'[p] = calls[p]
          /\ calls[q] # Nil => audit'[calls[q].id] = audit[calls[q].id]
      BY <1>1, <1>2, <2>2 DEF SafeInv, TypeOK, Call
    <3>2. calls[q] # Nil =>
            /\ deposits[calls[q].id] # Nil
            /\ calls[q].pc = "insert" =>
                 \A p \in Requests \ {q} :
                   calls'[p] # Nil => calls'[p].id # calls[q].id
            /\ calls[q].pc = "update" =>
                 /\ calls[q].id \in KnownIds
                 /\ Applicable(calls[q], deposits[calls[q].id])
      BY <3>1 DEF CallSound
    <3> HIDE DEF c
    <3> QED
      BY <1>1, <1>5, <3>1, <3>2, CallKept
  <2> QED
    BY <2>1, <2>2
<1>7. NoNilDereference'
  BY <1>1 DEF NoNilDereference, SafeInv, TypeOK
<1>8. AuditMatchesHistory'
  BY <1>1, <1>2 DEF AuditMatchesHistory, History, SafeInv, TypeOK
<1> QED
  BY <1>1, <1>2, <1>4, <1>5, <1>6, <1>7, <1>8 DEF SafeInv

(* UpdateState commits such a step. *)
LEMMA UpdateFacts ==
  ASSUME SafeInv, NEW r \in Requests, UpdateState(r)
  PROVE  \E c \in Call, d \in Deposit : Commits(r, c, d)
<1>1. PICK c : c = calls[r]
  OBVIOUS
<1>2. PICK d : d = deposits[c.id]
  OBVIOUS
<1>3. /\ c # Nil /\ c.pc = "update"
      /\ deposits' = [deposits EXCEPT ![c.id] = Written(c, d)]
      /\ audit' = [audit EXCEPT ![c.id] =
           Append(audit[c.id], [state |-> c.to, actor |-> c.actor])]
      /\ calls' = [calls EXCEPT ![r] = [c EXCEPT !.pc = AfterUpdate(c.op)]]
  BY <1>1, <1>2 DEF UpdateState
<1>4. /\ c \in Call /\ c.id \in KnownIds /\ c.id \in Ids
      /\ Shape(c) /\ Applicable(c, d) /\ d # Nil
  BY <1>1, <1>2, <1>3 DEF SafeInv, CallSound, TypeOK, KnownIds
<1>5. d \in Deposit
  BY <1>2, <1>4 DEF SafeInv, TypeOK
<1>6. d.history = audit[c.id]
  BY <1>2, <1>4 DEF SafeInv, AuditMatchesHistory, KnownIds, History
<1>7. AfterUpdate(c.op) \in {"revoke", "delete", "notify"}
  BY DEF AfterUpdate
<1>8. Commits(r, c, d)
  BY <1>1, <1>2, <1>3, <1>4, <1>6, <1>7 DEF Commits
<1> QED
  BY <1>4, <1>5, <1>8

(* UpdateState preserves SafeInv. *)
LEMMA SafeUpdate ==
  ASSUME SafeInv, NEW r \in Requests, UpdateState(r)
  PROVE  SafeInv'
<1>0. PICK c \in Call, d \in Deposit : Commits(r, c, d)
  BY UpdateFacts
<1>1. /\ c = calls[r] /\ c # Nil /\ c.pc = "update"
      /\ c.id \in KnownIds /\ c.id \in Ids
      /\ Shape(c) /\ Applicable(c, d)
      /\ d = deposits[c.id] /\ d # Nil /\ d.history = audit[c.id]
      /\ deposits' = [deposits EXCEPT ![c.id] = Written(c, d)]
      /\ audit' = [audit EXCEPT ![c.id] =
           Append(d.history, [state |-> c.to, actor |-> c.actor])]
      /\ calls' = [calls EXCEPT ![r] = [c EXCEPT !.pc = AfterUpdate(c.op)]]
      /\ AfterUpdate(c.op) \in {"revoke", "delete", "notify"}
  BY <1>0 DEF Commits
<1> DEFINE e == [state |-> c.to, actor |-> c.actor]
           w == Written(c, d)
           pt == Patch(c, d)
           n == [c EXCEPT !.pc = AfterUpdate(c.op)]
           h == Append(d.history, e)
<1>2. /\ w \in Deposit /\ w # Nil /\ w.state = c.to
      /\ w.history = h
      /\ d.settlement # Nil => w.settlement # Nil
      /\ d.reservation # Nil => w.reservation # Nil
      /\ c.to = "SETTLE_PROPOSED" => w.settlement # Nil
      /\ c.to = "PARTIALLY_RELEASED" => w.reservation # Nil
  <2>1. /\ w \in Deposit /\ w.state = c.to /\ w.history = h
        /\ w.settlement = pt.settlement /\ w.reservation = pt.reservation
    BY <1>1, WrittenFacts
  <2>2. w # Nil
    BY <2>1, LifecycleAssumption
  <2>3. /\ d.settlement # Nil => pt.settlement # Nil
        /\ d.reservation # Nil => pt.reservation # Nil
        /\ c.to = "SETTLE_PROPOSED" => pt.settlement = c.settlement
        /\ c.to = "PARTIALLY_RELEASED" => pt.reservation = c.reservation
    BY <1>1, PatchFacts
  <2>4. /\ c.to = "SETTLE_PROPOSED" => c.settlement # Nil
        /\ c.to = "PARTIALLY_RELEASED" => c.reservation # Nil
    BY <1>1 DEF Shape
  <2> HIDE DEF w, pt, h
  <2> QED
    BY <2>1, <2>2, <2>3, <2>4
<1>3. n \in Call /\ n # Nil /\ n.id = c.id /\ n.pc \notin {"insert", "update"}
  <2>1. n \in Call /\ n.id = c.id /\ n.pc = AfterUpdate(c.op)
    BY <1>1 DEF Call
  <2> QED
    BY <1>1, <2>1, LifecycleAssumption
<1>4. h \in Seq(HistoryEntry) /\ h # << >> /\ h[Len(h)] = e /\ e.state = c.to
  <2>1. d.history \in Seq(HistoryEntry) /\ e \in HistoryEntry
    BY DEF Deposit, Call, HistoryEntry
  <2> QED
    BY <2>1, AppendFacts
<1>a. /\ deposits' = [deposits EXCEPT ![c.id] = w]
      /\ audit' = [audit EXCEPT ![c.id] = h]
      /\ calls' = [calls EXCEPT ![r] = n]
      /\ c.id \in Ids /\ c.id \in KnownIds
  BY <1>1
<1> HIDE DEF w, pt, n, h, e
<1>5. /\ c.id \in Ids
      /\ deposits'[c.id] = w /\ audit'[c.id] = h /\ calls'[r] = n
      /\ \A i \in Ids \ {c.id} :
           deposits'[i] = deposits[i] /\ audit'[i] = audit[i]
      /\ \A q \in Requests \ {r} : calls'[q] = calls[q]
  BY <1>a DEF SafeInv, TypeOK
<1>6. TypeOK'
  BY <1>a, <1>2, <1>3, <1>4 DEF SafeInv, TypeOK
<1>7. KnownIds' = KnownIds
  <2>1. \A i \in Ids : (audit'[i] # << >>) <=> (audit[i] # << >>)
    BY <1>a, <1>4, <1>5 DEF KnownIds
  <2> QED
    BY <2>1 DEF KnownIds
<1>8. ASSUME NEW q \in Requests PROVE CallSound(q)'
  <2>1. CASE q = r
    BY <1>2, <1>3, <1>5, <2>1 DEF CallSound
  <2>2. CASE q # r /\ calls[q] = Nil
    BY <1>5, <2>2 DEF CallSound
  <2>3. CASE q # r /\ calls[q] # Nil
    <3>1. calls'[q] = calls[q] /\ CallSound(q) /\ calls[q].id \in Ids
      BY <1>5, <2>3 DEF SafeInv, TypeOK, Call
    <3>2. \A p \in Requests : calls'[p] # Nil =>
            calls[p] # Nil /\ calls'[p].id = calls[p].id
      BY <1>1, <1>3, <1>5
    <3>3. CASE calls[q].pc = "insert"
      <4>1. calls[q].id # c.id
        BY <1>1, <2>3, <3>1, <3>3 DEF CallSound, KnownIds
      <4>2. /\ deposits[calls[q].id] # Nil
            /\ \A b \in Requests \ {q} :
                 calls[b] # Nil => calls[b].id # calls[q].id
        BY <2>3, <3>1, <3>3 DEF CallSound
      <4> QED
        BY <1>5, <3>1, <3>2, <3>3, <4>1, <4>2, CallKept
    <3>4. CASE calls[q].pc = "update"
      <4>1. PICK b : b = calls[q]
        OBVIOUS
      <4>2. /\ b.id \in KnownIds /\ deposits[b.id] # Nil
            /\ Applicable(b, deposits[b.id])
        BY <2>3, <3>1, <3>4, <4>1 DEF CallSound
      <4>3. /\ deposits'[b.id] # Nil
            /\ deposits[b.id].settlement # Nil => deposits'[b.id].settlement # Nil
            /\ deposits[b.id].reservation # Nil => deposits'[b.id].reservation # Nil
        BY <1>1, <1>2, <1>5, <3>1, <4>1, <4>2
      <4>4. Applicable(b, deposits'[b.id])
        BY <4>2, <4>3 DEF Applicable
      <4> QED
        BY <1>7, <3>1, <3>4, <4>1, <4>2, <4>3, <4>4, CallKept
    <3>5. CASE calls[q].pc \notin {"insert", "update"}
      BY <1>2, <1>5, <2>3, <3>1, <3>5 DEF CallSound
    <3> QED
      BY <3>3, <3>4, <3>5
  <2> QED
    BY <2>1, <2>2, <2>3
<1>9. NoNilDereference'
  <2>1. ASSUME NEW q \in Requests, calls'[q] # Nil, calls'[q].pc = "update"
        PROVE  Applicable(calls'[q], deposits'[calls'[q].id])
    BY <1>8, <2>1 DEF CallSound, Applicable
  <2>2. ASSUME NEW i \in Ids, deposits'[i] # Nil
        PROVE  /\ deposits'[i].state = "SETTLE_PROPOSED" =>
                    deposits'[i].settlement # Nil
               /\ deposits'[i].state = "PARTIALLY_RELEASED" =>
                    deposits'[i].reservation # Nil
    BY <1>2, <1>5, <2>2 DEF SafeInv, NoNilDereference
  <2> QED
    BY <2>1, <2>2 DEF NoNilDereference, Applicable
<1>10. AuditMatchesHistory'
  <2>1. ASSUME NEW i \in Ids, deposits'[i] # Nil
        PROVE  /\ deposits'[i].history # << >>
               /\ deposits'[i].state
                    = deposits'[i].history[Len(deposits'[i].history)].state
               /\ audit'[i] # << >> => audit'[i] = deposits'[i].history
               /\ audit'[i] = << >> => Len(deposits'[i].history) = 1
    <3>1. CASE i = c.id
      <4>1. deposits'[i].history = h /\ deposits'[i].state = c.to /\ audit'[i] = h
        BY <1>2, <1>5, <3>1
      <4>2. h # << >> /\ h[Len(h)].state = c.to
        BY <1>4
      <4> QED
        BY <4>1, <4>2
    <3>2. CASE i # c.id
      BY <1>5, <2>1, <3>2 DEF SafeInv, AuditMatchesHistory, History
    <3> QED
      BY <3>1, <3>2
  <2> QED
    BY <2>1 DEF AuditMatchesHistory, History
<1>11. \A i \in KnownIds' : deposits'[i] # Nil
  BY <1>2, <1>5, <1>7 DEF SafeInv, KnownIds
<1> QED
  BY <1>6, <1>8, <1>9, <1>10, <1>11 DEF SafeInv

(* The empty tables satisfy SafeInv. *)
LEMMA SafeInit == Init => SafeInv
BY LifecycleAssumption
DEF Init, SafeInv, TypeOK, CallSound, NoNilDereference, AuditMatchesHistory, KnownIds

(* Every step preserves SafeInv. *)
LEMMA SafeStep == SafeInv /\ [Next]_vars => SafeInv'
<1> SUFFICES ASSUME SafeInv, [Next]_vars PROVE SafeInv'
  OBVIOUS
<1>1. CASE UNCHANGED vars
  BY <1>1
  DEF vars, SafeInv, TypeOK, CallSound, NoNilDereference, AuditMatchesHistory, KnownIds,
      History, Shape, Applicable
<1> QED
  BY <1>1, StepKinds, SafeSubmit, SafeQuiet, SafeCreate, SafeInsert, SafeUpdate

(* SafeInv holds in every reachable state. *)
LEMMA SafeInvariant == Spec => []SafeInv
BY SafeInit, SafeStep, PTL DEF Spec

(* No request, however it overlaps with others, writes a malformed document: *)
(* every variable keeps its type.                                            *)
THEOREM TypeCorrect == Spec => []TypeOK
<1>1. SafeInv => TypeOK
  BY DEF SafeInv
<1> QED
  BY <1>1, SafeInvariant, PTL

(* The pointers a patch follows are set whenever UpdateState may run it,     *)
(* although the handler checked them on an older copy.                       *)
THEOREM PointersSet == Spec => []NoNilDereference
<1>1. SafeInv => NoNilDereference
  BY DEF SafeInv
<1> QED
  BY <1>1, SafeInvariant, PTL

(* Document, history and audit table agree after every step.                 *)
THEOREM AuditAgrees == Spec => []AuditMatchesHistory
<1>1. SafeInv => AuditMatchesHistory
  BY DEF SafeInv
<1> QED
  BY <1>1, SafeInvariant, PTL

-----------------------------------------------------------------------------
(* How the histories change. *)

(* The current state is one the history records. *)
LEMMA StateVisited ==
  ASSUME SafeInv, NEW id \in Ids, deposits[id] # Nil
  PROVE  deposits[id].state \in Visited(id)
<1>1. /\ History(id) # << >> /\ History(id) \in Seq(HistoryEntry)
      /\ deposits[id].state = History(id)[Len(History(id))].state
  BY DEF SafeInv, AuditMatchesHistory, TypeOK, Deposit, History
<1>2. Len(History(id)) \in 1 .. Len(History(id))
  BY <1>1, EmptySeq, LenProperties
<1> QED
  BY <1>1, <1>2 DEF Visited

(* One history gets one more entry: the old entries stay where they are, and *)
(* the states visited grow by the state written.                             *)
Grows(id, c, d) ==
  LET h == d.history
      g == deposits'[id].history
  IN  /\ Len(h) \in Nat /\ Len(g) = Len(h) + 1
      /\ \A k \in 1 .. Len(h) : g[k] = h[k]
      /\ g[Len(h) + 1] = [state |-> c.to, actor |-> c.actor]
      /\ Visited(id)' = Visited(id) \cup {c.to}
      /\ \A i \in Ids \ {id} :
           deposits'[i] = deposits[i] /\ Visited(i)' = Visited(i)

(* A commit makes one history grow. *)
LEMMA HistoryGrows ==
  ASSUME SafeInv, NEW r \in Requests, NEW c \in Call, NEW d \in Deposit,
         Commits(r, c, d), NEW id \in Ids, id = c.id
  PROVE  Grows(id, c, d)
<1> DEFINE e == [state |-> c.to, actor |-> c.actor]
           h == d.history
           g == deposits'[id].history
<1>1. /\ d = deposits[id]
      /\ deposits' = [deposits EXCEPT ![id] = Written(c, d)]
      /\ Shape(c) /\ Applicable(c, d)
  BY DEF Commits
<1>2. e.state = c.to /\ e \in HistoryEntry
  BY <1>1 DEF Call, HistoryEntry
<1>3. h \in Seq(HistoryEntry)
  BY <1>1 DEF Deposit
<1>4. g = Append(h, e)
  <2>1. deposits'[id] = Written(c, d)
    BY <1>1 DEF SafeInv, TypeOK
  <2> QED
    BY <1>1, <2>1, WrittenFacts
<1> HIDE DEF e, g, h
<1>5. /\ Len(h) \in Nat /\ Len(g) = Len(h) + 1
      /\ \A k \in 1 .. Len(h) : g[k] = h[k]
      /\ g[Len(h) + 1] = e
  BY <1>2, <1>3, <1>4, AppendFacts
<1>6. \A i \in Ids \ {id} : deposits'[i] = deposits[i]
  BY <1>1 DEF SafeInv, TypeOK
<1>7. \A i \in Ids \ {id} : Visited(i)' = Visited(i)
  BY <1>6 DEF Visited, History
<1>8. Visited(id)' = Visited(id) \cup {c.to}
  <2>1. Visited(id)' = {g[k].state : k \in 1 .. Len(g)}
    BY DEF Visited, History, g
  <2>2. Visited(id) = {h[k].state : k \in 1 .. Len(h)}
    BY <1>1 DEF Visited, History, h
  <2>3. 1 .. Len(g) = (1 .. Len(h)) \cup {Len(h) + 1}
    BY <1>5
  <2> QED
    BY <1>2, <1>5, <2>1, <2>2, <2>3
<1> QED
  BY <1>5, <1>6, <1>7, <1>8 DEF Grows, e, g, h

(* A step either writes one row or leaves all rows alone. *)
LEMMA CommitOrPrepare ==
  ASSUME SafeInv, [Next]_vars
  PROVE  Preparing \/ \E r \in Requests : UpdateState(r)
<1> USE DEF Preparing
<1>1. CASE UNCHANGED vars
  BY <1>1 DEF vars
<1>2. ASSUME NEW r \in Requests, CreateDeposit(r) PROVE Preparing
  <2>1. PICK id \in Ids, a \in Applications :
          /\ deposits[id] = Nil
          /\ deposits' = [deposits EXCEPT ![id] =
               [type |-> a.type, amount |-> a.amount, eid |-> a.eid,
                pledged |-> a.pledged, settlement |-> a.settlement,
                reservation |-> a.reservation,
                state |-> "REQUESTED", history |-> <<FirstEntry>>]]
          /\ calls' = [calls EXCEPT ![r] =
               [pc |-> "insert", op |-> "CreateDeposit", id |-> id,
                seen |-> "REQUESTED", to |-> "REQUESTED", actor |-> "TENANT",
                settlement |-> Nil, reservation |-> Nil, agreed |-> NoSplit]]
    BY <1>2 DEF CreateDeposit
  <2> QED
    BY <2>1 DEF SafeInv, TypeOK
<1>3. ASSUME NEW r \in Requests, InsertHistory(r) PROVE Preparing
  BY <1>3 DEF InsertHistory, SafeInv, TypeOK
<1>4. ASSUME NEW r \in Requests, WindsDown(r) PROVE Preparing
  <2>1. PICK x \in {Nil, [calls[r] EXCEPT !.pc = "notify"]} :
          calls' = [calls EXCEPT ![r] = x] /\ deposits' = deposits
    BY <1>4 DEF WindsDown
  <2>2. x = Nil \/ x.pc = "notify"
    BY <1>4, <2>1 DEF WindsDown, SafeInv, TypeOK, Call
  <2> QED
    BY <2>1, <2>2 DEF SafeInv, TypeOK
<1>5. ASSUME NEW r \in Requests, NEW c, Admitted(c), Submit(r, c) PROVE Preparing
  <2>1. /\ \A q \in Requests \ {r} : calls'[q] = calls[q]
        /\ calls'[r] = c /\ deposits' = deposits
    BY <1>5 DEF Submit, SafeInv, TypeOK
  <2> QED
    BY <1>5, <2>1
<1> QED
  BY <1>1, <1>2, <1>3, <1>4, <1>5, StepKinds

(* How the states visited change in such a step. *)
LEMMA PreparingVisited ==
  ASSUME SafeInv, SafeInv', Preparing, NEW id \in Ids, deposits'[id] # Nil
  PROVE  /\ deposits[id] # Nil =>
              deposits'[id] = deposits[id] /\ Visited(id)' = Visited(id)
         /\ deposits[id] = Nil => Visited(id)' = {"REQUESTED"}
<1>1. CASE deposits[id] # Nil
  BY <1>1 DEF Preparing, Visited, History
<1>2. CASE deposits[id] = Nil
  <2>1. History(id)' = <<FirstEntry>>
    BY <1>2 DEF Preparing, History
  <2> QED
    BY <1>2, <2>1 DEF Visited, FirstEntry
<1> QED
  BY <1>1, <1>2

(* UpdateState adds its state to the history of its deposit. *)
LEMMA CommitVisited ==
  ASSUME SafeInv, SafeInv', NEW r \in Requests, UpdateState(r)
  PROVE  \E c \in Call, id \in Ids :
           /\ c = calls[r] /\ id = c.id /\ Shape(c)
           /\ calls' = [calls EXCEPT ![r] = [c EXCEPT !.pc = AfterUpdate(c.op)]]
           /\ deposits'[id] # Nil
           /\ Visited(id)' = Visited(id) \cup {c.to}
           /\ \A i \in Ids \ {id} :
                deposits'[i] = deposits[i] /\ Visited(i)' = Visited(i)
<1>1. PICK c \in Call, d \in Deposit : Commits(r, c, d)
  BY UpdateFacts
<1>2. /\ c = calls[r] /\ c.id \in Ids /\ Shape(c)
      /\ calls' = [calls EXCEPT ![r] = [c EXCEPT !.pc = AfterUpdate(c.op)]]
  BY <1>1 DEF Commits
<1>3. PICK id \in Ids : id = c.id
  BY <1>2
<1>4. Grows(id, c, d)
  BY <1>1, <1>3, HistoryGrows
<1>5. /\ Visited(id)' = Visited(id) \cup {c.to}
      /\ \A i \in Ids \ {id} :
           deposits'[i] = deposits[i] /\ Visited(i)' = Visited(i)
  BY <1>4 DEF Grows
<1>6. deposits'[id] # Nil
  <2>1. calls'[r] = [c EXCEPT !.pc = AfterUpdate(c.op)]
    BY <1>2 DEF SafeInv, TypeOK
  <2>2. calls'[r].id = id /\ calls'[r] \in Call
    BY <1>3, <2>1 DEF Call, AfterUpdate
  <2> QED
    BY <2>2, LifecycleAssumption DEF SafeInv, CallSound
<1> QED
  BY <1>2, <1>3, <1>5, <1>6

(* What a history records stays recorded. *)
LEMMA VisitedStays ==
  ASSUME SafeInv, SafeInv', [Next]_vars, NEW id \in Ids, deposits[id] # Nil
  PROVE  deposits'[id] # Nil /\ \A x \in Visited(id) : x \in Visited(id)'
<1>1. CASE Preparing
  BY <1>1 DEF Preparing, Visited, History
<1>2. ASSUME NEW r \in Requests, UpdateState(r)
      PROVE  deposits'[id] # Nil /\ \A x \in Visited(id) : x \in Visited(id)'
  BY <1>2, CommitVisited
<1> QED
  BY <1>1, <1>2, CommitOrPrepare

(* A step of the lifecycle leaves the entries of a history where they are. *)
LEMMA EntriesStay ==
  ASSUME SafeInv, SafeInv', [Next]_vars, NEW id \in Ids, deposits[id] # Nil,
         NEW h, h = deposits[id].history, NEW g, g = deposits'[id].history
  PROVE  /\ deposits'[id] # Nil
         /\ Len(h) \in Nat /\ Len(g) \in Nat /\ Len(h) <= Len(g)
         /\ \A k \in 1 .. Len(h) : g[k] = h[k]
<1>a. deposits'[id] # Nil
  BY VisitedStays
<1>b. Len(h) \in Nat
  BY LenProperties DEF SafeInv, TypeOK, Deposit
<1>1. CASE Preparing
  BY <1>1, <1>a, <1>b DEF Preparing
<1>2. ASSUME NEW r \in Requests, UpdateState(r)
      PROVE  /\ Len(g) \in Nat /\ Len(h) <= Len(g)
             /\ \A k \in 1 .. Len(h) : g[k] = h[k]
  <2>1. PICK c \in Call, d \in Deposit : Commits(r, c, d)
    BY <1>2, UpdateFacts
  <2>2. PICK i \in Ids : i = c.id /\ d = deposits[i]
    BY <2>1 DEF Commits
  <2>3. Grows(i, c, d)
    BY <2>1, <2>2, HistoryGrows
  <2>4. CASE i # id
    <3>1. deposits'[id] = deposits[id]
      BY <2>3, <2>4 DEF Grows
    <3> QED
      BY <3>1, <1>b
  <2>5. CASE i = id
    <3>1. Len(g) = Len(h) + 1 /\ \A k \in 1 .. Len(h) : g[k] = h[k]
      BY <2>2, <2>3, <2>5 DEF Grows
    <3> QED
      BY <3>1, <1>b
  <2> QED
    BY <2>4, <2>5
<1> QED
  BY <1>1, <1>2, <1>a, <1>b, CommitOrPrepare

-----------------------------------------------------------------------------
(* Every state was reached by a legal transition from an earlier one. *)

(* Every step of a handler keeps the histories justified. *)
LEMMA JustifiedStep ==
  ASSUME SafeInv, SafeInv', JustifiedInv, [Next]_vars
  PROVE  JustifiedInv'
<1>1. CASE Preparing
  <2>1. ASSUME NEW id \in Ids, deposits'[id] # Nil
        PROVE  /\ Len(History(id)') > 0
               /\ History(id)'[1].state = "REQUESTED"
               /\ \A k \in 2 .. Len(History(id)') :
                    \E j \in 1 .. (k - 1) :
                      Follows(History(id)'[j].state, History(id)'[k].state)
    <3>1. CASE deposits[id] # Nil
      BY <1>1, <3>1 DEF Preparing, JustifiedInv, HistoryJustified, History
    <3>2. CASE deposits[id] = Nil
      <4>1. History(id)' = <<FirstEntry>>
        BY <1>1, <2>1, <3>2 DEF Preparing, History
      <4> QED
        BY <4>1 DEF FirstEntry
    <3> QED
      BY <3>1, <3>2
  <2>2. ASSUME NEW r \in Requests, calls'[r] # Nil, calls'[r].pc = "update",
               NEW id \in Ids, id = calls'[r].id
        PROVE  \E from \in Visited(id)' : Follows(from, calls'[r].to)
    <3>1. deposits'[id] # Nil
      BY <2>2 DEF SafeInv, CallSound
    <3>2. CASE calls'[r] = calls[r]
      <4>1. deposits[id] # Nil /\ \E from \in Visited(id) : Follows(from, calls[r].to)
        BY <2>2, <3>2 DEF SafeInv, CallSound, JustifiedInv
      <4> QED
        BY <1>1, <3>1, <3>2, <4>1, PreparingVisited
    <3>3. ASSUME NEW c, calls'[r] = c, Admitted(c)
          PROVE  \E from \in Visited(id)' : Follows(from, calls'[r].to)
      <4>1. deposits[id] # Nil /\ Follows(deposits[id].state, c.to)
        BY <2>2, <3>3 DEF Admitted, SafeInv
      <4>2. deposits[id].state \in Visited(id)
        BY <4>1, StateVisited
      <4> QED
        BY <1>1, <3>1, <3>3, <4>1, <4>2, PreparingVisited
    <3> QED
      BY <1>1, <2>2, <3>2, <3>3 DEF Preparing
  <2>3. \A r \in Requests : calls'[r] # Nil => calls'[r].id \in Ids
    BY DEF SafeInv, TypeOK, Call
  <2> QED
    BY <2>1, <2>2, <2>3 DEF JustifiedInv, HistoryJustified
<1>2. ASSUME NEW r \in Requests, UpdateState(r) PROVE JustifiedInv'
  <2>0. PICK c \in Call, d \in Deposit : Commits(r, c, d)
    BY <1>2, UpdateFacts
  <2>1. PICK id \in Ids : id = c.id /\ c = calls[r] /\ d = deposits[id]
    BY <2>0 DEF Commits
  <2> DEFINE h == d.history
             g == deposits'[id].history
  <2>2. /\ Len(h) \in Nat /\ Len(g) = Len(h) + 1
        /\ \A k \in 1 .. Len(h) : g[k] = h[k]
        /\ g[Len(h) + 1] = [state |-> c.to, actor |-> c.actor]
        /\ Visited(id)' = Visited(id) \cup {c.to}
        /\ \A i \in Ids \ {id} :
             deposits'[i] = deposits[i] /\ Visited(i)' = Visited(i)
    <3>1. Grows(id, c, d)
      BY <2>0, <2>1, HistoryGrows
    <3> QED
      BY <3>1 DEF Grows
  <2>3. /\ c # Nil /\ c.pc = "update" /\ d # Nil
        /\ calls' = [calls EXCEPT ![r] = [c EXCEPT !.pc = AfterUpdate(c.op)]]
        /\ AfterUpdate(c.op) # "update"
    BY <2>0 DEF Commits
  <2>4. /\ Len(h) > 0 /\ h[1].state = "REQUESTED"
        /\ \A k \in 2 .. Len(h) : \E j \in 1 .. (k - 1) : Follows(h[j].state, h[k].state)
    BY <2>1, <2>3 DEF JustifiedInv, HistoryJustified, History
  <2>5. \E j \in 1 .. Len(h) : Follows(h[j].state, c.to)
    <3>1. PICK from \in Visited(id) : Follows(from, c.to)
      BY <2>1, <2>3 DEF JustifiedInv
    <3> QED
      BY <2>1, <3>1 DEF Visited, History
  <2> HIDE DEF g, h
  <2>6. /\ Len(g) > 0 /\ g[1].state = "REQUESTED"
        /\ \A k \in 2 .. Len(g) : \E j \in 1 .. (k - 1) : Follows(g[j].state, g[k].state)
    <3>1. Len(g) > 0 /\ g[1].state = "REQUESTED"
      BY <2>2, <2>4
    <3>2. ASSUME NEW k \in 2 .. Len(g)
          PROVE  \E j \in 1 .. (k - 1) : Follows(g[j].state, g[k].state)
      <4>1. CASE k \in 2 .. Len(h)
        <5>1. PICK j \in 1 .. (k - 1) : Follows(h[j].state, h[k].state)
          BY <2>4, <4>1
        <5>2. g[j] = h[j] /\ g[k] = h[k]
          BY <2>2, <4>1
        <5> QED
          BY <5>1, <5>2
      <4>2. CASE k = Len(h) + 1
        <5>1. PICK j \in 1 .. Len(h) : Follows(h[j].state, c.to)
          BY <2>5
        <5>2. g[j] = h[j] /\ g[k].state = c.to /\ j \in 1 .. (k - 1)
          BY <2>2, <4>2
        <5> QED
          BY <5>1, <5>2
      <4> QED
        BY <2>2, <4>1, <4>2
    <3> QED
      BY <3>1, <3>2
  <2>7. HistoryJustified'
    BY <2>2, <2>6 DEF HistoryJustified, History, JustifiedInv, g
  <2>8. ASSUME NEW q \in Requests, calls'[q] # Nil, calls'[q].pc = "update",
               NEW i \in Ids, i = calls'[q].id
        PROVE  \E from \in Visited(i)' : Follows(from, calls'[q].to)
    <3>1. q # r /\ calls'[q] = calls[q]
      BY <2>3, <2>8 DEF SafeInv, TypeOK, Call
    <3>2. \E from \in Visited(i) : Follows(from, calls[q].to)
      BY <2>8, <3>1 DEF JustifiedInv
    <3> QED
      BY <2>2, <3>1, <3>2
  <2>9. \A q \in Requests : calls'[q] # Nil => calls'[q].id \in Ids
    BY DEF SafeInv, TypeOK, Call
  <2> QED
    BY <2>7, <2>8, <2>9 DEF JustifiedInv
<1> QED
  BY <1>1, <1>2, CommitOrPrepare

(* However requests overlap, each state in a deposit's history was reached   *)
(* by a legal transition from a state recorded earlier in it.                *)
THEOREM HistoriesJustified == Spec => []HistoryJustified
<1>1. Init => JustifiedInv
  BY DEF Init, JustifiedInv, HistoryJustified
<1>2. SafeInv /\ SafeInv' /\ JustifiedInv /\ [Next]_vars => JustifiedInv'
  BY JustifiedStep
<1>3. JustifiedInv => HistoryJustified
  BY DEF JustifiedInv
<1> QED
  BY <1>1, <1>2, <1>3, SafeInvariant, PTL DEF Spec

-----------------------------------------------------------------------------
(* No money moves before the pledge. *)

(* A request that is neither the identity update nor the bank's confirmation *)
(* is admitted only in a state that one of the two has led to.               *)
LEMMA AdmittedAfter ==
  ASSUME NEW from \in LifecycleStates, NEW to \in LifecycleStates, Follows(from, to)
  PROVE  /\ to # "IDENTIFIED" => from # "REQUESTED"
         /\ to \in Secured /\ to # "PLEDGED" => from \in Secured \cup {"FUNDED"}
BY DEF Follows, CanTransition, validTransitions, Secured, LifecycleStates

(* Every step preserves PayoutInv. *)
LEMMA PayoutStep ==
  ASSUME SafeInv, SafeInv', PayoutInv, [Next]_vars
  PROVE  PayoutInv'
<1>a. \A r \in Requests : calls'[r] # Nil => calls'[r].id \in Ids
  BY DEF SafeInv, TypeOK, Call
<1>1. CASE Preparing
  <2>1. ASSUME NEW id \in Ids, deposits'[id] # Nil
        PROVE  /\ "FUNDED" \notin Visited(id)'
               /\ Visited(id)' # {"REQUESTED"} => deposits'[id].eid = "VERIFIED"
               /\ Visited(id)' \cap Secured # {} => deposits'[id].pledged
    <3>1. CASE deposits[id] # Nil
      BY <1>1, <2>1, <3>1, PreparingVisited DEF PayoutInv
    <3>2. CASE deposits[id] = Nil
      BY <1>1, <2>1, <3>2, PreparingVisited DEF Secured
    <3> QED
      BY <3>1, <3>2
  <2>2. ASSUME NEW r \in Requests, calls'[r] # Nil, calls'[r].pc = "update",
               NEW id \in Ids, id = calls'[r].id
        PROVE  /\ calls'[r].op # "UpdateIdentity" => deposits'[id].eid = "VERIFIED"
               /\ calls'[r].to \in Secured /\ calls'[r].op # "Pledge" =>
                    deposits'[id].pledged
    <3>1. CASE calls'[r] = calls[r]
      <4>1. deposits[id] # Nil
        BY <2>2, <3>1 DEF SafeInv, CallSound
      <4> QED
        BY <1>1, <2>2, <3>1, <4>1 DEF Preparing, PayoutInv
    <3>2. ASSUME NEW c, calls'[r] = c, Admitted(c)
          PROVE  /\ c.op # "UpdateIdentity" => deposits'[id].eid = "VERIFIED"
                 /\ c.to \in Secured /\ c.op # "Pledge" => deposits'[id].pledged
      <4> DEFINE from == deposits[id].state
      <4>1. /\ deposits[id] # Nil /\ deposits'[id] = deposits[id]
            /\ from \in LifecycleStates /\ c.to \in LifecycleStates
            /\ Follows(from, c.to)
        BY <1>1, <2>2, <3>2 DEF Admitted, SafeInv, Preparing, TypeOK, Deposit, Call
      <4>2. from \in Visited(id) /\ from # "FUNDED"
        BY <4>1, StateVisited DEF PayoutInv
      <4>3. c.op # "UpdateIdentity" => from # "REQUESTED"
        BY <3>2, <4>1, AdmittedAfter DEF Admitted, Shape
      <4>4. c.to \in Secured /\ c.op # "Pledge" => from \in Secured
        <5>1. CASE c.op = "ReceiveVpResponse"
          BY <2>2, <3>2, <5>1 DEF Admitted, Secured, LifecycleStates
        <5>2. CASE c.op # "ReceiveVpResponse"
          BY <3>2, <4>1, <4>2, <5>2, AdmittedAfter DEF Admitted, Shape
        <5> QED
          BY <5>1, <5>2
      <4> HIDE DEF from
      <4> QED
        BY <4>1, <4>2, <4>3, <4>4 DEF PayoutInv
    <3> QED
      BY <1>1, <2>2, <3>1, <3>2 DEF Preparing
  <2> QED
    BY <1>a, <2>1, <2>2 DEF PayoutInv
<1>2. ASSUME NEW r \in Requests, UpdateState(r) PROVE PayoutInv'
  <2>0. PICK c \in Call, d \in Deposit : Commits(r, c, d)
    BY <1>2, UpdateFacts
  <2>1. PICK id \in Ids : id = c.id /\ c = calls[r] /\ d = deposits[id]
    BY <2>0 DEF Commits
  <2> DEFINE w == deposits'[id]
  <2>2. /\ Visited(id)' = Visited(id) \cup {c.to}
        /\ \A i \in Ids \ {id} :
             deposits'[i] = deposits[i] /\ Visited(i)' = Visited(i)
    <3>1. Grows(id, c, d)
      BY <2>0, <2>1, HistoryGrows
    <3> QED
      BY <3>1 DEF Grows
  <2>3. /\ c # Nil /\ c.pc = "update" /\ d # Nil
        /\ Shape(c) /\ Applicable(c, d)
        /\ w = Written(c, d)
        /\ calls' = [calls EXCEPT ![r] = [c EXCEPT !.pc = AfterUpdate(c.op)]]
        /\ AfterUpdate(c.op) # "update"
    BY <2>0, <2>1 DEF Commits, SafeInv, TypeOK
  <2>4. /\ d.pledged \/ c.op = "Pledge" => w.pledged
        /\ c.op = "UpdateIdentity" => w.eid = "VERIFIED"
        /\ c.op # "UpdateIdentity" => w.eid = d.eid
    <3>1. (Patch(c, d).pledged => w.pledged) /\ w.eid = Patch(c, d).eid
      BY <2>3, WrittenFacts
    <3>2. /\ d.pledged \/ c.op = "Pledge" => Patch(c, d).pledged
          /\ c.op = "UpdateIdentity" => Patch(c, d).eid = "VERIFIED"
          /\ c.op # "UpdateIdentity" => Patch(c, d).eid = d.eid
      BY <2>3, PatchFacts
    <3> QED
      BY <3>1, <3>2
  <2>5. /\ c.op # "UpdateIdentity" => d.eid = "VERIFIED"
        /\ c.to \in Secured /\ c.op # "Pledge" => d.pledged
        /\ c.to # "FUNDED" /\ c.to # "REQUESTED"
    BY <2>1, <2>3 DEF PayoutInv, Shape
  <2>6. /\ "FUNDED" \notin Visited(id)
        /\ Visited(id) \cap Secured # {} => d.pledged
    BY <2>1, <2>3 DEF PayoutInv
  <2> HIDE DEF w
  <2>7. ASSUME NEW i \in Ids, deposits'[i] # Nil
        PROVE  /\ "FUNDED" \notin Visited(i)'
               /\ Visited(i)' # {"REQUESTED"} => deposits'[i].eid = "VERIFIED"
               /\ Visited(i)' \cap Secured # {} => deposits'[i].pledged
    <3>1. CASE i = id
      BY <2>2, <2>4, <2>5, <2>6, <3>1 DEF w
    <3>2. CASE i # id
      BY <2>2, <2>7, <3>2 DEF PayoutInv
    <3> QED
      BY <3>1, <3>2
  <2>8. ASSUME NEW q \in Requests, calls'[q] # Nil, calls'[q].pc = "update",
               NEW i \in Ids, i = calls'[q].id
        PROVE  /\ calls'[q].op # "UpdateIdentity" => deposits'[i].eid = "VERIFIED"
               /\ calls'[q].to \in Secured /\ calls'[q].op # "Pledge" =>
                    deposits'[i].pledged
    <3>1. q # r /\ calls'[q] = calls[q]
      BY <2>3, <2>8 DEF SafeInv, TypeOK, Call
    <3>2. /\ calls[q].op # "UpdateIdentity" => deposits[i].eid = "VERIFIED"
          /\ calls[q].to \in Secured /\ calls[q].op # "Pledge" => deposits[i].pledged
      BY <2>8, <3>1 DEF PayoutInv
    <3>3. CASE i = id
      BY <2>1, <2>4, <3>1, <3>2, <3>3 DEF w
    <3>4. CASE i # id
      BY <2>2, <3>1, <3>2, <3>4
    <3> QED
      BY <3>3, <3>4
  <2> QED
    BY <1>a, <2>7, <2>8 DEF PayoutInv
<1> QED
  BY <1>1, <1>2, CommitOrPrepare

(* PayoutInv holds in every reachable state. *)
LEMMA PayoutInvariant == Spec => []PayoutInv
<1>1. Init => PayoutInv
  BY DEF Init, PayoutInv
<1>2. SafeInv /\ SafeInv' /\ PayoutInv /\ [Next]_vars => PayoutInv'
  BY PayoutStep
<1> QED
  BY <1>1, <1>2, SafeInvariant, PTL DEF Spec

(* A deposit that ever was PLEDGED or further has a verified tenant and a    *)
(* pledge confirmed by the bank, and keeps both.                             *)
THEOREM PledgeBacksEveryPayout == Spec => []PledgeBacksPayout
<1>1. PayoutInv => PledgeBacksPayout
  <2> SUFFICES ASSUME PayoutInv, NEW id \in Ids, deposits[id] # Nil,
                      NEW k \in 1 .. Len(History(id)), History(id)[k].state \in Secured
               PROVE  deposits[id].pledged /\ deposits[id].eid = "VERIFIED"
    BY DEF PledgeBacksPayout
  <2>1. History(id)[k].state \in Visited(id) /\ "REQUESTED" \notin Secured
    BY DEF Visited, Secured
  <2> QED
    BY <2>1 DEF PayoutInv
<1> QED
  BY <1>1, PayoutInvariant, PTL

-----------------------------------------------------------------------------
(* The last proposer on file is the last one in the history. *)

(* What LastProposerRecorded says of one document. *)
ProposerOnFile(d) ==
  \A k \in 1 .. Len(d.history) :
    /\ d.history[k].state = "SETTLE_PROPOSED"
    /\ \A j \in (k + 1) .. Len(d.history) :
         d.history[j].state # "SETTLE_PROPOSED"
    => /\ d.settlement # Nil
       /\ d.settlement.lastProposedBy = d.history[k].actor

(* UpdateState replaces the proposer exactly when it records a proposal. *)
LEMMA ProposerWritten ==
  ASSUME NEW c \in Call, NEW d \in Deposit, Shape(c), Applicable(c, d),
         ProposerOnFile(d)
  PROVE  ProposerOnFile(Written(c, d))
<1> DEFINE w == Written(c, d)
           h == d.history
           g == w.history
           e == [state |-> c.to, actor |-> c.actor]
<1>1. g = Append(h, e) /\ w.settlement = Patch(c, d).settlement
  BY WrittenFacts
<1>2. h \in Seq(HistoryEntry) /\ e \in HistoryEntry
  BY DEF Deposit, Call, HistoryEntry
<1>3. e.state = c.to /\ e.actor = c.actor
  OBVIOUS
<1>4. c.to = "SETTLE_PROPOSED" =>
        w.settlement # Nil /\ w.settlement.lastProposedBy = c.actor
  <2>1. c.to = "SETTLE_PROPOSED" => Patch(c, d).settlement = c.settlement
    BY PatchFacts
  <2> QED
    BY <1>1, <2>1 DEF Shape
<1>5. c.to # "SETTLE_PROPOSED" /\ d.settlement # Nil =>
        /\ w.settlement # Nil
        /\ w.settlement.lastProposedBy = d.settlement.lastProposedBy
  <2>1. c.to # "SETTLE_PROPOSED" /\ d.settlement # Nil =>
          /\ Patch(c, d).settlement # Nil
          /\ Patch(c, d).settlement.lastProposedBy = d.settlement.lastProposedBy
    BY PatchFacts
  <2> QED
    BY <1>1, <2>1
<1> HIDE DEF w, h, g, e
<1>6. /\ Len(h) \in Nat /\ Len(g) = Len(h) + 1
      /\ \A k \in 1 .. Len(h) : g[k] = h[k]
      /\ g[Len(h) + 1] = e
  BY <1>1, <1>2, AppendFacts
<1>7. ASSUME NEW k \in 1 .. Len(g), g[k].state = "SETTLE_PROPOSED",
             \A j \in (k + 1) .. Len(g) : g[j].state # "SETTLE_PROPOSED"
      PROVE  w.settlement # Nil /\ w.settlement.lastProposedBy = g[k].actor
  <2>1. CASE k = Len(h) + 1
    <3>1. g[k] = e
      BY <1>6, <2>1
    <3> QED
      BY <1>3, <1>4, <1>7, <3>1
  <2>2. CASE k # Len(h) + 1
    <3>1. /\ k \in 1 .. Len(h) /\ Len(h) + 1 \in (k + 1) .. Len(g)
          /\ \A j \in (k + 1) .. Len(h) :
               j \in 1 .. Len(h) /\ j \in (k + 1) .. Len(g)
      BY <1>6, <2>2
    <3>2. c.to # "SETTLE_PROPOSED" /\ g[k] = h[k]
      BY <1>3, <1>6, <1>7, <3>1
    <3>3. \A j \in (k + 1) .. Len(h) : h[j].state # "SETTLE_PROPOSED"
      BY <1>6, <1>7, <3>1
    <3>4. d.settlement # Nil /\ d.settlement.lastProposedBy = h[k].actor
      BY <1>7, <3>1, <3>2, <3>3 DEF ProposerOnFile, h
    <3> QED
      BY <1>5, <3>2, <3>4
  <2> QED
    BY <2>1, <2>2
<1> QED
  BY <1>7 DEF ProposerOnFile, w, g

(* Every step preserves LastProposerRecorded. *)
LEMMA ProposerStep ==
  ASSUME SafeInv, SafeInv', LastProposerRecorded, [Next]_vars
  PROVE  LastProposerRecorded'
<1>1. \A id \in Ids : deposits[id] # Nil => ProposerOnFile(deposits[id])
  BY DEF LastProposerRecorded, History, ProposerOnFile
<1>2. ASSUME NEW id \in Ids, deposits'[id] # Nil
      PROVE  \E d : d = deposits'[id] /\ ProposerOnFile(d)
  <2>1. CASE Preparing /\ deposits[id] # Nil
    BY <1>1, <2>1 DEF Preparing
  <2>2. CASE Preparing /\ deposits[id] = Nil
    <3>1. PICK d : d = deposits'[id] /\ d.history = <<FirstEntry>>
      BY <1>2, <2>2 DEF Preparing
    <3>2. ProposerOnFile(d)
      BY <3>1 DEF ProposerOnFile, FirstEntry
    <3> QED
      BY <3>1, <3>2
  <2>3. ASSUME NEW r \in Requests, UpdateState(r)
        PROVE  \E d : d = deposits'[id] /\ ProposerOnFile(d)
    <3>0. PICK c \in Call, d \in Deposit : Commits(r, c, d)
      BY <2>3, UpdateFacts
    <3>1. /\ c.id \in Ids /\ d = deposits[c.id] /\ d # Nil
          /\ Shape(c) /\ Applicable(c, d)
          /\ deposits' = [deposits EXCEPT ![c.id] = Written(c, d)]
      BY <3>0 DEF Commits
    <3>2. ProposerOnFile(Written(c, d))
      BY <1>1, <3>1, ProposerWritten
    <3>3. CASE id = c.id
      <4>1. deposits'[id] = Written(c, d)
        BY <3>1, <3>3 DEF SafeInv, TypeOK
      <4> QED
        BY <3>2, <4>1
    <3>4. CASE id # c.id
      <4>1. deposits'[id] = deposits[id]
        BY <3>1, <3>4 DEF SafeInv, TypeOK
      <4> QED
        BY <1>1, <1>2, <4>1
    <3> QED
      BY <3>3, <3>4
  <2> QED
    BY <2>1, <2>2, <2>3, CommitOrPrepare
<1> QED
  BY <1>2 DEF LastProposerRecorded, History, ProposerOnFile

(* The party recorded as last proposer is the one whose proposal the history *)
(* records last, even when proposals overwrite each other.                   *)
THEOREM LastProposerIsRecorded == Spec => []LastProposerRecorded
<1>1. Init => LastProposerRecorded
  BY DEF Init, LastProposerRecorded
<1>2. SafeInv /\ SafeInv' /\ LastProposerRecorded /\ [Next]_vars
        => LastProposerRecorded'
  BY ProposerStep
<1> QED
  BY <1>1, <1>2, SafeInvariant, PTL DEF Spec

-----------------------------------------------------------------------------
(* Finality. *)

(* Nothing is admitted on a CLOSED deposit. *)
LEMMA NothingFollowsClosed ==
  ASSUME NEW to PROVE ~ Follows("CLOSED", to)
BY DEF Follows, CanTransition, validTransitions

(* A CLOSED deposit with no earlier request on its way never changes again,  *)
(* whatever is requested.                                                    *)
THEOREM ClosedStaysAtRest == Spec => ClosedIsFinalAtRest
<1>1. ASSUME SafeInv, SafeInv', [Next]_vars, NEW id \in Ids, ClosedAtRest(id)
      PROVE  deposits'[id] = deposits[id] /\ ClosedAtRest(id)'
  <2>1. /\ deposits[id] # Nil /\ deposits[id].state = "CLOSED"
        /\ \A r \in Requests : calls[r] # Nil /\ calls[r].pc = "update" =>
             calls[r].id # id
    BY <1>1 DEF ClosedAtRest, InFlight
  <2>2. CASE Preparing
    <3>1. deposits'[id] = deposits[id]
      BY <2>1, <2>2 DEF Preparing
    <3>2. ASSUME NEW r \in Requests, calls'[r] # Nil, calls'[r].pc = "update"
          PROVE  calls'[r].id # id
      <4>1. CASE calls'[r] = calls[r]
        BY <2>1, <3>2, <4>1
      <4>2. ASSUME NEW c, calls'[r] = c, Admitted(c) PROVE c.id # id
        BY <2>1, <4>2, NothingFollowsClosed DEF Admitted
      <4> QED
        BY <2>2, <3>2, <4>1, <4>2 DEF Preparing
    <3> QED
      BY <2>1, <3>1, <3>2 DEF ClosedAtRest, InFlight
  <2>3. ASSUME NEW r \in Requests, UpdateState(r)
        PROVE  deposits'[id] = deposits[id] /\ ClosedAtRest(id)'
    <3>0. PICK c \in Call, d \in Deposit : Commits(r, c, d)
      BY <1>1, <2>3, UpdateFacts
    <3>1. /\ c = calls[r] /\ c # Nil /\ c.pc = "update" /\ c.id \in Ids
          /\ calls' = [calls EXCEPT ![r] = [c EXCEPT !.pc = AfterUpdate(c.op)]]
          /\ AfterUpdate(c.op) # "update"
          /\ deposits' = [deposits EXCEPT ![c.id] = Written(c, d)]
      BY <3>0 DEF Commits
    <3>2. c.id # id
      BY <2>1, <3>1
    <3>3. deposits'[id] = deposits[id]
      BY <1>1, <3>1, <3>2 DEF SafeInv, TypeOK
    <3>4. ASSUME NEW q \in Requests, calls'[q] # Nil, calls'[q].pc = "update"
          PROVE  calls'[q].id # id
      <4>1. q # r /\ calls'[q] = calls[q]
        BY <1>1, <3>1, <3>4 DEF SafeInv, TypeOK, Call
      <4> QED
        BY <2>1, <3>4, <4>1
    <3> QED
      BY <2>1, <3>3, <3>4 DEF ClosedAtRest, InFlight
  <2> QED
    BY <1>1, <2>2, <2>3, CommitOrPrepare
<1>2. SafeInv /\ SafeInv' /\ [Next]_vars =>
        [\A id \in Ids : ClosedAtRest(id) =>
           deposits'[id] = deposits[id] /\ ClosedAtRest(id)']_vars
  BY <1>1
<1> QED
  BY <1>2, SafeInvariant, PTL DEF Spec, ClosedIsFinalAtRest

-----------------------------------------------------------------------------
(***************************************************************************)
(* Requests that do not overlap.  What is needed is less than one request  *)
(* at a time: no two requests on their way to UpdateState are about the    *)
(* same deposit.                                                           *)
(***************************************************************************)

OnItsWay(r) == calls[r] # Nil /\ calls[r].pc = "update"

OneAtATime ==
  \A r, q \in Requests :
    OnItsWay(r) /\ OnItsWay(q) /\ calls[r].id = calls[q].id => r = q

(***************************************************************************)
(* What a handler that sends c knows about the row d it has read, beyond   *)
(* Shape and Applicable.  Without overlap it still holds of the row that   *)
(* UpdateState locks.                                                      *)
(***************************************************************************)
Careful(c, d) ==
  /\ c.op \notin {"Settle", "ReceiveVpResponse"} => CanTransition(d.state, c.to)
  /\ c.op = "ReceiveVpResponse" => d.state = "PLEDGED" /\ c.actor = "WALLET"
  /\ c.op = "Settle" =>
       /\ d.state # "PARTIALLY_RELEASED"
       /\ \/ CanTransition(d.state, "SETTLE_PROPOSED")
          \/ /\ d.state = "SETTLE_PROPOSED"
             /\ d.settlement.lastProposedBy # c.actor
  /\ c.op \in {"Settle", "UtilityPropose"} =>
       c.actor \in Party /\ c.settlement.agreed = NoSplit
  /\ c.op = "SettleAccept" =>
       /\ d.state = "SETTLE_PROPOSED"
       /\ c.actor \in Party /\ c.actor # d.settlement.lastProposedBy
  /\ c.op = "DisputeResolve" => c.actor = "EXTERNAL"
  /\ c.op = "PartialRelease" => c.reservation.reserved > 0
  /\ c.op = "UtilityClose" =>
       d.state = "PARTIALLY_RELEASED" /\ c.actor = "LANDLORD"
  /\ c.op = "UtilityPropose" =>
       /\ d.state = "PARTIALLY_RELEASED"
       /\ c.settlement.proposed.retention \in 0 .. d.reservation.reserved
       /\ c.settlement.proposed.refund =
            d.reservation.reserved - c.settlement.proposed.retention
  /\ c.to = "CLOSED" <=> c.op \in {"SettleAccept", "DisputeResolve", "UtilityClose"}

(* No transition leads out of these states. *)
NoWayOut(states) ==
  \A from \in states, to \in LifecycleStates :
    CanTransition(from, to) => to \in states

(* UtilityProposalDividesReservation, for one document. *)
Divides(d) ==
  LET n == Len(d.history)
  IN  n > 1 /\ d.state = "SETTLE_PROPOSED"
        /\ d.history[n - 1].state = "PARTIALLY_RELEASED" =>
        /\ d.settlement.proposed.retention \in 0 .. d.reservation.reserved
        /\ d.settlement.proposed.refund =
             d.reservation.reserved - d.settlement.proposed.retention

(* What holds of a document on its own: it has something reserved while that *)
(* is pending, and where no transition leads out, the history stays.         *)
RowSound(d) ==
  /\ d.state = "PARTIALLY_RELEASED" => d.reservation.reserved > 0
  /\ \A states \in SUBSET LifecycleStates : NoWayOut(states) =>
       \A k \in 1 .. Len(d.history) :
         d.history[k].state \in states => d.state \in states
  /\ Divides(d)

(***************************************************************************)
(* The inductive invariant of non-overlapping requests: the row a request  *)
(* is about to write is the one its handler has read.                      *)
(***************************************************************************)
SerialInv ==
  /\ \A id \in Ids : deposits[id] # Nil => RowSound(deposits[id])
  /\ \A r \in Requests : OnItsWay(r) =>
       Careful(calls[r], deposits[calls[r].id])

-----------------------------------------------------------------------------
(* What the handlers know *)

(* The fields of a plain request. *)
LEMMA RequestFields ==
  ASSUME NEW id, NEW op, NEW to, NEW actor, NEW c, c = Request(id, op, to, actor)
  PROVE  c.op = op /\ c.to = to /\ c.actor = actor /\ c.id = id
BY DEF Request

(* A proposal starts with nothing agreed. *)
LEMMA ProposalFields ==
  ASSUME NEW opener, NEW by, NEW split
  PROVE  /\ Proposal(opener, by, split).agreed = NoSplit
         /\ Proposal(opener, by, split).proposed = split
BY DEF Proposal, BlankSettlement

(* A capped retention lies within the reservation. *)
LEMMA RetentionWithin ==
  ASSUME NEW shortfall \in Int, NEW reserved \in Int, shortfall > 0, reserved > 0
  PROVE  Retention(shortfall, reserved) \in 0 .. reserved
BY DEF Retention

(* A handler that checks the transition and nothing else is careful. *)
LEMMA PlainCareful ==
  ASSUME NEW d, NEW c, CanTransition(d.state, c.to), c.to # "CLOSED",
         c.op \in {"UpdateIdentity", "Pledge", "Release", "Claim", "Dispute"}
  PROVE  Careful(c, d)
BY DEF Careful

(* Every handler that gets as far as UpdateState is careful. *)
LEMMA HandlersCareful ==
  ASSUME SafeInv, SerialInv, NEW r \in Requests, Handle(r)
  PROVE  CreateDeposit(r) \/
           \E c : Submit(r, c) /\ c.id \in KnownIds /\ Careful(c, deposits[c.id])
<1>a. \A id \in KnownIds : /\ id \in Ids /\ deposits[id] # Nil
                           /\ deposits[id] \in Deposit /\ RowSound(deposits[id])
  BY DEF SafeInv, KnownIds, TypeOK, SerialInv
<1> DEFINE Goal == CreateDeposit(r) \/
             \E c : Submit(r, c) /\ c.id \in KnownIds /\ Careful(c, deposits[c.id])
<1>b. ASSUME NEW id \in KnownIds, NEW to, NEW actor, to # "CLOSED",
             NEW op \in {"UpdateIdentity", "Pledge", "Release", "Claim", "Dispute"},
             CanTransition(deposits[id].state, to),
             Submit(r, Request(id, op, to, actor))
      PROVE  Goal
  <2>1. PICK c : c = Request(id, op, to, actor)
    OBVIOUS
  <2>2. c.op = op /\ c.to = to /\ c.id = id
    BY <2>1, RequestFields
  <2>3. Careful(c, deposits[id])
    BY <1>b, <2>2, PlainCareful
  <2> QED
    BY <1>b, <2>1, <2>2, <2>3
<1> USE DEF Careful
<1>1. CASE UpdateIdentity(r)
  <2>1. PICK id \in KnownIds, eid \in EIDStatus :
          \E next \in StateForIdentityUpdate(eid) :
            /\ CanTransition(deposits[id].state, next)
            /\ Submit(r, Request(id, "UpdateIdentity", next, "IDENTITY_PROVIDER"))
    BY <1>1 DEF UpdateIdentity
  <2>2. /\ CanTransition(deposits[id].state, "IDENTIFIED")
        /\ Submit(r, Request(id, "UpdateIdentity", "IDENTIFIED", "IDENTITY_PROVIDER"))
    BY <2>1 DEF StateForIdentityUpdate
  <2> QED
    BY <1>b, <2>2
<1>2. CASE Pledge(r)
  BY <1>b, <1>2 DEF Pledge
<1>3. CASE Release(r)
  BY <1>b, <1>3 DEF Release
<1>4. CASE Claim(r)
  BY <1>b, <1>4 DEF Claim
<1>5. CASE Settle(r)
  <2>1. PICK id \in KnownIds, by \in Party, split \in Splits :
          LET d == deposits[id]
              first == d.state \in {"PLEDGED", "FUNDED"}
              counter == d.state = "SETTLE_PROPOSED"
          IN  /\ first \/ counter
              /\ first => CanTransition(d.state, "SETTLE_PROPOSED")
              /\ counter => d.settlement = Nil \/ d.settlement.lastProposedBy # by
              /\ Submit(r, [Request(id, "Settle", "SETTLE_PROPOSED", by)
                             EXCEPT !.settlement =
                   Proposal(IF first THEN by ELSE d.settlement.initiatedBy,
                            by, split)])
    BY <1>5 DEF Settle
  <2> DEFINE d == deposits[id]
             first == d.state \in {"PLEDGED", "FUNDED"}
             opener == IF first THEN by ELSE d.settlement.initiatedBy
             q == Request(id, "Settle", "SETTLE_PROPOSED", by)
             p == Proposal(opener, by, split)
             c == [q EXCEPT !.settlement = p]
  <2>2. /\ first \/ d.state = "SETTLE_PROPOSED"
        /\ first => CanTransition(d.state, "SETTLE_PROPOSED")
        /\ d.state = "SETTLE_PROPOSED" =>
             d.settlement = Nil \/ d.settlement.lastProposedBy # by
        /\ Submit(r, c)
    BY <2>1
  <2>3. d.state = "SETTLE_PROPOSED" => d.settlement.lastProposedBy # by
    BY <1>a, <2>2 DEF SafeInv, NoNilDereference
  <2>4. p.agreed = NoSplit
    BY ProposalFields
  <2> HIDE DEF p
  <2>5. /\ c.op = "Settle" /\ c.to = "SETTLE_PROPOSED" /\ c.actor = by
        /\ c.id = id /\ c.settlement = p
    BY DEF Request
  <2> HIDE DEF c
  <2>6. Careful(c, d)
    BY <2>2, <2>3, <2>4, <2>5
  <2> QED
    BY <2>2, <2>5, <2>6
<1>6. CASE SettleAccept(r)
  <2>1. PICK id \in KnownIds, by \in Party :
          /\ deposits[id].state = "SETTLE_PROPOSED"
          /\ deposits[id].settlement.lastProposedBy # by
          /\ Submit(r, [Request(id, "SettleAccept", "CLOSED", by)
                         EXCEPT !.settlement = deposits[id].settlement])
    BY <1>6 DEF SettleAccept
  <2> DEFINE c == [Request(id, "SettleAccept", "CLOSED", by)
                     EXCEPT !.settlement = deposits[id].settlement]
  <2>2. c.op = "SettleAccept" /\ c.to = "CLOSED" /\ c.actor = by /\ c.id = id
    BY DEF Request
  <2>3. Submit(r, c)
    BY <2>1
  <2>4. CanTransition("SETTLE_PROPOSED", "CLOSED")
    BY DEF CanTransition, validTransitions
  <2> HIDE DEF c
  <2> QED
    BY <2>1, <2>2, <2>3, <2>4
<1>7. CASE Dispute(r)
  BY <1>b, <1>7 DEF Dispute
<1>8. CASE DisputeResolve(r)
  <2>1. PICK id \in KnownIds, split \in Splits :
          /\ CanTransition(deposits[id].state, "CLOSED")
          /\ Submit(r, [Request(id, "DisputeResolve", "CLOSED", "EXTERNAL")
                         EXCEPT !.agreed = split])
    BY <1>8 DEF DisputeResolve
  <2> DEFINE c == [Request(id, "DisputeResolve", "CLOSED", "EXTERNAL")
                     EXCEPT !.agreed = split]
  <2>2. c.op = "DisputeResolve" /\ c.to = "CLOSED" /\ c.actor = "EXTERNAL" /\ c.id = id
    BY DEF Request
  <2>3. Submit(r, c)
    BY <2>1
  <2> HIDE DEF c
  <2> QED
    BY <2>1, <2>2, <2>3
<1>9. CASE PartialRelease(r)
  <2>1. PICK id \in KnownIds, h \in Holdbacks :
          /\ h.reserved > 0
          /\ CanTransition(deposits[id].state, "PARTIALLY_RELEASED")
          /\ Submit(r, [Request(id, "PartialRelease", "PARTIALLY_RELEASED",
                                "LANDLORD")
                         EXCEPT !.reservation =
                 [released |-> h.released, reserved |-> h.reserved,
                  resolved |-> FALSE]])
    BY <1>9 DEF PartialRelease
  <2> DEFINE u == [released |-> h.released, reserved |-> h.reserved,
                   resolved |-> FALSE]
             c == [Request(id, "PartialRelease", "PARTIALLY_RELEASED", "LANDLORD")
                     EXCEPT !.reservation = u]
  <2>2. u.reserved > 0
    BY <2>1
  <2>3. Submit(r, c)
    BY <2>1
  <2> HIDE DEF u
  <2>4. /\ c.op = "PartialRelease" /\ c.to = "PARTIALLY_RELEASED"
        /\ c.id = id /\ c.reservation = u
    BY DEF Request
  <2> HIDE DEF c
  <2> QED
    BY <2>1, <2>2, <2>3, <2>4
<1>10. CASE UtilitySettle(r)
  <2>1. PICK id \in KnownIds, bill \in UtilityBills :
          LET d == deposits[id]
              shortfall == bill.cost - bill.advance
              kept == Retention(shortfall, d.reservation.reserved)
          IN  /\ d.state = "PARTIALLY_RELEASED"
              /\ d.reservation # Nil
              /\ \/ Submit(r, Request(id, "UtilityClose", "CLOSED", "LANDLORD"))
                 \/ /\ shortfall > 0
                    /\ Submit(r, [Request(id, "UtilityPropose", "SETTLE_PROPOSED",
                                          "LANDLORD")
                                  EXCEPT !.settlement =
                         Proposal("LANDLORD", "LANDLORD",
                                  [refund |-> d.reservation.reserved - kept,
                                   retention |-> kept])])
    BY <1>10 DEF UtilitySettle
  <2> DEFINE d == deposits[id]
             shortfall == bill.cost - bill.advance
             kept == Retention(shortfall, d.reservation.reserved)
             split == [refund |-> d.reservation.reserved - kept,
                       retention |-> kept]
             p == Proposal("LANDLORD", "LANDLORD", split)
             close == Request(id, "UtilityClose", "CLOSED", "LANDLORD")
             c == [Request(id, "UtilityPropose", "SETTLE_PROPOSED", "LANDLORD")
                     EXCEPT !.settlement = p]
  <2>2. /\ d.state = "PARTIALLY_RELEASED"
        /\ d.reservation # Nil
        /\ Submit(r, close) \/ (shortfall > 0 /\ Submit(r, c))
    BY <2>1
  <2>3. /\ CanTransition("PARTIALLY_RELEASED", "CLOSED")
        /\ CanTransition("PARTIALLY_RELEASED", "SETTLE_PROPOSED")
    BY DEF CanTransition, validTransitions
  <2>4. CASE Submit(r, close)
    <3>1. /\ close.op = "UtilityClose" /\ close.to = "CLOSED"
          /\ close.actor = "LANDLORD" /\ close.id = id
      BY RequestFields
    <3> HIDE DEF close
    <3> QED
      BY <2>2, <2>3, <2>4, <3>1
  <2>5. CASE shortfall > 0 /\ Submit(r, c)
    <3>1. d.reservation.reserved \in Int /\ d.reservation.reserved > 0
      BY <1>a, <2>2 DEF Deposit, UtilityReservation, RowSound
    <3>2. shortfall \in Int
      <4>1. bill \in [cost : Int, advance : Int]
        BY LifecycleAssumption
      <4> QED
        BY <4>1
    <3> HIDE DEF shortfall
    <3>3. kept \in 0 .. d.reservation.reserved
      BY <2>5, <3>1, <3>2, RetentionWithin
    <3> HIDE DEF kept
    <3>4. split.retention = kept /\ split.refund = d.reservation.reserved - kept
      OBVIOUS
    <3>5. p.agreed = NoSplit /\ p.proposed = split
      BY ProposalFields
    <3> HIDE DEF p, split
    <3>6. /\ c.op = "UtilityPropose" /\ c.to = "SETTLE_PROPOSED"
          /\ c.actor = "LANDLORD" /\ c.id = id /\ c.settlement = p
      BY DEF Request
    <3> HIDE DEF c
    <3>7. Careful(c, d)
      BY <2>2, <2>3, <3>3, <3>4, <3>5, <3>6 DEF Party
    <3> QED
      BY <2>5, <3>6, <3>7
  <2> QED
    BY <2>2, <2>4, <2>5
<1>11. CASE ReceiveVpResponse(r)
  <2>1. PICK id \in KnownIds :
          /\ deposits[id].state = "PLEDGED"
          /\ Submit(r, Request(id, "ReceiveVpResponse", "PLEDGED", "WALLET"))
    BY <1>11 DEF ReceiveVpResponse
  <2>2. PICK c : c = Request(id, "ReceiveVpResponse", "PLEDGED", "WALLET")
    OBVIOUS
  <2>3. /\ c.op = "ReceiveVpResponse" /\ c.to = "PLEDGED" /\ c.actor = "WALLET"
        /\ c.id = id
    BY <2>2, RequestFields
  <2>4. Careful(c, deposits[id])
    BY <2>1, <2>3
  <2> QED
    BY <2>1, <2>2, <2>3, <2>4
<1> QED
  BY <1>1, <1>2, <1>3, <1>4, <1>5, <1>6, <1>7, <1>8, <1>9, <1>10, <1>11 DEF Handle

-----------------------------------------------------------------------------
(* What UpdateState does to the terms *)

(* What a patch does to the negotiation and to the reservation. *)
LEMMA PatchTerms ==
  ASSUME NEW c \in Call, NEW d \in Deposit, Shape(c), Applicable(c, d),
         NEW s, s = SettlementOrBlank(d),
         NEW t, t = SettlementOrBlank(Patch(c, d))
  PROVE  /\ c.op \in {"Settle", "UtilityPropose"} => t = c.settlement
         /\ c.op \notin {"Settle", "UtilityPropose"} =>
              t.lastProposedBy = s.lastProposedBy /\ t.proposed = s.proposed
         /\ c.op \notin {"Settle", "UtilityPropose", "SettleAccept",
                         "DisputeResolve"} => t.agreed = s.agreed
         /\ c.op = "SettleAccept" => t.agreed = s.proposed
         /\ c.op = "DisputeResolve" => t.agreed = c.agreed
         /\ c.op # "PartialRelease" /\ d.reservation # Nil =>
              Patch(c, d).reservation.reserved = d.reservation.reserved
<1> USE DEF Shape, Applicable
<1>a. s \in Settlement /\ (d.settlement # Nil => s = d.settlement)
  BY BlankSettlementType DEF Deposit, SettlementOrBlank
<1>b. Nil \notin Settlement
  BY LifecycleAssumption
<1>c. ASSUME Patch(c, d).settlement = d.settlement PROVE t = s
  BY <1>c DEF SettlementOrBlank
<1>d. ASSUME NEW u \in Settlement, Patch(c, d).settlement = u PROVE t = u
  BY <1>b, <1>d DEF SettlementOrBlank
<1>1. CASE c.op = "UpdateIdentity"
  <2>1. Patch(c, d) = [d EXCEPT !.eid = "VERIFIED"]
    BY <1>1 DEF Patch, SetIdentity
  <2>2. Patch(c, d).settlement = d.settlement /\ Patch(c, d).reservation = d.reservation
    BY <2>1 DEF Deposit
  <2> QED
    BY <1>1, <1>c, <2>2
<1>2. CASE c.op = "Pledge"
  <2>1. Patch(c, d) = [d EXCEPT !.pledged = TRUE]
    BY <1>2 DEF Patch, SetPledge
  <2>2. Patch(c, d).settlement = d.settlement /\ Patch(c, d).reservation = d.reservation
    BY <2>1 DEF Deposit
  <2> QED
    BY <1>2, <1>c, <2>2
<1>3. CASE c.op = "Settle"
  <2>1. Patch(c, d) = [d EXCEPT !.settlement = c.settlement]
    BY <1>3 DEF Patch, ReplaceSettlement
  <2>2. Patch(c, d).settlement = c.settlement /\ Patch(c, d).reservation = d.reservation
    BY <2>1 DEF Deposit
  <2>3. c.settlement \in Settlement
    BY <1>3 DEF Call
  <2> QED
    BY <1>3, <1>d, <2>2, <2>3
<1>4. CASE c.op = "SettleAccept"
  <2> DEFINE u == [s EXCEPT !.agreed = s.proposed]
  <2>1. Patch(c, d) = [d EXCEPT !.settlement = u]
    BY <1>4, <1>a DEF Patch, LockProposal
  <2>2. /\ u \in Settlement /\ u.lastProposedBy = s.lastProposedBy
        /\ u.proposed = s.proposed /\ u.agreed = s.proposed
    BY <1>a DEF Settlement
  <2> HIDE DEF u
  <2>3. Patch(c, d).settlement = u /\ Patch(c, d).reservation = d.reservation
    BY <2>1 DEF Deposit
  <2>4. t = u
    BY <1>d, <2>2, <2>3
  <2> QED
    BY <1>4, <2>2, <2>3, <2>4
<1>5. CASE c.op = "Dispute"
  <2> DEFINE u == [s EXCEPT !.escalated = TRUE]
  <2>1. Patch(c, d) = [d EXCEPT !.settlement = u]
    BY <1>5 DEF Patch, Escalate
  <2>2. /\ u \in Settlement /\ u.lastProposedBy = s.lastProposedBy
        /\ u.proposed = s.proposed /\ u.agreed = s.agreed
    BY <1>a DEF Settlement
  <2> HIDE DEF u
  <2>3. Patch(c, d).settlement = u /\ Patch(c, d).reservation = d.reservation
    BY <2>1 DEF Deposit
  <2>4. t = u
    BY <1>d, <2>2, <2>3
  <2> QED
    BY <1>5, <2>2, <2>3, <2>4
<1>6. CASE c.op = "DisputeResolve"
  <2> DEFINE u == [s EXCEPT !.agreed = c.agreed]
  <2>1. Patch(c, d) = [d EXCEPT !.settlement = u]
    BY <1>6 DEF Patch, RecordResolution
  <2>2. /\ u \in Settlement /\ u.lastProposedBy = s.lastProposedBy
        /\ u.proposed = s.proposed /\ u.agreed = c.agreed
    BY <1>a DEF Settlement, Call
  <2> HIDE DEF u
  <2>3. Patch(c, d).settlement = u /\ Patch(c, d).reservation = d.reservation
    BY <2>1 DEF Deposit
  <2>4. t = u
    BY <1>d, <2>2, <2>3
  <2> QED
    BY <1>6, <2>2, <2>3, <2>4
<1>7. CASE c.op = "PartialRelease"
  <2>1. Patch(c, d) = [d EXCEPT !.reservation = c.reservation]
    BY <1>7 DEF Patch, SetReservation
  <2>2. Patch(c, d).settlement = d.settlement
    BY <2>1 DEF Deposit
  <2> QED
    BY <1>7, <1>c, <2>2
<1>8. CASE c.op = "UtilityClose"
  <2> DEFINE u == [d.reservation EXCEPT !.resolved = TRUE]
  <2>1. Patch(c, d) = [d EXCEPT !.reservation = u]
    BY <1>8 DEF Patch, ResolveReservation
  <2>2. u.reserved = d.reservation.reserved
    BY <1>8 DEF Deposit, UtilityReservation
  <2> HIDE DEF u
  <2>3. Patch(c, d).settlement = d.settlement /\ Patch(c, d).reservation = u
    BY <2>1 DEF Deposit
  <2> QED
    BY <1>8, <1>c, <2>2, <2>3
<1>9. CASE c.op = "UtilityPropose"
  <2> DEFINE u == [d.reservation EXCEPT !.resolved = TRUE]
  <2>1. Patch(c, d) = [d EXCEPT !.reservation = u, !.settlement = c.settlement]
    BY <1>9 DEF Patch, ProposeShortfall
  <2>2. u.reserved = d.reservation.reserved
    BY <1>9 DEF Deposit, UtilityReservation
  <2>3. c.settlement \in Settlement
    BY <1>9 DEF Call
  <2> HIDE DEF u
  <2>4. Patch(c, d).settlement = c.settlement /\ Patch(c, d).reservation = u
    BY <2>1 DEF Deposit
  <2> QED
    BY <1>9, <1>d, <2>2, <2>3, <2>4
<1>10. CASE c.op \in {"Release", "Claim", "ReceiveVpResponse"}
  <2>1. Patch(c, d) = d
    BY <1>10 DEF Patch
  <2> QED
    BY <1>10, <1>c, <2>1
<1> QED
  BY <1>1, <1>2, <1>3, <1>4, <1>5, <1>6, <1>7, <1>8, <1>9, <1>10 DEF Call, Operations

-----------------------------------------------------------------------------
(* SerialInv is inductive as long as requests do not overlap. *)

(* A careful request keeps the document sound. *)
LEMMA RowWritten ==
  ASSUME NEW c \in Call, NEW d \in Deposit, Shape(c), Applicable(c, d),
         Careful(c, d), RowSound(d), d.history # << >>,
         d.state = d.history[Len(d.history)].state
  PROVE  RowSound(Written(c, d))
<1> DEFINE w == Written(c, d)
           e == [state |-> c.to, actor |-> c.actor]
           h == d.history
           g == w.history
<1>1. /\ w.state = c.to /\ g = Append(h, e)
      /\ w.settlement = Patch(c, d).settlement
      /\ w.reservation = Patch(c, d).reservation
  BY WrittenFacts
<1>2. e \in HistoryEntry /\ h \in Seq(HistoryEntry) /\ e.state = c.to
  BY DEF Call, HistoryEntry, Deposit
<1> HIDE DEF w, e, h, g
<1>3. /\ Len(h) \in Nat /\ Len(g) = Len(h) + 1
      /\ \A k \in 1 .. Len(h) : g[k] = h[k]
      /\ g[Len(h) + 1] = e
  BY <1>1, <1>2, AppendFacts
<1>4. w.state = "PARTIALLY_RELEASED" => w.reservation.reserved > 0
  <2>1. c.to = "PARTIALLY_RELEASED" => c.op = "PartialRelease" /\ c.reservation.reserved > 0
    BY DEF Shape, Careful
  <2>2. c.to = "PARTIALLY_RELEASED" => w.reservation = c.reservation
    BY <1>1, PatchFacts
  <2> QED
    BY <1>1, <2>1, <2>2
<1>5. ASSUME NEW states \in SUBSET LifecycleStates, NoWayOut(states),
             NEW k \in 1 .. Len(g), g[k].state \in states
      PROVE  w.state \in states
  <2>1. CASE k = Len(h) + 1
    BY <1>1, <1>2, <1>3, <1>5, <2>1
  <2>2. CASE k # Len(h) + 1
    <3>1. k \in 1 .. Len(h)
      BY <1>3, <1>5, <2>2
    <3>2. h[k].state \in states
      BY <1>3, <1>5, <3>1
    <3>3. d.state \in states
      BY <1>5, <3>1, <3>2 DEF RowSound, h
    <3>4. c.to \in LifecycleStates /\ (CanTransition(d.state, c.to) \/ d.state = c.to)
      BY DEF Careful, Shape, Call
    <3> QED
      BY <1>1, <1>5, <3>3, <3>4 DEF NoWayOut
  <2> QED
    BY <2>1, <2>2
<1>6. Divides(w)
  <2> SUFFICES ASSUME Len(g) > 1, w.state = "SETTLE_PROPOSED",
                      g[Len(g) - 1].state = "PARTIALLY_RELEASED"
               PROVE  /\ w.settlement.proposed.retention \in 0 .. w.reservation.reserved
                      /\ w.settlement.proposed.refund =
                           w.reservation.reserved - w.settlement.proposed.retention
    BY DEF Divides, g
  <2>1. h[Len(h)].state = "PARTIALLY_RELEASED"
    <3>1. Len(g) - 1 = Len(h) /\ Len(h) \in 1 .. Len(h)
      BY <1>3
    <3> QED
      BY <1>3, <3>1
  <2>2. d.state = "PARTIALLY_RELEASED"
    BY <2>1 DEF h
  <2>3. c.to = "SETTLE_PROPOSED" /\ c.op = "UtilityPropose"
    BY <1>1, <2>2 DEF Shape, Careful
  <2>4. d.reservation # Nil
    BY <2>3 DEF Applicable
  <2>5. w.reservation.reserved = d.reservation.reserved
    BY <1>1, <2>3, <2>4, PatchTerms
  <2>6. w.settlement = c.settlement
    BY <1>1, <2>3, PatchFacts
  <2> QED
    BY <2>3, <2>5, <2>6 DEF Careful
<1>7. RowSound(w)
  BY <1>4, <1>5, <1>6 DEF RowSound, g
<1> QED
  BY <1>7 DEF w

(* A request that has just got on its way is careful about a row that the    *)
(* step leaves alone.                                                        *)
LEMMA CarefulSubmit ==
  ASSUME SafeInv, SerialInv, [Next]_vars, NEW q \in Requests,
         calls'[q] # calls[q], calls'[q] # Nil, calls'[q].pc = "update"
  PROVE  \E c : /\ c = calls'[q] /\ c.id \in KnownIds
                /\ Careful(c, deposits[c.id]) /\ deposits' = deposits
<1>1. Next
  BY DEF vars
<1>2. PICK r \in Requests : Handle(r) \/ Continue(r)
  BY <1>1 DEF Next
<1>3. /\ calls \in [Requests -> Call \cup {Nil}]
      /\ \A c \in Call : c # Nil
  BY LifecycleAssumption DEF SafeInv, TypeOK
<1>4. CASE InsertHistory(r) \/ Notify(r) \/ Fail(r)
  BY <1>3, <1>4 DEF InsertHistory, Notify, Fail
<1>5. CASE RevokeCredentials(r) \/ DeleteVpSession(r)
  BY <1>3, <1>5 DEF RevokeCredentials, DeleteVpSession, Proceed, Call
<1>6. CASE UpdateState(r)
  <2>1. PICK c \in Call, d \in Deposit : Commits(r, c, d)
    BY <1>6, UpdateFacts
  <2>2. /\ calls' = [calls EXCEPT ![r] = [c EXCEPT !.pc = AfterUpdate(c.op)]]
        /\ AfterUpdate(c.op) # "update"
    BY <2>1 DEF Commits
  <2>3. PICK x : x = [c EXCEPT !.pc = AfterUpdate(c.op)]
    OBVIOUS
  <2>4. x.pc # "update"
    BY <2>2, <2>3 DEF Call
  <2>5. calls' = [calls EXCEPT ![r] = x]
    BY <2>2, <2>3
  <2> QED
    BY <1>3, <2>4, <2>5
<1>7. CASE CreateDeposit(r)
  <2>1. PICK x : calls' = [calls EXCEPT ![r] = x] /\ x.pc # "update"
    BY <1>7 DEF CreateDeposit
  <2> QED
    BY <1>3, <2>1
<1>8. ASSUME NEW c, Submit(r, c), c.id \in KnownIds, Careful(c, deposits[c.id])
      PROVE  c = calls'[q] /\ deposits' = deposits
  BY <1>3, <1>8 DEF Submit
<1>9. CASE Handle(r)
  <2>1. CreateDeposit(r) \/
          \E c : Submit(r, c) /\ c.id \in KnownIds /\ Careful(c, deposits[c.id])
    BY <1>9, HandlersCareful
  <2> QED
    BY <1>7, <1>8, <2>1
<1> QED
  BY <1>2, <1>4, <1>5, <1>6, <1>9 DEF Continue

(* A step of requests that do not overlap preserves SerialInv. *)
LEMMA SerialStep ==
  ASSUME SafeInv, SafeInv', SerialInv, OneAtATime, [Next]_vars
  PROVE  SerialInv'
<1>1. ASSUME NEW id \in Ids, deposits'[id] # Nil
      PROVE  \E d : d = deposits'[id] /\ RowSound(d)
  <2>1. CASE Preparing /\ deposits[id] # Nil
    BY <2>1 DEF Preparing, SerialInv
  <2>2. CASE Preparing /\ deposits[id] = Nil
    <3>1. PICK d : d = deposits'[id] /\ d.history = <<FirstEntry>>
      BY <1>1, <2>2 DEF Preparing
    <3>2. d.state = d.history[Len(d.history)].state
      BY <1>1, <3>1 DEF SafeInv, AuditMatchesHistory, History
    <3>3. /\ Len(<<FirstEntry>>) = 1 /\ <<FirstEntry>>[1].state = "REQUESTED"
      BY DEF FirstEntry
    <3>4. d.state = "REQUESTED" /\ Len(d.history) = 1 /\ d.history[1].state = "REQUESTED"
      BY <3>1, <3>2, <3>3
    <3>5. RowSound(d)
      BY <3>4 DEF RowSound, Divides
    <3> QED
      BY <3>1, <3>5
  <2>3. ASSUME NEW r \in Requests, UpdateState(r)
        PROVE  \E d : d = deposits'[id] /\ RowSound(d)
    <3>1. PICK c \in Call, d \in Deposit : Commits(r, c, d)
      BY <2>3, UpdateFacts
    <3>2. /\ c = calls[r] /\ c # Nil /\ c.pc = "update"
          /\ c.id \in Ids /\ d = deposits[c.id] /\ d # Nil
          /\ Shape(c) /\ Applicable(c, d)
          /\ deposits' = [deposits EXCEPT ![c.id] = Written(c, d)]
      BY <3>1 DEF Commits
    <3>3. /\ d.history # << >> /\ d.state = d.history[Len(d.history)].state
          /\ RowSound(d) /\ Careful(c, d)
      BY <3>2 DEF SafeInv, AuditMatchesHistory, History, SerialInv, OnItsWay
    <3>4. RowSound(Written(c, d))
      BY <3>2, <3>3, RowWritten
    <3>5. deposits'[id] = IF id = c.id THEN Written(c, d) ELSE deposits[id]
      BY <3>2 DEF SafeInv, TypeOK
    <3>6. id # c.id => RowSound(deposits[id])
      BY <1>1, <3>5 DEF SerialInv
    <3> QED
      BY <3>4, <3>5, <3>6
  <2> QED
    BY <2>1, <2>2, <2>3, CommitOrPrepare
<1>2. ASSUME NEW q \in Requests, calls'[q] # Nil, calls'[q].pc = "update"
      PROVE  \E c, d : c = calls'[q] /\ d = deposits'[c.id] /\ Careful(c, d)
  <2>1. CASE calls'[q] # calls[q]
    BY <1>2, <2>1, CarefulSubmit
  <2>2. CASE calls'[q] = calls[q]
    <3>1. PICK c : c = calls[q] /\ c = calls'[q] /\ c # Nil /\ c.pc = "update"
      BY <1>2, <2>2
    <3>2. /\ Careful(c, deposits[c.id]) /\ deposits[c.id] # Nil /\ c.id \in Ids
      BY <3>1 DEF SerialInv, OnItsWay, SafeInv, CallSound, TypeOK, Call
    <3>3. deposits'[c.id] = deposits[c.id]
      <4>1. CASE Preparing
        BY <3>2, <4>1 DEF Preparing
      <4>2. ASSUME NEW r \in Requests, UpdateState(r)
            PROVE  deposits'[c.id] = deposits[c.id]
        <5>1. PICK b \in Call, d \in Deposit : Commits(r, b, d)
          BY <4>2, UpdateFacts
        <5>2. /\ b = calls[r] /\ b # Nil /\ b.pc = "update"
              /\ calls' = [calls EXCEPT ![r] = [b EXCEPT !.pc = AfterUpdate(b.op)]]
              /\ AfterUpdate(b.op) # "update"
              /\ deposits' = [deposits EXCEPT ![b.id] = Written(b, d)]
          BY <5>1 DEF Commits
        <5>3. q # r
          BY <3>1, <5>2 DEF SafeInv, TypeOK, Call
        <5>4. b.id # c.id
          BY <3>1, <5>2, <5>3 DEF OneAtATime, OnItsWay
        <5> QED
          BY <3>2, <5>2, <5>4 DEF SafeInv, TypeOK
      <4> QED
        BY <4>1, <4>2, CommitOrPrepare
    <3> QED
      BY <3>1, <3>2, <3>3
  <2> QED
    BY <2>1, <2>2
<1> QED
  BY <1>1, <1>2 DEF SerialInv, OnItsWay

(* SerialInv holds as long as requests do not overlap. *)
LEMMA SerialInvariant == Spec /\ []OneAtATime => []SerialInv
<1>1. Init => SerialInv
  BY DEF Init, SerialInv, OnItsWay
<1>2. SafeInv /\ SafeInv' /\ SerialInv /\ OneAtATime /\ [Next]_vars => SerialInv'
  BY SerialStep
<1> QED
  BY <1>1, <1>2, SafeInvariant, PTL DEF Spec

(* With a single request in flight there is no overlap. *)
LEMMA OneRequestAlone ==
  ASSUME NEW r, Requests = {r} PROVE OneAtATime
BY DEF OneAtATime

=============================================================================
