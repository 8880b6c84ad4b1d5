---------------------------- MODULE SerialProofs ----------------------------
(***************************************************************************)
(* Proofs about requests that do not overlap: DepositLifecycle implements  *)
(* DepositContract, and the papers the server hands out are true.          *)
(*                                                                         *)
(* What is needed is less than one request at a time: no two requests on   *)
(* their way to UpdateState are about the same deposit (OneAtATime).       *)
(***************************************************************************)
EXTENDS Notifications, DepositLifecycleProofs, WellFoundedInduction

(***************************************************************************)
(* What makes PapersAreTrue inductive: the row a request got back from     *)
(* UpdateState is there from the commit to the announcement, and says what *)
(* the mail is going to say (PapersInv); the figures in it and in the      *)
(* mails are those of the deposit, whatever was committed since            *)
(* (FiguresInv).                                                           *)
(***************************************************************************)
Committed == {"revoke", "delete", "notify"}

MailTrue(m) ==
  /\ m.paper.title = "receipt" => m.paper.confirmed
  /\ m.paper.title = "release" =>
       /\ m.id \in Ids /\ deposits[m.id] # Nil
       /\ NamesRelease(m.id, m.paper.released)

PapersInv ==
  /\ updated \in [Requests -> Deposit \cup {Nil}]
  /\ \A r \in Requests :
       updated[r] # Nil <=> calls[r] # Nil /\ calls[r].pc \in Committed
  /\ \A r \in Requests : updated[r] # Nil =>
       /\ calls[r].op = "Pledge" => updated[r].pledged
       /\ calls[r].op = "Release" =>
            NamesRelease(calls[r].id, releasedAt(updated[r]))
  /\ \A m \in outbox : m.to = "tenant" => MailTrue(m)

FiguresInv ==
  /\ trust \in [Ids -> Trusteeships]
  /\ \A r \in Requests : updated[r] # Nil =>
       updated[r].amount = deposits[calls[r].id].amount
  /\ \A m \in outbox : m.to = "tenant" =>
       /\ m.id \in Ids /\ deposits[m.id] # Nil
       /\ TrueFigures(m.id, m.paper)

-----------------------------------------------------------------------------
(* What a user sees of the document UpdateState writes. *)
LEMMA TermsWritten ==
  ASSUME NEW c \in Call, NEW d \in Deposit, d # Nil, Shape(c), Applicable(c, d),
         NEW s, s = SettlementOrBlank(d),
         NEW t, t = SettlementOrBlank(Patch(c, d)),
         NEW w, w = Written(c, d)
  PROVE  /\ w # Nil
         /\ Terms(w).phase = c.to /\ Terms(w).mover = c.actor
         /\ Terms(w).proposer = t.lastProposedBy
         /\ Terms(w).proposal = t.proposed
         /\ Terms(w).agreed = t.agreed
         /\ Terms(d).phase = d.state
         /\ Terms(d).proposer = s.lastProposedBy
         /\ Terms(d).proposal = s.proposed
         /\ Terms(d).agreed = s.agreed
<1>1. /\ w \in Deposit /\ w.state = c.to
      /\ w.history = Append(d.history, [state |-> c.to, actor |-> c.actor])
      /\ w.settlement = Patch(c, d).settlement
  BY WrittenFacts
<1>2. w # Nil
  BY <1>1, LifecycleAssumption
<1>3. SettlementOrBlank(w) = t
  BY <1>1 DEF SettlementOrBlank
<1>4. w.history[Len(w.history)].actor = c.actor
  <2> DEFINE e == [state |-> c.to, actor |-> c.actor]
  <2>1. e \in HistoryEntry /\ d.history \in Seq(HistoryEntry) /\ e.actor = c.actor
    BY DEF Call, HistoryEntry, Deposit
  <2> HIDE DEF e
  <2>2. w.history = Append(d.history, e)
    BY <1>1 DEF e
  <2>3. w.history[Len(w.history)] = e
    BY <2>1, <2>2, AppendFacts
  <2> QED
    BY <2>1, <2>3
<1>5. Terms(w) = [phase |-> w.state, mover |-> w.history[Len(w.history)].actor,
                  proposer |-> t.lastProposedBy, proposal |-> t.proposed,
                  agreed |-> t.agreed]
  BY <1>2, <1>3 DEF Terms
<1>6. Terms(d) = [phase |-> d.state, mover |-> d.history[Len(d.history)].actor,
                  proposer |-> s.lastProposedBy, proposal |-> s.proposed,
                  agreed |-> s.agreed]
  BY DEF Terms
<1> QED
  BY <1>1, <1>2, <1>4, <1>5, <1>6

-----------------------------------------------------------------------------
(* The reservation *)

(* Without overlap a shortfall proposal divides exactly the reservation it   *)
(* is about, however many requests are in flight on other deposits.          *)
THEOREM UtilityProposalDivides ==
  Spec /\ []OneAtATime => []UtilityProposalDividesReservation
<1>1. SerialInv => UtilityProposalDividesReservation
  BY DEF SerialInv, RowSound, Divides, UtilityProposalDividesReservation
<1> QED
  BY <1>1, SerialInvariant, PTL

-----------------------------------------------------------------------------
(* The contract *)

(* What a user sees of a document is not Nil. *)
LEMMA TermsSet ==
  ASSUME NEW d \in Deposit, d.history # << >>
  PROVE  Terms(d) # Nil
<1>1. d # Nil
  BY LifecycleAssumption
<1>2. SettlementOrBlank(d) \in Settlement
  BY BlankSettlementType DEF Deposit, SettlementOrBlank
<1>3. d.history[Len(d.history)] \in HistoryEntry
  <2>1. d.history \in Seq(HistoryEntry)
    BY DEF Deposit
  <2>2. Len(d.history) \in 1 .. Len(d.history)
    BY <2>1, EmptySeq, LenProperties
  <2> QED
    BY <2>1, <2>2, ElementOfSeq
<1>4. Terms(d) \in [phase : LifecycleStates, mover : Actors,
                    proposer : Party \cup {""}, proposal : Split, agreed : Split]
  <2> DEFINE s == SettlementOrBlank(d)
             e == d.history[Len(d.history)]
  <2>1. Terms(d) = [phase |-> d.state, mover |-> e.actor,
                    proposer |-> s.lastProposedBy, proposal |-> s.proposed,
                    agreed |-> s.agreed]
    BY <1>1 DEF Terms
  <2> HIDE DEF s, e
  <2>2. s \in Settlement /\ e \in HistoryEntry /\ d.state \in LifecycleStates
    BY <1>2, <1>3 DEF s, e, Deposit
  <2>3. /\ e.actor \in Actors /\ s.lastProposedBy \in Party \cup {""}
        /\ s.proposed \in Split /\ s.agreed \in Split
    BY <2>2 DEF Settlement, HistoryEntry
  <2>4. [phase |-> d.state, mover |-> e.actor, proposer |-> s.lastProposedBy,
         proposal |-> s.proposed, agreed |-> s.agreed]
          \in [phase : LifecycleStates, mover : Actors,
               proposer : Party \cup {""}, proposal : Split, agreed : Split]
    BY <2>2, <2>3
  <2> QED
    BY <2>1, <2>4
<1> QED
  BY <1>4, SerialAssumption

(* A careful request takes the terms one step of the contract further. *)
LEMMA TermsStep ==
  ASSUME NEW c \in Call, NEW d \in Deposit, d # Nil, Shape(c), Applicable(c, d),
         Careful(c, d)
  PROVE  Contract!Step(Terms(d), Terms(Written(c, d)))
<1> DEFINE s == SettlementOrBlank(d)
           t == SettlementOrBlank(Patch(c, d))
<1>1. PICK old, new : old = Terms(d) /\ new = Terms(Written(c, d))
  OBVIOUS
<1>2. /\ new.phase = c.to /\ new.mover = c.actor
      /\ new.proposer = t.lastProposedBy
      /\ new.proposal = t.proposed
      /\ new.agreed = t.agreed
      /\ old.phase = d.state
      /\ old.proposer = s.lastProposedBy
      /\ old.proposal = s.proposed
      /\ old.agreed = s.agreed
  BY <1>1, TermsWritten
<1>3. /\ c.op \in {"Settle", "UtilityPropose"} => t = c.settlement
      /\ c.op \notin {"Settle", "UtilityPropose"} =>
           t.lastProposedBy = s.lastProposedBy /\ t.proposed = s.proposed
      /\ c.op \notin {"Settle", "UtilityPropose", "SettleAccept",
                      "DisputeResolve"} => t.agreed = s.agreed
      /\ c.op = "SettleAccept" => t.agreed = s.proposed
      /\ c.op = "DisputeResolve" => t.agreed = c.agreed
  BY PatchTerms
<1>4. d.settlement # Nil => s = d.settlement
  BY DEF SettlementOrBlank
<1>5. c.agreed \in Split
  BY DEF Call
<1> HIDE DEF s, t
<1> USE DEF Shape, Careful
<1>6. CASE c.op = "ReceiveVpResponse"
  <2>1. Contract!Present(old, new)
    BY <1>2, <1>3, <1>6 DEF Contract!Present, Contract!SameProposal
  <2> QED
    BY <1>1, <2>1 DEF Contract!Step
<1>7. CASE c.op \in {"Settle", "UtilityPropose"}
  <2>1. /\ new.phase = "SETTLE_PROPOSED" /\ new.proposer = c.actor
        /\ new.mover = c.actor /\ c.actor \in Party /\ new.agreed = NoSplit
    BY <1>2, <1>3, <1>7
  <2>2. \/ CanTransition(old.phase, new.phase)
        \/ old.phase = "SETTLE_PROPOSED" /\ new.proposer # old.proposer
    <3>1. CASE c.op = "UtilityPropose"
      BY <1>2, <3>1
    <3>2. CASE c.op = "Settle" /\ CanTransition(d.state, "SETTLE_PROPOSED")
      BY <1>2, <2>1, <3>2
    <3>3. CASE /\ c.op = "Settle" /\ d.state = "SETTLE_PROPOSED"
               /\ d.settlement.lastProposedBy # c.actor
      <4>1. CASE d.settlement # Nil
        BY <1>2, <1>4, <2>1, <3>3, <4>1
      <4>2. CASE d.settlement = Nil
        <5>1. s.lastProposedBy = "" /\ c.actor # ""
          BY <2>1, <4>2 DEF s, SettlementOrBlank, BlankSettlement, Party
        <5> QED
          BY <1>2, <2>1, <3>3, <5>1
      <4> QED
        BY <4>1, <4>2
    <3> QED
      BY <1>7, <3>1, <3>2, <3>3
  <2>3. Contract!Propose(old, new)
    BY <2>1, <2>2 DEF Contract!Propose, Contract!Legal, CanTransition
  <2> QED
    BY <1>1, <2>3 DEF Contract!Step
<1>8. CASE c.op = "SettleAccept"
  <2>1. Contract!Accept(old, new)
    BY <1>2, <1>3, <1>4, <1>8 DEF Contract!Accept, Contract!SameProposal,
       Applicable, CanTransition, validTransitions
  <2> QED
    BY <1>1, <2>1 DEF Contract!Step
<1>9. CASE c.op = "DisputeResolve"
  <2>1. c.to = "CLOSED" /\ CanTransition(d.state, c.to)
    BY <1>9
  <2>2. Contract!Impose(old, new)
    BY <1>2, <1>3, <1>5, <1>9, <2>1 DEF Contract!Impose, Contract!SameProposal,
       Contract!Legal, CanTransition
  <2> QED
    BY <1>1, <2>2 DEF Contract!Step
<1>10. CASE c.op = "UtilityClose"
  <2>1. c.to = "CLOSED"
    BY <1>10
  <2>2. Contract!Return(old, new)
    BY <1>2, <1>3, <1>10, <2>1 DEF Contract!Return, Contract!SameProposal
  <2> QED
    BY <1>1, <2>2 DEF Contract!Step
<1>11. CASE c.op \in {"UpdateIdentity", "Pledge", "Release", "Claim", "Dispute",
                      "PartialRelease"}
  <2>1. c.to \notin {"SETTLE_PROPOSED", "CLOSED"} /\ CanTransition(d.state, c.to)
    BY <1>11
  <2>2. Contract!Advance(old, new)
    BY <1>2, <1>3, <1>11, <2>1 DEF Contract!Advance, Contract!SameProposal,
       Contract!Legal, CanTransition
  <2> QED
    BY <1>1, <2>2 DEF Contract!Step
<1> QED
  BY <1>6, <1>7, <1>8, <1>9, <1>10, <1>11 DEF Call, Operations

(* Create stores one new document with its first history entry. *)
LEMMA CreateFacts ==
  ASSUME SafeInv, NEW r \in Requests, CreateDeposit(r)
  PROVE  \E id \in Ids, d \in Deposit :
           /\ deposits[id] = Nil /\ d # Nil
           /\ d.state = "REQUESTED" /\ d.history = <<FirstEntry>>
           /\ deposits' = [deposits EXCEPT ![id] = d]
<1> DEFINE New(a) ==
             [type |-> a.type, amount |-> a.amount, eid |-> a.eid,
              pledged |-> a.pledged, settlement |-> a.settlement,
              reservation |-> a.reservation,
              state |-> "REQUESTED", history |-> <<FirstEntry>>]
<1>1. PICK id \in Ids, a \in Applications :
        deposits[id] = Nil /\ deposits' = [deposits EXCEPT ![id] = New(a)]
  BY DEF CreateDeposit
<1> DEFINE d == New(a)
<1>2. d \in Deposit
  <2>1. a \in Application
    BY LifecycleAssumption
  <2>2. FirstEntry \in HistoryEntry
    BY DEF FirstEntry, HistoryEntry, LifecycleStates, Actors, Party
  <2>3. <<FirstEntry>> \in Seq(HistoryEntry)
    BY <2>2
  <2> QED
    BY <2>1, <2>3 DEF Deposit, Application, LifecycleStates
<1>3. d.state = "REQUESTED" /\ d.history = <<FirstEntry>>
  OBVIOUS
<1>4. deposits' = [deposits EXCEPT ![id] = d]
  BY <1>1
<1> HIDE DEF d
<1>5. d # Nil
  BY <1>2, LifecycleAssumption
<1> QED
  BY <1>1, <1>2, <1>3, <1>4, <1>5

(* Without overlap every step is a step of the contract, or changes nothing  *)
(* a user sees.                                                              *)
LEMMA ContractStep ==
  ASSUME SafeInv, SafeInv', SerialInv, [Next]_vars
  PROVE  Contract!Next \/ \A id \in Ids : Terms(deposits[id])' = Terms(deposits[id])
<1>a. /\ deposits \in [Ids -> Deposit \cup {Nil}]
      /\ deposits' \in [Ids -> Deposit \cup {Nil}]
      /\ Terms(Nil) = Nil
  BY DEF SafeInv, TypeOK, Terms
<1>b. \A id \in Ids : deposits'[id] # Nil =>
        deposits'[id].history # << >> /\ Terms(deposits'[id]) # Nil
  <2>1. \A id \in Ids : deposits'[id] # Nil => deposits'[id].history # << >>
    BY DEF SafeInv, AuditMatchesHistory, History
  <2> QED
    BY <1>a, <2>1, TermsSet
<1>c. \A id \in Ids : deposits[id] # Nil => Terms(deposits[id]) # Nil
  <2>1. \A id \in Ids : deposits[id] # Nil => deposits[id].history # << >>
    BY DEF SafeInv, AuditMatchesHistory, History
  <2> QED
    BY <1>a, <2>1, TermsSet
<1>1. ASSUME NEW r \in Requests, CreateDeposit(r)
      PROVE  Contract!Next
  <2>1. PICK id \in Ids, d \in Deposit :
          /\ deposits[id] = Nil /\ d # Nil
          /\ d.state = "REQUESTED" /\ d.history = <<FirstEntry>>
          /\ deposits' = [deposits EXCEPT ![id] = d]
    BY <1>1, CreateFacts
  <2>2. /\ deposits'[id] = d
        /\ \A other \in Ids \ {id} : deposits'[other] = deposits[other]
    BY <1>a, <2>1
  <2>3. Len(<<FirstEntry>>) = 1 /\ <<FirstEntry>>[1].actor = "TENANT"
    BY DEF FirstEntry
  <2>4. d.history[Len(d.history)].actor = "TENANT"
    BY <2>1, <2>3
  <2>5. Contract!Open(Terms(d))
    BY <2>1, <2>4 DEF Contract!Open, Terms
  <2>6. Terms(deposits[id]) = Nil /\ Terms(d) # Nil
    BY <1>a, <1>b, <2>1, <2>2
  <2> QED
    BY <2>2, <2>5, <2>6 DEF Contract!Next
<1>2. ASSUME NEW r \in Requests, UpdateState(r)
      PROVE  Contract!Next
  <2>1. PICK c \in Call, d \in Deposit : Commits(r, c, d)
    BY <1>2, UpdateFacts
  <2>2. /\ c = calls[r] /\ c # Nil /\ c.pc = "update"
        /\ c.id \in Ids /\ d = deposits[c.id] /\ d # Nil
        /\ Shape(c) /\ Applicable(c, d)
        /\ deposits' = [deposits EXCEPT ![c.id] = Written(c, d)]
    BY <2>1 DEF Commits
  <2>3. PICK id, w : id = c.id /\ w = Written(c, d)
    OBVIOUS
  <2>4. /\ id \in Ids /\ deposits'[id] = w /\ deposits[id] = d
        /\ \A other \in Ids \ {id} : deposits'[other] = deposits[other]
    BY <1>a, <2>2, <2>3
  <2>5. w # Nil
    BY <2>2, <2>3, WrittenFacts, LifecycleAssumption
  <2>6. Contract!Step(Terms(d), Terms(w))
    <3>1. Careful(c, d)
      BY <2>2 DEF SerialInv, OnItsWay
    <3> QED
      BY <2>2, <2>3, <3>1, TermsStep
  <2>7. Terms(d) # Nil /\ Terms(w) # Nil
    BY <1>b, <1>c, <2>2, <2>4, <2>5
  <2> QED
    BY <2>4, <2>6, <2>7 DEF Contract!Next
<1>3. CASE UNCHANGED vars
  BY <1>3 DEF vars
<1>4. ASSUME NEW r \in Requests,
             InsertHistory(r) \/ WindsDown(r) \/ \E c : Admitted(c) /\ Submit(r, c)
      PROVE  \A id \in Ids : Terms(deposits[id])' = Terms(deposits[id])
  <2>1. deposits' = deposits
    BY <1>4 DEF InsertHistory, WindsDown, Submit
  <2> QED
    BY <2>1
<1> QED
  BY <1>1, <1>2, <1>3, <1>4, StepKinds

(***************************************************************************)
(* The requests keep the promise of DepositContract as long as no two on   *)
(* the same deposit overlap: legal single steps, alternating proposals,    *)
(* acceptance by the other party of the proposal as it stands, finality of *)
(* CLOSED.                                                                 *)
(***************************************************************************)
THEOREM ContractKept == Spec /\ []OneAtATime => KeepsContract
<1>1. Init => Contract!Init
  BY DEF Init, Contract!Init, Terms
<1>2. SafeInv /\ SafeInv' /\ SerialInv /\ [Next]_vars =>
        [Contract!Next]_([id \in Ids |-> Terms(deposits[id])])
  BY ContractStep
<1> QED
  BY <1>1, <1>2, SafeInvariant, SerialInvariant, PTL
  DEF Spec, KeepsContract, Contract!Spec

-----------------------------------------------------------------------------
(* The papers *)

(* Every set of natural numbers that is not empty has a least element. *)
LEMMA LeastNumber ==
  ASSUME NEW T, T \subseteq Nat, T # {}
  PROVE  \E x \in T : \A y \in T : x <= y
<1> DEFINE R == OpToRel(<, Nat)
<1>1. IsWellFoundedOn(R, Nat)
  BY NatLessThanWellFounded
<1>2. \A x, y \in Nat : y < x => <<y, x>> \in R
  BY DEF OpToRel
<1> HIDE DEF R
<1>3. \E x \in T : \A y \in T : ~ (<<y, x>> \in R)
  BY <1>1, WFMin
<1>4. PICK x \in T : \A y \in T : ~ (<<y, x>> \in R)
  BY <1>3
<1>5. ASSUME NEW y \in T PROVE x <= y
  <2>1. x \in Nat /\ y \in Nat
    OBVIOUS
  <2>2. ~ (y < x)
    BY <1>2, <1>4, <2>1
  <2> QED
    BY <2>1, <2>2
<1> QED
  BY <1>5

(* The entry k of the history h is a release, and no award comes before it. *)
FullRelease(h, k) ==
  /\ k \in 1 .. Len(h)
  /\ h[k].state = "RELEASED"
  /\ \A j \in 1 .. k : h[j].state \notin Awarded

(* The states a deposit can be in once some of the money is given away. *)
AfterAward == {"PARTIALLY_RELEASED", "SETTLE_PROPOSED", "DISPUTED", "CLOSED"}

(* The release confirmation of a RELEASED deposit names such an entry. *)
LEMMA ReleaseNamed ==
  ASSUME NEW d \in Deposit, d.history # << >>, d.state = "RELEASED",
         d.history[Len(d.history)].state = "RELEASED", RowSound(d)
  PROVE  FullRelease(d.history, releasedAt(d))
<1> DEFINE h == d.history
           released == {k \in 1 .. Len(h) : h[k].state = "RELEASED"}
<1>1. Len(h) \in Nat /\ Len(h) \in 1 .. Len(h)
  BY EmptySeq, LenProperties DEF Deposit
<1>2. released # {} /\ released \subseteq Nat
  BY <1>1
<1>3. \E k \in released : \A j \in released : k <= j
  <2> HIDE DEF released
  <2> QED
    BY <1>2, LeastNumber
<1>5. releasedAt(d) = CHOOSE k \in released : \A j \in released : k <= j
  BY <1>2 DEF releasedAt
<1>6. releasedAt(d) \in released
  <2> HIDE DEF released
  <2> QED
    BY <1>3, <1>5
<1>7. \A j \in 1 .. Len(h) : h[j].state \notin Awarded
  <2>1. AfterAward \in SUBSET LifecycleStates /\ NoWayOut(AfterAward)
    BY DEF AfterAward, LifecycleStates, NoWayOut, CanTransition, validTransitions
  <2>2. \A j \in 1 .. Len(h) : h[j].state \notin AfterAward
    BY <2>1 DEF RowSound, AfterAward
  <2> QED
    BY <2>2 DEF AfterAward, Awarded
<1>8. \A j \in 1 .. releasedAt(d) : j \in 1 .. Len(h)
  BY <1>1, <1>6
<1> QED
  BY <1>6, <1>7, <1>8 DEF FullRelease

(* Such an entry stays one. *)
LEMMA ReleaseStays ==
  ASSUME SafeInv, SafeInv', [Next]_vars, NEW id \in Ids, deposits[id] # Nil,
         NEW k, FullRelease(deposits[id].history, k)
  PROVE  deposits'[id] # Nil /\ FullRelease(deposits'[id].history, k)
<1> DEFINE h == deposits[id].history
           g == deposits'[id].history
<1>1. /\ deposits'[id] # Nil
      /\ Len(h) \in Nat /\ Len(g) \in Nat /\ Len(h) <= Len(g)
      /\ \A j \in 1 .. Len(h) : g[j] = h[j]
  BY EntriesStay
<1> HIDE DEF h, g
<1>2. /\ k \in 1 .. Len(h) /\ h[k].state = "RELEASED"
      /\ \A j \in 1 .. k : h[j].state \notin Awarded
  BY DEF FullRelease, h
<1>3. k \in 1 .. Len(g) /\ \A j \in 1 .. k : j \in 1 .. Len(h)
  BY <1>1, <1>2
<1>4. g[k].state = "RELEASED" /\ \A j \in 1 .. k : g[j].state \notin Awarded
  BY <1>1, <1>2, <1>3
<1> QED
  BY <1>1, <1>3, <1>4 DEF FullRelease, g

(* The handlers and messages of Notifications are steps of DepositLifecycle, *)
(* or leave the deposits and the requests alone.                             *)
LEMMA NoticeStep ==
  [NoticeNext]_notifyVars => [Next]_vars
<1>1. CASE UNCHANGED notifyVars
  BY <1>1 DEF notifyVars, vars
<1>2. ASSUME NEW r \in Requests, Quiet(r) \/ Commit(r) \/ Announce(r) \/ CutShort(r)
      PROVE  Next
  BY <1>2 DEF Quiet, Commit, Announce, CutShort, Next, Continue
<1>3. ASSUME NEW m \in outbox, Deliver(m) \/ Lose(m)
      PROVE  UNCHANGED vars
  BY <1>3 DEF Deliver, Lose
<1> QED
  BY <1>1, <1>2, <1>3 DEF NoticeNext

(* So what holds of every run of the deposit API holds with its messages. *)
LEMMA NoticeImplementsLifecycle == NoticeSpec => Spec
<1>1. NoticeInit => Init
  BY DEF NoticeInit
<1>2. NoticeSpec => NoticeInit /\ [][NoticeNext]_notifyVars
  BY PTL DEF NoticeSpec
<1> QED
  BY <1>1, <1>2, NoticeStep, PTL DEF Spec

(* A mail that is true stays true. *)
LEMMA MailsStay ==
  ASSUME SafeInv, SafeInv', [Next]_vars, NEW m, MailTrue(m)
  PROVE  MailTrue(m)'
<1>1. m.paper.title = "release" =>
        m.id \in Ids /\ deposits[m.id] # Nil
          /\ FullRelease(deposits[m.id].history, m.paper.released)
  BY DEF MailTrue, NamesRelease, History, FullRelease
<1>2. m.paper.title = "release" =>
        m.id \in Ids /\ deposits'[m.id] # Nil
          /\ FullRelease(deposits'[m.id].history, m.paper.released)
  BY <1>1, ReleaseStays
<1> QED
  BY <1>2 DEF MailTrue, NamesRelease, History, FullRelease

(* So does what a request is going to mail, as long as it is not touched. *)
LEMMA UpdatedStay ==
  ASSUME SafeInv, SafeInv', PapersInv, [Next]_vars, NEW q \in Requests,
         updated'[q] = updated[q], updated[q] # Nil,
         calls'[q].op = calls[q].op, calls'[q].id = calls[q].id
  PROVE  /\ calls[q].op = "Pledge" => updated[q].pledged
         /\ calls'[q].op = "Release" =>
              NamesRelease(calls[q].id, releasedAt(updated[q]))'
<1>1. /\ calls[q] # Nil /\ calls[q].id \in Ids /\ deposits[calls[q].id] # Nil
      /\ calls[q].op = "Pledge" => updated[q].pledged
      /\ calls[q].op = "Release" =>
           NamesRelease(calls[q].id, releasedAt(updated[q]))
  BY DEF PapersInv, SafeInv, CallSound, TypeOK, Call
<1>2. PICK id, u, k : /\ id = calls[q].id /\ id = calls'[q].id
                      /\ u = updated[q] /\ u = updated'[q]
                      /\ k = releasedAt(u)
  OBVIOUS
<1>3. ASSUME calls[q].op = "Release"
      PROVE  NamesRelease(calls[q].id, releasedAt(updated[q]))'
  <2>1. FullRelease(deposits[id].history, k)
    BY <1>1, <1>2, <1>3 DEF FullRelease, NamesRelease, History
  <2>2. FullRelease(deposits'[id].history, k)
    BY <1>1, <1>2, <2>1, ReleaseStays
  <2> QED
    BY <1>2, <2>2 DEF FullRelease, NamesRelease, History
<1> QED
  BY <1>1, <1>3

(* What a commit hands back to its request. *)
LEMMA CommitPapers ==
  ASSUME SafeInv, SafeInv', SerialInv, SerialInv', PapersInv,
         NEW r \in Requests, Commit(r)
  PROVE  PapersInv'
<1>a. [Next]_vars
  BY DEF Commit, Next, Continue
<1>1. PICK c \in Call, d \in Deposit : Commits(r, c, d)
  BY UpdateFacts DEF Commit
<1>2. /\ c = calls[r] /\ c # Nil /\ c.pc = "update"
      /\ c.id \in Ids /\ d = deposits[c.id]
      /\ Shape(c) /\ Applicable(c, d)
      /\ deposits' = [deposits EXCEPT ![c.id] = Written(c, d)]
      /\ calls' = [calls EXCEPT ![r] = [c EXCEPT !.pc = AfterUpdate(c.op)]]
      /\ AfterUpdate(c.op) \in Committed
  BY <1>1 DEF Commits, Committed
<1>3. PICK id, w, b : /\ id = c.id /\ w = Written(c, d)
                      /\ b = [c EXCEPT !.pc = AfterUpdate(c.op)]
  OBVIOUS
<1>4. /\ w \in Deposit /\ w # Nil /\ w.state = c.to
      /\ c.op = "Pledge" => w.pledged
  <2>1. w \in Deposit /\ w.state = c.to /\ (Patch(c, d).pledged => w.pledged)
    BY <1>2, <1>3, WrittenFacts
  <2>2. c.op = "Pledge" => Patch(c, d).pledged
    BY <1>2, PatchFacts
  <2> QED
    BY <2>1, <2>2, LifecycleAssumption
<1>5. b \in Call /\ b # Nil /\ b.pc \in Committed /\ b.op = c.op /\ b.id = id
  <2>1. b \in Call /\ b.pc \in Committed /\ b.op = c.op /\ b.id = id
    BY <1>2, <1>3 DEF Call, Committed
  <2> QED
    BY <2>1, LifecycleAssumption
<1>6. /\ deposits'[id] = w /\ updated' = [updated EXCEPT ![r] = w]
      /\ calls' = [calls EXCEPT ![r] = b] /\ outbox' = outbox
  BY <1>2, <1>3 DEF Commit, SafeInv, TypeOK
<1>7. c.op = "Release" => FullRelease(w.history, releasedAt(w))
  <2>1. id \in Ids /\ deposits'[id] = w /\ deposits'[id] # Nil
    BY <1>2, <1>3, <1>4, <1>6
  <2>2. w.history # << >> /\ w.history[Len(w.history)].state = w.state
    BY <2>1 DEF SafeInv, AuditMatchesHistory, History
  <2>3. RowSound(w)
    <3>1. RowSound(deposits[id])'
      BY <2>1 DEF SerialInv
    <3> QED
      BY <2>1, <3>1
  <2>4. c.op = "Release" => c.to = "RELEASED"
    <3>1. Careful(c, d)
      BY <1>2 DEF SerialInv, OnItsWay
    <3> QED
      BY <1>2, <3>1 DEF Shape, Careful
  <2> QED
    BY <1>4, <2>2, <2>3, <2>4, ReleaseNamed
<1>8. updated' \in [Requests -> Deposit \cup {Nil}]
  BY <1>4, <1>6 DEF PapersInv
<1>9. /\ updated'[r] = w /\ calls'[r] = b
      /\ \A q \in Requests \ {r} : updated'[q] = updated[q] /\ calls'[q] = calls[q]
  BY <1>6 DEF PapersInv, SafeInv, TypeOK
<1>10. \A q \in Requests :
         updated'[q] # Nil <=> calls'[q] # Nil /\ calls'[q].pc \in Committed
  BY <1>4, <1>5, <1>9 DEF PapersInv
<1>11. ASSUME NEW q \in Requests, updated'[q] # Nil
       PROVE  /\ calls'[q].op = "Pledge" => updated'[q].pledged
              /\ calls'[q].op = "Release" =>
                   NamesRelease(calls[q].id, releasedAt(updated[q]))'
  <2>1. CASE q # r
    BY <1>9, <1>11, <1>a, <2>1, UpdatedStay
  <2>2. CASE q = r
    <3>1. calls'[q].op = "Pledge" => updated'[q].pledged
      BY <1>4, <1>5, <1>9, <2>2
    <3>2. ASSUME calls'[q].op = "Release"
          PROVE  NamesRelease(calls[q].id, releasedAt(updated[q]))'
      <4>1. FullRelease(deposits'[id].history, releasedAt(w))
        BY <1>5, <1>6, <1>7, <1>9, <2>2, <3>2
      <4> QED
        BY <1>5, <1>9, <2>2, <4>1 DEF FullRelease, NamesRelease, History
    <3> QED
      BY <3>1, <3>2
  <2> QED
    BY <2>1, <2>2
<1>12. ASSUME NEW m \in outbox', m.to = "tenant" PROVE MailTrue(m)'
  <2>1. MailTrue(m)
    BY <1>6, <1>12 DEF PapersInv
  <2> QED
    BY <1>a, <2>1, MailsStay
<1> QED
  BY <1>8, <1>10, <1>11, <1>12 DEF PapersInv

(* A request that announces its commit mails what it got back from it. *)
LEMMA AnnouncePapers ==
  ASSUME SafeInv, SafeInv', PapersInv, NEW r \in Requests, Announce(r)
  PROVE  PapersInv'
<1>a. [Next]_vars
  BY DEF Announce, Next, Continue
<1>1. /\ calls[r] # Nil /\ calls[r].pc = "notify"
      /\ calls' = [calls EXCEPT ![r] = Nil]
      /\ updated' = [updated EXCEPT ![r] = Nil]
      /\ outbox' = outbox \cup {fireWebhook(r, clock')} \cup Mails(r)
  BY DEF Announce, Notify
<1>2. /\ updated'[r] = Nil /\ calls'[r] = Nil
      /\ \A q \in Requests \ {r} : updated'[q] = updated[q] /\ calls'[q] = calls[q]
      /\ updated' \in [Requests -> Deposit \cup {Nil}]
  BY <1>1 DEF PapersInv, SafeInv, TypeOK
<1>3. \A q \in Requests :
        updated'[q] # Nil <=> calls'[q] # Nil /\ calls'[q].pc \in Committed
  BY <1>2 DEF PapersInv
<1>4. ASSUME NEW q \in Requests, updated'[q] # Nil
      PROVE  /\ calls'[q].op = "Pledge" => updated'[q].pledged
             /\ calls'[q].op = "Release" =>
                  NamesRelease(calls[q].id, releasedAt(updated[q]))'
  BY <1>2, <1>4, <1>a, UpdatedStay
<1>5. ASSUME NEW m \in outbox', m.to = "tenant" PROVE MailTrue(m)'
  <2>a. MailTrue(m) => MailTrue(m)'
    BY <1>a, MailsStay
  <2>1. CASE m \in outbox
    BY <1>5, <2>1, <2>a DEF PapersInv
  <2>2. CASE m = fireWebhook(r, clock')
    BY <1>5, <2>2 DEF fireWebhook
  <2>3. CASE m \in Mails(r)
    <3>1. /\ updated[r] # Nil
          /\ calls[r].op = "Pledge" => updated[r].pledged
          /\ calls[r].op = "Release" =>
               NamesRelease(calls[r].id, releasedAt(updated[r]))
      BY <1>1 DEF PapersInv, Committed
    <3>2. CASE calls[r].op = "Pledge"
      <4>1. m = sendReceiptEmail(r)
        BY <2>3, <3>2 DEF Mails
      <4>2. /\ m.paper = Generate(updated[r])
            /\ m.paper.title = "receipt" /\ m.paper.confirmed = updated[r].pledged
        BY <4>1 DEF sendReceiptEmail, Generate
      <4> QED
        BY <2>a, <3>1, <3>2, <4>2 DEF MailTrue
    <3>3. CASE calls[r].op = "Release"
      <4>1. m = sendReleaseReceiptEmail(r)
        BY <2>3, <3>3 DEF Mails
      <4>2. /\ m.id = calls[r].id
            /\ m.paper = GenerateReleaseReceipt(updated[r], trust[calls[r].id])
        BY <4>1 DEF sendReleaseReceiptEmail
      <4>3. m.paper.title = "release" /\ m.paper.released = releasedAt(updated[r])
        BY <4>2 DEF GenerateReleaseReceipt
      <4>4. m.id \in Ids /\ deposits[m.id] # Nil
        BY <1>1, <4>2 DEF SafeInv, CallSound, TypeOK, Call
      <4>5. MailTrue(m)
        BY <3>1, <3>3, <4>2, <4>3, <4>4 DEF MailTrue
      <4> QED
        BY <2>a, <4>5
    <3>4. CASE calls[r].op \notin {"Pledge", "Release"}
      BY <2>3, <3>4 DEF Mails
    <3> QED
      BY <3>2, <3>3, <3>4
  <2> QED
    BY <1>1, <1>5, <2>1, <2>2, <2>3
<1> QED
  BY <1>2, <1>3, <1>4, <1>5 DEF PapersInv

(* The steps before the commit, those between it and the announcement, and   *)
(* a request that ends early leave the rows to announce alone, or drop one.  *)
LEMMA QuietFacts ==
  ASSUME SafeInv, PapersInv, NEW r \in Requests, Quiet(r) \/ CutShort(r)
  PROVE  /\ \A q \in Requests \ {r} :
              updated'[q] = updated[q] /\ calls'[q] = calls[q]
         /\ updated' \in [Requests -> Deposit \cup {Nil}]
         /\ outbox' = outbox
         /\ updated'[r] # Nil <=> calls'[r] # Nil /\ calls'[r].pc \in Committed
         /\ updated'[r] # Nil =>
              /\ updated'[r] = updated[r]
              /\ calls'[r].op = calls[r].op /\ calls'[r].id = calls[r].id
<1>1. /\ \A q \in Requests \ {r} : updated'[q] = updated[q] /\ calls'[q] = calls[q]
      /\ updated' \in [Requests -> Deposit \cup {Nil}]
      /\ outbox' = outbox
  <2>1. outbox' = outbox /\ updated' \in [Requests -> Deposit \cup {Nil}]
    BY DEF Quiet, CutShort, noticeVars, PapersInv
  <2>2. \A q \in Requests \ {r} : updated'[q] = updated[q]
    BY DEF Quiet, CutShort, noticeVars, PapersInv
  <2>3. ASSUME NEW x, calls' = [calls EXCEPT ![r] = x]
        PROVE  \A q \in Requests \ {r} : calls'[q] = calls[q]
    BY <2>3 DEF SafeInv, TypeOK
  <2>4. \E x : calls' = [calls EXCEPT ![r] = x]
    <3>1. CASE Handle(r)
      BY <3>1, HandlersAdmitted DEF CreateDeposit, Submit
    <3>2. CASE InsertHistory(r) \/ Fail(r)
      BY <3>2 DEF InsertHistory, Fail
    <3>3. CASE RevokeCredentials(r) \/ DeleteVpSession(r)
      BY <3>3 DEF RevokeCredentials, DeleteVpSession, Proceed
    <3> QED
      BY <3>1, <3>2, <3>3 DEF Quiet, CutShort
  <2> QED
    BY <2>1, <2>2, <2>3, <2>4
<1>2. /\ updated'[r] # Nil <=> calls'[r] # Nil /\ calls'[r].pc \in Committed
      /\ updated'[r] # Nil =>
           /\ updated'[r] = updated[r]
           /\ calls'[r].op = calls[r].op /\ calls'[r].id = calls[r].id
  <2>a. /\ calls \in [Requests -> Call \cup {Nil}]
        /\ Nil \notin Call
        /\ updated[r] # Nil <=> calls[r] # Nil /\ calls[r].pc \in Committed
    BY LifecycleAssumption DEF SafeInv, TypeOK, PapersInv
  <2>1. ASSUME CreateDeposit(r), updated' = updated
        PROVE  updated'[r] = Nil /\ calls'[r].pc \notin Committed
    <3>1. PICK x : calls' = [calls EXCEPT ![r] = x] /\ x.pc = "insert"
      <4> DEFINE new(id) ==
            [pc |-> "insert", op |-> "CreateDeposit", id |-> id,
             seen |-> "REQUESTED", to |-> "REQUESTED", actor |-> "TENANT",
             settlement |-> Nil, reservation |-> Nil, agreed |-> NoSplit]
      <4>1. PICK id \in Ids : calls' = [calls EXCEPT ![r] = new(id)]
        BY <2>1 DEF CreateDeposit
      <4>2. new(id).pc = "insert"
        OBVIOUS
      <4> HIDE DEF new
      <4> QED
        BY <4>1, <4>2
    <3>2. calls[r] = Nil
      BY <2>1 DEF CreateDeposit
    <3> QED
      BY <2>1, <2>a, <3>1, <3>2 DEF Committed
  <2>2. ASSUME NEW c, Admitted(c), Submit(r, c), updated' = updated
        PROVE  updated'[r] = Nil /\ calls'[r].pc \notin Committed
    BY <2>2, <2>a DEF Admitted, Submit, Committed
  <2>3. ASSUME InsertHistory(r), updated' = updated
        PROVE  updated'[r] = Nil /\ calls'[r] = Nil
    BY <2>3, <2>a DEF InsertHistory, Committed
  <2>4. ASSUME RevokeCredentials(r) \/ DeleteVpSession(r), updated' = updated
        PROVE  /\ updated'[r] # Nil /\ updated'[r] = updated[r]
               /\ calls'[r] # Nil /\ calls'[r].pc \in Committed
               /\ calls'[r].op = calls[r].op /\ calls'[r].id = calls[r].id
    <3>1. /\ calls[r] # Nil /\ calls[r].pc \in Committed
          /\ calls' = [calls EXCEPT ![r] = [calls[r] EXCEPT !.pc = "notify"]]
      BY <2>4, <2>a DEF RevokeCredentials, DeleteVpSession, Proceed, Committed
    <3>2. PICK c : c = calls[r] /\ c \in Call
      BY <2>a, <3>1
    <3>3. calls'[r] = [c EXCEPT !.pc = "notify"]
      BY <2>a, <3>1, <3>2
    <3>4. calls'[r] \in Call /\ calls'[r].pc = "notify"
          /\ calls'[r].op = c.op /\ calls'[r].id = c.id
      BY <3>2, <3>3 DEF Call
    <3> QED
      BY <2>4, <2>a, <3>1, <3>2, <3>4 DEF Committed
  <2>5. ASSUME CutShort(r)
        PROVE  updated'[r] = Nil /\ calls'[r] = Nil
    BY <2>5, <2>a DEF CutShort, Fail, PapersInv
  <2>6. Quiet(r) => updated' = updated
    BY DEF Quiet, noticeVars
  <2> QED
    BY <2>1, <2>2, <2>3, <2>4, <2>5, <2>6, HandlersAdmitted DEF Quiet
<1> QED
  BY <1>1, <1>2

(* So they bring no new paper. *)
LEMMA QuietPapers ==
  ASSUME SafeInv, SafeInv', PapersInv, NEW r \in Requests, Quiet(r) \/ CutShort(r)
  PROVE  PapersInv'
<1>a. [Next]_vars
  BY DEF Quiet, CutShort, Next, Continue
<1>1. /\ \A q \in Requests \ {r} : updated'[q] = updated[q] /\ calls'[q] = calls[q]
      /\ updated' \in [Requests -> Deposit \cup {Nil}]
      /\ outbox' = outbox
  BY QuietFacts
<1>2. /\ updated'[r] # Nil <=> calls'[r] # Nil /\ calls'[r].pc \in Committed
      /\ updated'[r] # Nil =>
           /\ updated'[r] = updated[r]
           /\ calls'[r].op = calls[r].op /\ calls'[r].id = calls[r].id
  BY QuietFacts
<1>3. \A q \in Requests :
        updated'[q] # Nil <=> calls'[q] # Nil /\ calls'[q].pc \in Committed
  BY <1>1, <1>2 DEF PapersInv
<1>4. ASSUME NEW q \in Requests, updated'[q] # Nil
      PROVE  /\ calls'[q].op = "Pledge" => updated'[q].pledged
             /\ calls'[q].op = "Release" =>
                  NamesRelease(calls[q].id, releasedAt(updated[q]))'
  BY <1>1, <1>2, <1>4, <1>a, UpdatedStay
<1>5. ASSUME NEW m \in outbox', m.to = "tenant" PROVE MailTrue(m)'
  <2>1. MailTrue(m)
    BY <1>1, <1>5 DEF PapersInv
  <2> QED
    BY <1>a, <2>1, MailsStay
<1> QED
  BY <1>1, <1>3, <1>4, <1>5 DEF PapersInv

(* Every step preserves PapersInv. *)
LEMMA PapersStep ==
  ASSUME SafeInv, SafeInv', SerialInv, SerialInv', PapersInv,
         [NoticeNext]_notifyVars
  PROVE  PapersInv'
<1>1. ASSUME UNCHANGED <<vars, updated>>, outbox' \subseteq outbox
      PROVE  PapersInv'
  <2>1. /\ deposits' = deposits /\ calls' = calls /\ updated' = updated
    BY <1>1 DEF vars
  <2>2. \A m \in outbox' : m.to = "tenant" => MailTrue(m)'
    BY <1>1, <2>1 DEF PapersInv, MailTrue, NamesRelease, History
  <2>3. \A r \in Requests : updated'[r] # Nil =>
          /\ calls'[r].op = "Pledge" => updated'[r].pledged
          /\ calls'[r].op = "Release" =>
               NamesRelease(calls[r].id, releasedAt(updated[r]))'
    BY <2>1 DEF PapersInv, NamesRelease, History
  <2>4. /\ updated' \in [Requests -> Deposit \cup {Nil}]
        /\ \A r \in Requests :
             updated'[r] # Nil <=> calls'[r] # Nil /\ calls'[r].pc \in Committed
    BY <2>1 DEF PapersInv
  <2> QED
    BY <2>2, <2>3, <2>4 DEF PapersInv
<1>2. CASE UNCHANGED notifyVars
  BY <1>1, <1>2 DEF notifyVars, vars
<1>3. ASSUME NEW m \in outbox, Deliver(m) \/ Lose(m)
      PROVE  PapersInv'
  BY <1>1, <1>3 DEF Deliver, Lose
<1>4. ASSUME NEW r \in Requests, Quiet(r) \/ Commit(r) \/ Announce(r) \/ CutShort(r)
      PROVE  PapersInv'
  BY <1>4, QuietPapers, CommitPapers, AnnouncePapers
<1> QED
  BY <1>2, <1>3, <1>4 DEF NoticeNext

(* No patch changes the amount of the deposit. *)
LEMMA AmountKept ==
  ASSUME NEW c \in Call, NEW d \in Deposit, Shape(c), Applicable(c, d)
  PROVE  Written(c, d).amount = d.amount
<1>1. Patch(c, d).amount = d.amount
  BY DEF Call, Operations, Patch, SetIdentity, SetPledge, ReplaceSettlement,
         LockProposal, Escalate, RecordResolution, SetReservation,
         ResolveReservation, ProposeShortfall, Deposit
<1>2. Patch(c, d) \in Deposit
  BY PatchFacts
<1>3. ASSUME NEW p \in Deposit, NEW x, NEW h
      PROVE  [p EXCEPT !.state = x, !.history = h].amount = p.amount
  BY DEF Deposit
<1> QED
  BY <1>1, <1>2, <1>3 DEF Written

(* So it is what the application stated, to the end. *)
LEMMA AmountStays ==
  ASSUME SafeInv, SafeInv', [Next]_vars, NEW id \in Ids, deposits[id] # Nil
  PROVE  deposits'[id] # Nil /\ deposits'[id].amount = deposits[id].amount
<1>1. deposits'[id] # Nil
  BY VisitedStays
<1>2. CASE Preparing
  BY <1>1, <1>2 DEF Preparing
<1>3. ASSUME NEW r \in Requests, UpdateState(r)
      PROVE  deposits'[id].amount = deposits[id].amount
  <2>1. PICK c \in Call, d \in Deposit : Commits(r, c, d)
    BY <1>3, UpdateFacts
  <2>2. /\ c.id \in Ids /\ d = deposits[c.id] /\ Shape(c) /\ Applicable(c, d)
        /\ deposits' = [deposits EXCEPT ![c.id] = Written(c, d)]
    BY <2>1 DEF Commits
  <2>3. Written(c, d).amount = d.amount
    BY <2>2, AmountKept
  <2> QED
    BY <2>2, <2>3 DEF SafeInv, TypeOK
<1> QED
  BY <1>1, <1>2, <1>3, CommitOrPrepare

(* Figures that are true stay true. *)
LEMMA FiguresStay ==
  ASSUME SafeInv, SafeInv', [Next]_vars, trust' = trust,
         NEW id \in Ids, deposits[id] # Nil, NEW p, TrueFigures(id, p)
  PROVE  deposits'[id] # Nil /\ TrueFigures(id, p)'
<1>1. deposits'[id] # Nil /\ deposits'[id].amount = deposits[id].amount
  BY AmountStays
<1> QED
  BY <1>1 DEF TrueFigures, AddsUp

(* What the papers say of the amount. *)
LEMMA PaperFigures ==
  ASSUME NEW d \in Deposit, NEW t \in Trusteeships
  PROVE  /\ Generate(d).amount = d.amount /\ Generate(d).title = "receipt"
         /\ GenerateReleaseReceipt(d, t).amount = d.amount
         /\ AddsUp(t, d.amount) =>
              GenerateReleaseReceipt(d, t).returned
                = d.amount + GenerateReleaseReceipt(d, t).interest
<1>1. t.balance \in Int /\ t.interest \in Int /\ d.amount \in Int
  BY NotificationsAssumption DEF Deposit
<1>2. PICK p : p = GenerateReleaseReceipt(d, t)
  OBVIOUS
<1>3. /\ p.amount = d.amount
      /\ p.interest = IF t.balance > 0 /\ t.interest > 0 THEN t.interest ELSE 0
      /\ p.returned = IF t.balance > 0 THEN t.balance ELSE d.amount
  BY <1>2 DEF GenerateReleaseReceipt
<1>4. AddsUp(t, d.amount) => p.returned = d.amount + p.interest
  <2>1. CASE t.balance > 0
    BY <1>1, <1>3, <2>1 DEF AddsUp
  <2>2. CASE ~(t.balance > 0)
    BY <1>1, <1>3, <2>2
  <2> QED
    BY <2>1, <2>2
<1> QED
  BY <1>2, <1>3, <1>4 DEF Generate

(* Every step preserves FiguresInv. *)
LEMMA FiguresStep ==
  ASSUME SafeInv, SafeInv', PapersInv, FiguresInv, [NoticeNext]_notifyVars
  PROVE  FiguresInv'
<1>a. [Next]_vars
  BY NoticeStep
<1>b. trust' = trust
  BY DEF NoticeNext, Quiet, Commit, Announce, CutShort, Deliver, Lose, noticeVars,
         notifyVars
<1>c. /\ trust \in [Ids -> Trusteeships]
      /\ \A r \in Requests : updated[r] # Nil =>
           updated[r].amount = deposits[calls[r].id].amount
      /\ \A m \in outbox : m.to = "tenant" =>
           /\ m.id \in Ids /\ deposits[m.id] # Nil
           /\ TrueFigures(m.id, m.paper)
  BY DEF FiguresInv
<1>d. ASSUME NEW r \in Requests, updated[r] # Nil
      PROVE  calls[r].id \in Ids /\ deposits[calls[r].id] # Nil
  BY <1>d DEF PapersInv, SafeInv, CallSound, TypeOK, Call
<1>e. ASSUME NEW r \in Requests, updated[r] # Nil,
             updated'[r] = updated[r], calls'[r].id = calls[r].id
      PROVE  updated'[r].amount = deposits'[calls'[r].id].amount
  <2>1. PICK id \in Ids : id = calls[r].id /\ deposits[id] # Nil
    BY <1>d, <1>e
  <2>2. deposits'[id].amount = deposits[id].amount
    BY <1>a, <2>1, AmountStays
  <2> QED
    BY <1>c, <1>e, <2>1, <2>2
<1>f. ASSUME NEW m, m.id \in Ids, deposits[m.id] # Nil, TrueFigures(m.id, m.paper)
      PROVE  deposits'[m.id] # Nil /\ TrueFigures(m.id, m.paper)'
  <2>1. PICK id, p : id = m.id /\ p = m.paper
    BY <1>f
  <2>2. deposits'[id] # Nil /\ TrueFigures(id, p)'
    BY <1>a, <1>b, <1>f, <2>1, FiguresStay
  <2> QED
    BY <2>1, <2>2
<1>1. ASSUME NEW r \in Requests, Commit(r) PROVE FiguresInv'
  <2>1. PICK c \in Call, d \in Deposit : Commits(r, c, d)
    BY <1>1, UpdateFacts DEF Commit
  <2>2. PICK x : x = [c EXCEPT !.pc = AfterUpdate(c.op)]
    OBVIOUS
  <2>3. /\ c = calls[r] /\ x.id = c.id /\ calls' = [calls EXCEPT ![r] = x]
    BY <2>1, <2>2 DEF Commits, Call
  <2>4. /\ updated'[r] = deposits'[c.id] /\ calls'[r].id = c.id
        /\ \A q \in Requests \ {r} : updated'[q] = updated[q] /\ calls'[q] = calls[q]
        /\ outbox' = outbox
    BY <1>1, <2>3 DEF Commit, PapersInv, SafeInv, TypeOK
  <2>5. \A q \in Requests : updated'[q] # Nil =>
          updated'[q].amount = deposits'[calls'[q].id].amount
    BY <1>e, <2>4
  <2> QED
    BY <1>b, <1>c, <1>f, <2>4, <2>5 DEF FiguresInv
<1>2. ASSUME NEW r \in Requests, Quiet(r) \/ CutShort(r) PROVE FiguresInv'
  <2>1. \A q \in Requests : updated'[q] # Nil =>
          updated'[q] = updated[q] /\ calls'[q].id = calls[q].id
    BY <1>2, QuietFacts
  <2>2. outbox' = outbox
    BY <1>2, QuietFacts
  <2>3. \A q \in Requests : updated'[q] # Nil =>
          updated'[q].amount = deposits'[calls'[q].id].amount
    BY <1>e, <2>1
  <2> QED
    BY <1>b, <1>c, <1>f, <2>2, <2>3 DEF FiguresInv
<1>3. ASSUME NEW r \in Requests, Announce(r) PROVE FiguresInv'
  <2>1. /\ calls[r] # Nil /\ calls[r].pc = "notify"
        /\ calls' = [calls EXCEPT ![r] = Nil]
        /\ updated' = [updated EXCEPT ![r] = Nil]
        /\ outbox' = outbox \cup {fireWebhook(r, clock')} \cup Mails(r)
    BY <1>3 DEF Announce, Notify
  <2>2. /\ updated'[r] = Nil
        /\ \A q \in Requests \ {r} : updated'[q] = updated[q] /\ calls'[q] = calls[q]
    BY <2>1 DEF PapersInv, SafeInv, TypeOK
  <2>3. \A q \in Requests : updated'[q] # Nil =>
          updated'[q].amount = deposits'[calls'[q].id].amount
    BY <1>e, <2>2
  <2>4. PICK u, id : u = updated[r] /\ id = calls[r].id
    OBVIOUS
  <2>5. /\ u # Nil /\ u \in Deposit /\ id \in Ids /\ deposits[id] # Nil
        /\ u.amount = deposits[id].amount /\ trust[id] \in Trusteeships
    <3>1. u # Nil
      BY <2>1, <2>4 DEF PapersInv, Committed
    <3>2. u \in Deposit
      BY <2>4, <3>1 DEF PapersInv
    <3> QED
      BY <1>c, <1>d, <2>4, <3>1, <3>2
  <2>6. ASSUME NEW m \in Mails(r)
        PROVE  m.id \in Ids /\ deposits[m.id] # Nil /\ TrueFigures(m.id, m.paper)
    <3>1. /\ m.id = id
          /\ m.paper \in {Generate(u), GenerateReleaseReceipt(u, trust[id])}
      BY <2>4, <2>6 DEF Mails, sendReceiptEmail, sendReleaseReceiptEmail
    <3>2. TrueFigures(id, Generate(u)) /\ TrueFigures(id, GenerateReleaseReceipt(u, trust[id]))
      BY <2>5, PaperFigures DEF TrueFigures
    <3> QED
      BY <2>5, <3>1, <3>2
  <2>7. ASSUME NEW m \in outbox', m.to = "tenant"
        PROVE  m.id \in Ids /\ deposits[m.id] # Nil /\ TrueFigures(m.id, m.paper)
    <3>1. m # fireWebhook(r, clock')
      BY <2>7 DEF fireWebhook
    <3> QED
      BY <1>c, <2>1, <2>6, <2>7, <3>1
  <2> QED
    BY <1>b, <1>c, <1>f, <2>3, <2>7 DEF FiguresInv
<1>4. ASSUME UNCHANGED <<vars, updated>>, outbox' \subseteq outbox PROVE FiguresInv'
  <2>1. calls' = calls /\ updated' = updated
    BY <1>4 DEF vars
  <2>2. \A q \in Requests : updated'[q] # Nil =>
          updated'[q].amount = deposits'[calls'[q].id].amount
    BY <1>e, <2>1
  <2> QED
    BY <1>4, <1>b, <1>c, <1>f, <2>2 DEF FiguresInv
<1>5. CASE UNCHANGED notifyVars
  BY <1>4, <1>5 DEF notifyVars, vars
<1>6. ASSUME NEW m \in outbox, Deliver(m) \/ Lose(m) PROVE FiguresInv'
  BY <1>4, <1>6 DEF Deliver, Lose
<1> QED
  BY <1>1, <1>2, <1>3, <1>5, <1>6 DEF NoticeNext

(* What the invariants say of the papers. *)
LEMMA PapersFollow ==
  ASSUME SafeInv, PayoutInv, SerialInv, PapersInv, FiguresInv
  PROVE  PapersAreTrue
<1>1. ASSUME NEW id \in Ids, NEW p \in GetReceipt(id)
      PROVE  p.confirmed /\ TrueFigures(id, p)
  <2>1. /\ p = Generate(deposits[id]) /\ id \in KnownIds
        /\ deposits[id].state \in
             {"PLEDGED", "RELEASED", "CLAIMED", "PARTIALLY_RELEASED",
              "SETTLE_PROPOSED", "DISPUTED", "CLOSED"}
    BY <1>1 DEF GetReceipt
  <2>2. deposits[id] # Nil
    BY <2>1 DEF SafeInv
  <2>3. deposits[id].state \in Secured /\ deposits[id].state \in Visited(id)
    BY <2>1, <2>2, StateVisited DEF Secured, LifecycleStates
  <2>4. Visited(id) \cap Secured # {}
    BY <2>3
  <2>5. deposits[id].pledged
    BY <2>2, <2>4 DEF PayoutInv
  <2>6. p.confirmed = deposits[id].pledged
    BY <2>1 DEF Generate
  <2>7. TrueFigures(id, p)
    BY <2>1, <2>2 DEF TrueFigures, Generate
  <2> QED
    BY <2>5, <2>6, <2>7
<1>2. ASSUME NEW id \in Ids, NEW p \in GetReleaseReceipt(id),
             deposits[id].state = "RELEASED"
      PROVE  NamesRelease(id, p.released) /\ TrueFigures(id, p)
  <2>1. p = GenerateReleaseReceipt(deposits[id], trust[id]) /\ id \in KnownIds
    BY <1>2 DEF GetReleaseReceipt
  <2>2. PICK d : d = deposits[id] /\ d # Nil /\ d \in Deposit
    BY <2>1 DEF SafeInv, TypeOK
  <2>3. /\ d.history # << >> /\ d.state = d.history[Len(d.history)].state
        /\ RowSound(d)
    BY <2>2 DEF SafeInv, AuditMatchesHistory, History, SerialInv
  <2>4. FullRelease(d.history, releasedAt(d))
    BY <1>2, <2>2, <2>3, ReleaseNamed
  <2>5. p.released = releasedAt(d)
    BY <2>1, <2>2 DEF GenerateReleaseReceipt
  <2>6. NamesRelease(id, p.released)
    BY <2>2, <2>4, <2>5 DEF FullRelease, NamesRelease, History
  <2>7. trust[id] \in Trusteeships
    BY DEF FiguresInv
  <2>8. TrueFigures(id, p)
    BY <2>1, <2>2, <2>7, PaperFigures DEF TrueFigures
  <2> QED
    BY <2>6, <2>8
<1>3. ASSUME NEW m \in outbox, m.to = "tenant"
      PROVE  /\ TrueFigures(m.id, m.paper)
             /\ m.paper.title = "receipt" => m.paper.confirmed
             /\ m.paper.title = "release" => NamesRelease(m.id, m.paper.released)
  BY <1>3 DEF PapersInv, MailTrue, FiguresInv
<1> QED
  BY <1>1, <1>2, <1>3 DEF PapersAreTrue

(***************************************************************************)
(* Without overlap the papers are true, those mailed and those fetched,    *)
(* whatever messages are late or lost: a receipt says what the bank has    *)
(* confirmed; a release confirmation names a release that came before any  *)
(* award, and returns the deposit with the interest it lists, if the       *)
(* application's figures add up.                                           *)
(***************************************************************************)
THEOREM PapersTrue == NoticeSpec /\ []OneAtATime => []PapersAreTrue
<1>1. NoticeInit => PapersInv /\ FiguresInv
  BY DEF NoticeInit, Init, PapersInv, FiguresInv
<1>2. SafeInv /\ SafeInv' /\ SerialInv /\ SerialInv' /\ PapersInv /\ FiguresInv
        /\ [NoticeNext]_notifyVars => PapersInv' /\ FiguresInv'
  BY PapersStep, FiguresStep
<1>3. NoticeSpec => NoticeInit /\ [][NoticeNext]_notifyVars
  BY PTL DEF NoticeSpec
<1>4. NoticeSpec /\ []OneAtATime => []SafeInv /\ []PayoutInv /\ []SerialInv
  BY NoticeImplementsLifecycle, SafeInvariant, PayoutInvariant, SerialInvariant, PTL
<1>5. SafeInv /\ PayoutInv /\ SerialInv /\ PapersInv /\ FiguresInv =>
        PapersAreTrue
  BY PapersFollow
<1> QED
  BY <1>1, <1>2, <1>3, <1>4, <1>5, PTL

(* In particular when requests are served one after the other: the three     *)
(* promises hold together.                                                   *)
THEOREM SerialPromises ==
  ASSUME NEW r, Requests = {r}
  PROVE  NoticeSpec => /\ KeepsContract
                       /\ []UtilityProposalDividesReservation
                       /\ []PapersAreTrue
<1>1. OneAtATime
  BY OneRequestAlone
<1> QED
  BY <1>1, NoticeImplementsLifecycle, ContractKept, UtilityProposalDivides,
     PapersTrue, PTL
=============================================================================
