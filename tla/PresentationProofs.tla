------------------------- MODULE PresentationProofs -------------------------
(***************************************************************************)
(* Proofs about Presentations, for any number of deposits, requests,       *)
(* sessions, VP sessions and credentials, whatever fails and whenever the  *)
(* server restarts.                                                        *)
(*                                                                         *)
(* The argument.  Every step but a restart is one of the composition that  *)
(* CredentialProofs is about, and a step of issuance, or of none: what is  *)
(* proved of the deposits, of the credentials and of issuance alone holds  *)
(* once a restart is seen to keep it.  A request signs as the wallet only  *)
(* while it carries a presentation, and the step that commits its entry    *)
(* writes the presentation down.  Requests may overlap and an answer may   *)
(* get lost after its commit: what a VP session is used for is then told   *)
(* by whether it became doubtful.  One theorem asks that requests about    *)
(* the same deposit do not overlap.                                        *)
(***************************************************************************)
EXTENDS Presentations, CredentialProofs

(* The entry of the wallet at place k of the history of a deposit. *)
WalletEntry(id, k) ==
  /\ id \in Ids /\ deposits[id] # Nil
  /\ k \in 1 .. Len(History(id))
  /\ History(id)[k].actor = "WALLET"

(* A request that carries a presentation is on its way to record it or about *)
(* to delete the VP session, and the credential is about its deposit.        *)
Carries(r) ==
  answers[r] # Nil =>
    /\ calls[r] # Nil /\ calls[r].pc \in {"update", "delete"}
    /\ calls[r].op = "ReceiveVpResponse"
    /\ answers[r].cred \in held /\ answers[r].cred.deposit = calls[r].id

(* On its way it signs as the wallet, and no other request does. *)
Signs(r) ==
  OnItsWay(r) => (calls[r].actor = "WALLET" <=> answers[r] # Nil)

(* What was recorded is an entry of the wallet, *)
ShownWritten ==
  \A p \in shown : p.cred \in held /\ WalletEntry(p.cred.deposit, p.place)

(* and each such entry was recorded. *)
WrittenShown ==
  \A id \in Ids : \A k \in Nat : WalletEntry(id, k) =>
    \E p \in shown : p.cred.deposit = id /\ p.place = k

(* Wallets hold what Respond gave them. *)
HeldTyped == held \subseteq I!SignedCredential

(* What makes WalletEntriesBacked inductive. *)
WalletInv ==
  /\ answers \in [Requests -> Answer \cup {Nil}]
  /\ \A r \in Requests : Carries(r) /\ Signs(r)
  /\ ShownWritten
  /\ WrittenShown

(* No two requests answer the same VP session at the same time. *)
OneAnswerEach ==
  \A r, q \in Requests :
    answers[r] # Nil /\ answers[q] # Nil /\ answers[r].vp = answers[q].vp
      => r = q \/ answers[r].vp \in doubtful

(* It is deleted, or the request that recorded its answer is about to do so. *)
Spent(v) ==
  \/ vpSessions[v] = "deleted"
  \/ \E r \in Requests :
       answers[r] # Nil /\ answers[r].vp = v /\ calls[r].pc = "delete"

(***************************************************************************)
(* What makes VpSessionSingleUse inductive, all of it but for the doubtful *)
(* VP sessions: one request at most answers a VP session, and then it is   *)
(* in the map; that of a recorded presentation is spent.                   *)
(***************************************************************************)
UseInv ==
  /\ vpSessions \in [VpSessions -> VpSessionState]
  /\ OneAnswerEach
  /\ \A r \in Requests : answers[r] # Nil =>
       vpSessions[answers[r].vp] \in {"open", "expired"}
       \/ answers[r].vp \in doubtful
  /\ \A p \in shown : p.vp \in VpSessions /\ (Spent(p.vp) \/ p.vp \in doubtful)
  /\ VpSessionSingleUse

(* Every step is one of the composition, or a restart. *)
LEMMA PresentationSteps ==
  [PresentationsNext]_everything => [SystemNext]_allVars \/ Restart
<1> SUFFICES ASSUME [PresentationsNext]_everything, ~Restart
             PROVE  [SystemNext]_allVars
  OBVIOUS
<1>1. CASE UNCHANGED everything
  BY <1>1 DEF everything, allVars
<1>2. ASSUME NEW v \in VpSessions, CreateVpRequest(v) \/ ExpireVpSession(v)
      PROVE  UNCHANGED allVars
  BY <1>2 DEF CreateVpRequest, ExpireVpSession
<1>3. ASSUME NEW r \in Requests,
             Present(r) \/ RecordPresentation(r) \/ EndVpSession(r)
               \/ PresentationFails(r)
      PROVE  SystemNext
  <2>1. DepositStep(r) \/ Interrupted(r)
    BY <1>3 DEF Present, RecordPresentation, EndVpSession, PresentationFails,
                DepositStep, Handle
  <2> QED
    BY <2>1 DEF SystemNext, SmoothNext, Failure
<1>4. CASE OtherStep
  <2>1. ASSUME NEW r \in Requests, OtherHandle(r) PROVE Handle(r)
    BY <2>1 DEF OtherHandle, Handle
  <2>2. ASSUME NEW r \in Requests, UNCHANGED issuanceVars,
               OtherHandle(r) \/ InsertHistory(r) \/ UpdateState(r) \/ Notify(r)
        PROVE  DepositStep(r)
    BY <2>1, <2>2 DEF DepositStep
  <2> QED
    BY <1>4, <2>2 DEF OtherStep, SystemNext, SmoothNext, Failure
<1> QED
  BY <1>1, <1>2, <1>3, <1>4 DEF PresentationsNext

(* A restart ends all requests and keeps the tables. *)
LEMMA RestartKeeps ==
  ASSUME SafeInv, CredInv, Restart
  PROVE  SafeInv' /\ CredInv' /\ (SerialInv => SerialInv')
<1>1. /\ calls' = [r \in Requests |-> Nil] /\ inFlight' = [w \in Workers |-> Nil]
      /\ deposits' = deposits /\ audit' = audit
      /\ sessions' = sessions /\ nextIndex' = nextIndex /\ held' = held
  BY DEF Restart
<1>2. \A r \in Requests : calls'[r] = Nil
  BY <1>1
<1>3. SafeInv'
  BY <1>1, <1>2
  DEF SafeInv, TypeOK, KnownIds, CallSound, NoNilDereference, AuditMatchesHistory,
      History
<1>4. Typed' /\ OffersInv' /\ RevokedOnlyWhenOver'
  BY <1>1 DEF CredInv, Typed, OffersInv, RevokedOnlyWhenOver, Revoked, I!Exists,
              Pledged, HasBeen, History
<1>5. RevokingInv'
  BY <1>2 DEF RevokingInv
<1>6. SerialInv => SerialInv'
  BY <1>1, <1>2 DEF SerialInv, OnItsWay
<1> QED
  BY <1>3, <1>4, <1>5, <1>6 DEF CredInv

(* Restarts included, the deposits and the credentials keep what is proved   *)
(* of them without.                                                          *)
LEMMA PresentationsSafe == PresentationsSpec => [](SafeInv /\ CredInv)
<1>1. PresentationsInit => SafeInv /\ CredInv
  <2>1. SystemInit => SafeInv
    BY SafeInit DEF SystemInit
  <2>2. SystemInit => CredInv
    BY DEF SystemInit, Init, I!Init, CredInv, Typed, OffersInv, RevokingInv,
           RevokedOnlyWhenOver, Revoked, I!Exists
  <2> QED
    BY <2>1, <2>2 DEF PresentationsInit
<1>2. SafeInv /\ CredInv /\ [PresentationsNext]_everything => (SafeInv /\ CredInv)'
  BY PresentationSteps, RestartKeeps, DepositSteps, SafeStep, CredStep
<1> QED
  BY <1>1, <1>2, PTL DEF PresentationsSpec

-----------------------------------------------------------------------------
(* The wallet's entries *)

(* An entry of the wallet stays one, and a new one was written by a request  *)
(* that signs as the wallet.                                                 *)
LEMMA WalletEntries ==
  ASSUME SafeInv, SafeInv', [Next]_vars
  PROVE  /\ \A id, k : WalletEntry(id, k) => WalletEntry(id, k)'
         /\ \A id, k : WalletEntry(id, k)' =>
              \/ WalletEntry(id, k)
              \/ \E r \in Requests :
                   /\ OnItsWay(r) /\ calls[r].actor = "WALLET" /\ calls[r].id = id
                   /\ calls'[r] # Nil /\ calls'[r].pc # "update"
                   /\ k = Len(deposits'[id].history)
<1>1. ASSUME NEW id, NEW k, WalletEntry(id, k)
      PROVE  WalletEntry(id, k)'
  <2> DEFINE h == deposits[id].history
             g == deposits'[id].history
  <2>1. id \in Ids /\ deposits[id] # Nil /\ k \in 1 .. Len(h) /\ h[k].actor = "WALLET"
    BY <1>1 DEF WalletEntry, History
  <2>2. /\ deposits'[id] # Nil
        /\ Len(h) \in Nat /\ Len(g) \in Nat /\ Len(h) <= Len(g)
        /\ \A j \in 1 .. Len(h) : g[j] = h[j]
    BY <2>1, EntriesStay
  <2> HIDE DEF h, g
  <2>3. k \in 1 .. Len(g) /\ g[k].actor = "WALLET"
    BY <2>1, <2>2
  <2> QED
    BY <2>1, <2>2, <2>3 DEF WalletEntry, History, g
<1>2. ASSUME NEW id, NEW k, WalletEntry(id, k)', ~WalletEntry(id, k)
      PROVE  \E r \in Requests :
                /\ OnItsWay(r) /\ calls[r].actor = "WALLET" /\ calls[r].id = id
                /\ calls'[r] # Nil /\ calls'[r].pc # "update"
                /\ k = Len(deposits'[id].history)
  <2> DEFINE g == deposits'[id].history
  <2>1. id \in Ids /\ deposits'[id] # Nil /\ k \in 1 .. Len(g) /\ g[k].actor = "WALLET"
    BY <1>2 DEF WalletEntry, History
  <2>2. ~Preparing
    <3> SUFFICES ASSUME Preparing PROVE FALSE
      OBVIOUS
    <3>1. CASE deposits[id] # Nil
      BY <1>2, <2>1, <3>1 DEF Preparing, WalletEntry, History
    <3>2. CASE deposits[id] = Nil
      <4>1. g = <<FirstEntry>>
        BY <2>1, <3>2 DEF Preparing
      <4>2. Len(<<FirstEntry>>) = 1 /\ <<FirstEntry>>[1].actor # "WALLET"
        BY DEF FirstEntry
      <4> QED
        BY <2>1, <4>1, <4>2
    <3> QED
      BY <3>1, <3>2
  <2>3. PICK r \in Requests : UpdateState(r)
    BY <2>2, CommitOrPrepare
  <2>4. PICK c \in Call, d \in Deposit : Commits(r, c, d)
    BY <2>3, UpdateFacts
  <2>5. PICK i \in Ids : i = c.id /\ d = deposits[i] /\ d # Nil
    BY <2>4 DEF Commits
  <2>6. Grows(i, c, d)
    BY <2>4, <2>5, HistoryGrows
  <2>7. i = id
    <3>1. i # id => deposits'[id] = deposits[id]
      BY <2>1, <2>6 DEF Grows
    <3> QED
      BY <1>2, <2>1, <3>1 DEF WalletEntry, History
  <2> DEFINE h == d.history
  <2>8. /\ Len(h) \in Nat /\ Len(g) = Len(h) + 1
        /\ \A j \in 1 .. Len(h) : g[j] = h[j]
        /\ g[Len(h) + 1] = [state |-> c.to, actor |-> c.actor]
    BY <2>6, <2>7 DEF Grows
  <2>9. ~(k \in 1 .. Len(h) /\ h[k].actor = "WALLET")
    BY <1>2, <2>5, <2>7 DEF WalletEntry, History
  <2>10. k = Len(g) /\ c.actor = "WALLET"
    <3> HIDE DEF g, h
    <3>1. k \notin 1 .. Len(h)
      BY <2>1, <2>8, <2>9
    <3>2. k = Len(h) + 1
      BY <2>1, <2>8, <3>1
    <3> QED
      BY <2>1, <2>8, <3>2
  <2>11. /\ c = calls[r] /\ c # Nil /\ c.pc = "update"
         /\ calls' = [calls EXCEPT ![r] = [c EXCEPT !.pc = AfterUpdate(c.op)]]
         /\ AfterUpdate(c.op) # "update"
    BY <2>4 DEF Commits
  <2>12. /\ calls'[r] = [c EXCEPT !.pc = AfterUpdate(c.op)]
         /\ calls'[r].pc = AfterUpdate(c.op)
    BY <2>11 DEF SafeInv, TypeOK, Call
  <2>13. calls'[r] # Nil
    <3>1. [c EXCEPT !.pc = AfterUpdate(c.op)] \in Call
      BY <2>4 DEF Commits, Call
    <3> QED
      BY <2>12, <3>1, LifecycleAssumption
  <2> QED
    BY <2>5, <2>7, <2>10, <2>11, <2>12, <2>13 DEF OnItsWay
<1> QED
  BY <1>1, <1>2

(* No other handler signs as the wallet. *)
LEMMA OtherHandlers ==
  ASSUME NEW r \in Requests, OtherHandle(r)
  PROVE  \E c : /\ calls' = [calls EXCEPT ![r] = c]
                /\ c.pc = "update" => c.actor # "WALLET"
<1>a. \A id, op, to, actor : Request(id, op, to, actor).actor = actor
  BY DEF Request
<1>b. ASSUME NEW id, NEW op, NEW to, NEW actor, NEW x, actor # "WALLET",
             \/ Submit(r, [Request(id, op, to, actor) EXCEPT !.settlement = x])
             \/ Submit(r, [Request(id, op, to, actor) EXCEPT !.agreed = x])
             \/ Submit(r, [Request(id, op, to, actor) EXCEPT !.reservation = x])
      PROVE  \E c : Submit(r, c) /\ c.actor # "WALLET"
  <2> DEFINE q == Request(id, op, to, actor)
  <2>1. PICK c : /\ Submit(r, c)
                 /\ \/ c = [q EXCEPT !.settlement = x]
                    \/ c = [q EXCEPT !.agreed = x]
                    \/ c = [q EXCEPT !.reservation = x]
    BY <1>b
  <2>2. c.actor = actor
    BY <2>1 DEF Request
  <2> QED
    BY <1>b, <2>1, <2>2
<1>c. "WALLET" \notin Party
  BY DEF Party
<1>1. CASE CreateDeposit(r)
  <2>1. PICK id \in Ids :
          calls' = [calls EXCEPT ![r] =
            [pc |-> "insert", op |-> "CreateDeposit", id |-> id,
             seen |-> "REQUESTED", to |-> "REQUESTED", actor |-> "TENANT",
             settlement |-> Nil, reservation |-> Nil, agreed |-> NoSplit]]
    BY <1>1 DEF CreateDeposit
  <2> DEFINE c == [pc |-> "insert", op |-> "CreateDeposit", id |-> id,
                   seen |-> "REQUESTED", to |-> "REQUESTED", actor |-> "TENANT",
                   settlement |-> Nil, reservation |-> Nil, agreed |-> NoSplit]
  <2>2. calls' = [calls EXCEPT ![r] = c] /\ c.actor # "WALLET"
    BY <2>1
  <2> HIDE DEF c
  <2> QED
    BY <2>2
<1>2. CASE ~CreateDeposit(r)
  <2> SUFFICES \E c : Submit(r, c) /\ c.actor # "WALLET"
    BY DEF Submit
  <2>1. CASE UpdateIdentity(r)
    BY <2>1, <1>a DEF UpdateIdentity
  <2>2. CASE Pledge(r)
    BY <2>2, <1>a DEF Pledge
  <2>3. CASE Release(r)
    BY <2>3, <1>a DEF Release
  <2>4. CASE Claim(r)
    BY <2>4, <1>a DEF Claim
  <2>5. CASE Settle(r)
    BY <2>5, <1>b, <1>c DEF Settle
  <2>6. CASE SettleAccept(r)
    BY <2>6, <1>b, <1>c DEF SettleAccept
  <2>7. CASE Dispute(r)
    BY <2>7, <1>a, <1>c DEF Dispute
  <2>8. CASE DisputeResolve(r)
    BY <2>8, <1>b DEF DisputeResolve
  <2>9. CASE PartialRelease(r)
    BY <2>9, <1>b DEF PartialRelease
  <2>10. CASE UtilitySettle(r)
    <3>1. PICK id, x :
            \/ Submit(r, Request(id, "UtilityClose", "CLOSED", "LANDLORD"))
            \/ Submit(r, [Request(id, "UtilityPropose", "SETTLE_PROPOSED",
                                  "LANDLORD") EXCEPT !.settlement = x])
      BY <2>10 DEF UtilitySettle
    <3>2. CASE Submit(r, Request(id, "UtilityClose", "CLOSED", "LANDLORD"))
      BY <3>2, <1>a
    <3> QED
      BY <3>1, <3>2, <1>b
  <2> QED
    BY <2>1, <2>2, <2>3, <2>4, <2>5, <2>6, <2>7, <2>8, <2>9, <2>10, <1>2 DEF OtherHandle
<1> QED
  BY <1>1, <1>2

(* Wallets lose nothing. *)
LEMMA HeldStays == [PresentationsNext]_everything => held \subseteq held'
<1> SUFFICES ASSUME [PresentationsNext]_everything PROVE held \subseteq held'
  OBVIOUS
<1>1. CASE Restart
  BY <1>1 DEF Restart
<1>2. CASE UNCHANGED issuanceVars
  BY <1>2 DEF issuanceVars
<1>3. ASSUME NEW r \in Requests, Revoke(r) PROVE held' = held
  BY <1>3 DEF Revoke, I!RevokeByDepositID
<1>4. ASSUME NEW w \in Workers, NEW d \in Ids, Offer(w, d) PROVE held' = held
  BY <1>4 DEF Offer, I!IssueCredential
<1>5. CASE IssuanceStep \/ \E w \in Workers : IssuanceFails(w)
  BY <1>5 DEF IssuanceStep, IssuanceFails, I!CreateSession, I!Credential,
              I!ConsumeByToken, I!Respond, I!Token, I!Expire, I!Fail
<1>6. ASSUME NEW r \in Requests,
             DepositStep(r) \/ RevokeFails(r) \/ Interrupted(r)
      PROVE  UNCHANGED issuanceVars
  BY <1>6 DEF DepositStep, RevokeFails, Interrupted
<1>7. CASE UNCHANGED allVars
  BY <1>7 DEF allVars
<1> QED
  BY <1>1, <1>2, <1>3, <1>4, <1>5, <1>6, <1>7, PresentationSteps
  DEF SystemNext, SmoothNext, Failure

(* A step of a request that carries no presentation. *)
Elsewhere(r) ==
  /\ answers[r] = Nil
  /\ \E x : /\ calls' = [calls EXCEPT ![r] = x]
            /\ x = Nil \/ x.pc # "update" \/ x.actor # "WALLET"
  /\ UNCHANGED presentationVars

(***************************************************************************)
(* What a step may do to the presentations under way and to the histories: *)
(* leave both alone, serve a request that carries no presentation, or one  *)
(* of the four steps of ReceiveVpResponse.                                 *)
(***************************************************************************)
LEMMA PresentationKinds ==
  ASSUME SafeInv, [PresentationsNext]_everything, ~Restart
  PROVE  \/ /\ UNCHANGED <<deposits, calls, answers, shown, doubtful>>
            /\ \/ UNCHANGED vpSessions
               \/ \E v \in VpSessions : CreateVpRequest(v) \/ ExpireVpSession(v)
         \/ \E r \in Requests :
              \/ Elsewhere(r)
              \/ Present(r) \/ RecordPresentation(r)
              \/ EndVpSession(r) \/ PresentationFails(r)
<1>1. CASE UNCHANGED everything
  BY <1>1 DEF everything
<1>2. ASSUME NEW v \in VpSessions, CreateVpRequest(v) \/ ExpireVpSession(v)
      PROVE  UNCHANGED <<deposits, calls, answers, shown, doubtful>>
  BY <1>2 DEF CreateVpRequest, ExpireVpSession, allVars
<1>3. CASE OtherStep
  <2>1. UNCHANGED presentationVars
    BY <1>3 DEF OtherStep
  <2>2. CASE IssuanceStep \/ (\E w \in Workers : IssuanceFails(w))
               \/ \E w \in Workers, d \in Ids : Offer(w, d)
    BY <2>1, <2>2 DEF IssuanceStep, IssuanceFails, Offer, vars, presentationVars
  <2>3. ASSUME NEW r \in Requests, answers[r] = Nil, OtherHandle(r)
        PROVE  Elsewhere(r)
    BY <2>1, <2>3, OtherHandlers DEF Elsewhere
  <2>4. ASSUME NEW r \in Requests, answers[r] = Nil,
               \/ InsertHistory(r) \/ Notify(r) \/ Revoke(r) \/ RevokeFails(r)
               \/ Interrupted(r)
        PROVE  Elsewhere(r)
    <3>1. CASE InsertHistory(r) \/ Notify(r) \/ Interrupted(r)
      BY <2>1, <2>4, <3>1 DEF InsertHistory, Notify, Interrupted, Fail, Elsewhere
    <3>2. CASE Revoke(r) \/ RevokeFails(r)
      <4>1. /\ calls[r] # Nil /\ calls' = [calls EXCEPT ![r].pc = "notify"]
        BY <3>2 DEF Revoke, RevokeFails, RevokeCredentials, Proceed
      <4>2. PICK x : x = [calls[r] EXCEPT !.pc = "notify"]
        OBVIOUS
      <4>3. x.pc = "notify"
        BY <4>1, <4>2 DEF SafeInv, TypeOK, Call
      <4> QED
        BY <2>1, <2>4, <4>1, <4>2, <4>3 DEF Elsewhere
    <3> QED
      BY <2>4, <3>1, <3>2
  <2>5. ASSUME NEW r \in Requests, answers[r] = Nil, UpdateState(r)
        PROVE  Elsewhere(r)
    <3>1. PICK c \in Call, d \in Deposit : Commits(r, c, d)
      BY <2>5, UpdateFacts
    <3>2. PICK x : x = [c EXCEPT !.pc = AfterUpdate(c.op)]
      OBVIOUS
    <3>3. calls' = [calls EXCEPT ![r] = x] /\ x.pc # "update"
      BY <3>1, <3>2 DEF Commits, Call
    <3> QED
      BY <2>1, <2>5, <3>3 DEF Elsewhere
  <2> QED
    BY <1>3, <2>2, <2>3, <2>4, <2>5 DEF OtherStep
<1> QED
  BY <1>1, <1>2, <1>3 DEF PresentationsNext

(* What a request is about changes only in its own steps. *)
LEMMA OthersKeep ==
  ASSUME NEW q \in Requests, Carries(q), Signs(q), held \subseteq held',
         calls'[q] = calls[q], answers'[q] = answers[q]
  PROVE  Carries(q)' /\ Signs(q)'
BY DEF Carries, Signs, OnItsWay

(* What is written and what is shown stays, if neither changes. *)
LEMMA SameEntries ==
  ASSUME ShownWritten, WrittenShown, held \subseteq held',
         deposits' = deposits, shown' = shown
  PROVE  ShownWritten' /\ WrittenShown'
<1>1. \A id, k : WalletEntry(id, k)' <=> WalletEntry(id, k)
  BY DEF WalletEntry, History
<1>2. ShownWritten'
  BY <1>1 DEF ShownWritten
<1>3. WrittenShown'
  BY <1>1 DEF WrittenShown
<1> QED
  BY <1>2, <1>3

(* A request that carries no presentation keeps WalletInv: what it commits   *)
(* it does not sign as the wallet.                                           *)
LEMMA ElsewhereKeeps ==
  ASSUME SafeInv, SafeInv', [Next]_vars, WalletInv, held \subseteq held',
         NEW r \in Requests, Elsewhere(r)
  PROVE  WalletInv'
<1>1. /\ answers[r] = Nil /\ answers' = answers /\ shown' = shown
      /\ \A q \in Requests \ {r} : calls'[q] = calls[q]
      /\ calls'[r] = Nil \/ calls'[r].pc # "update" \/ calls'[r].actor # "WALLET"
  BY DEF Elsewhere, presentationVars, SafeInv, TypeOK
<1>2. /\ answers \in [Requests -> Answer \cup {Nil}]
      /\ \A q \in Requests : Carries(q) /\ Signs(q)
      /\ ShownWritten /\ WrittenShown
  BY DEF WalletInv
<1>3. ASSUME NEW q \in Requests PROVE Carries(q)' /\ Signs(q)'
  <2>1. CASE q = r
    BY <1>1, <2>1 DEF Carries, Signs, OnItsWay
  <2>2. CASE q # r
    BY <1>1, <1>2, <2>2, OthersKeep
  <2> QED
    BY <2>1, <2>2
<1>4. ShownWritten'
  BY <1>1, <1>2, WalletEntries DEF ShownWritten
<1>5. ASSUME NEW id \in Ids, NEW k \in Nat, WalletEntry(id, k)'
      PROVE  \E p \in shown' : p.cred.deposit = id /\ p.place = k
  <2>1. WalletEntry(id, k)
    <3> SUFFICES ASSUME NEW q \in Requests, OnItsWay(q), calls[q].actor = "WALLET",
                        calls'[q] # Nil, calls'[q].pc # "update"
                 PROVE  FALSE
      BY <1>5, WalletEntries
    <3>1. answers[q] # Nil
      BY <1>2 DEF Signs
    <3>2. q # r /\ calls'[q] = calls[q]
      BY <1>1, <3>1
    <3> QED
      BY <3>2 DEF OnItsWay
  <2> QED
    BY <1>1, <1>2, <2>1 DEF WrittenShown
<1>6. WrittenShown'
  BY <1>5 DEF WrittenShown
<1> QED
  BY <1>1, <1>2, <1>3, <1>4, <1>6 DEF WalletInv

(* Present puts a request on its way that carries a presentation of a        *)
(* credential about the request's deposit.                                   *)
LEMMA PresentKeeps ==
  ASSUME SafeInv, HeldTyped, WalletInv, NEW r \in Requests, Present(r)
  PROVE  /\ WalletInv'
         /\ \E v \in VpSessions, h \in held, id \in KnownIds :
              /\ vpSessions[v] = "open" /\ h.deposit = id
              /\ deposits[id].state = "PLEDGED"
              /\ answers' = [answers EXCEPT ![r] = [vp |-> v, cred |-> h]]
<1>1. PICK v \in VpSessions, h \in held :
        /\ vpSessions[v] = "open" /\ ReceiveVpResponse(r)
        /\ h.deposit = calls'[r].id
        /\ answers' = [answers EXCEPT ![r] = [vp |-> v, cred |-> h]]
        /\ shown' = shown /\ UNCHANGED issuanceVars
  BY DEF Present, VerifyVpToken
<1>2. PICK id \in KnownIds :
        /\ deposits[id].state = "PLEDGED"
        /\ Submit(r, Request(id, "ReceiveVpResponse", "PLEDGED", "WALLET"))
  BY <1>1 DEF ReceiveVpResponse
<1>3. PICK c : c = Request(id, "ReceiveVpResponse", "PLEDGED", "WALLET")
  OBVIOUS
<1>4. /\ calls[r] = Nil /\ calls' = [calls EXCEPT ![r] = c]
      /\ deposits' = deposits /\ held' = held
  BY <1>1, <1>2, <1>3 DEF Submit, issuanceVars
<1>5. /\ c.pc = "update" /\ c.op = "ReceiveVpResponse" /\ c.id = id
      /\ c.actor = "WALLET"
  BY <1>3 DEF Request
<1>6. c \in Call /\ c # Nil
  <2>1. id \in Ids /\ deposits[id] # Nil
    BY DEF SafeInv, KnownIds
  <2>2. c \in Call
    BY <1>3, <2>1, RequestType
    DEF SafeInv, Operations, LifecycleStates, Actors
  <2> QED
    BY <2>2, LifecycleAssumption
<1>7. calls'[r] = c /\ \A q \in Requests \ {r} : calls'[q] = calls[q]
  BY <1>4 DEF SafeInv, TypeOK
<1>8. PICK a : a = [vp |-> v, cred |-> h]
  OBVIOUS
<1>9. a \in Answer /\ a # Nil /\ a.cred = h
  <2>1. h \in I!SignedCredential
    BY DEF HeldTyped
  <2>2. a \in Answer
    BY <1>8, <2>1 DEF Answer
  <2> QED
    BY <1>8, <2>2, PresentationAssumption
<1>10. /\ answers \in [Requests -> Answer \cup {Nil}]
       /\ \A q \in Requests : Carries(q) /\ Signs(q)
       /\ ShownWritten /\ WrittenShown
  BY DEF WalletInv
<1>11. /\ answers' \in [Requests -> Answer \cup {Nil}] /\ answers'[r] = a
       /\ \A q \in Requests \ {r} : answers'[q] = answers[q]
  BY <1>1, <1>8, <1>9, <1>10
<1>12. ASSUME NEW q \in Requests PROVE Carries(q)' /\ Signs(q)'
  <2>1. CASE q = r
    <3>1. h \in held' /\ h.deposit = id
      BY <1>1, <1>4, <1>5, <1>7
    <3>2. Carries(r)'
      BY <1>5, <1>6, <1>7, <1>9, <1>11, <3>1 DEF Carries
    <3>3. Signs(r)'
      BY <1>5, <1>7, <1>9, <1>11 DEF Signs
    <3> QED
      BY <2>1, <3>2, <3>3
  <2>2. CASE q # r
    BY <1>4, <1>7, <1>10, <1>11, <2>2, OthersKeep
  <2> QED
    BY <2>1, <2>2
<1>13. ShownWritten' /\ WrittenShown'
  BY <1>1, <1>4, <1>10, SameEntries
<1>14. WalletInv'
  BY <1>11, <1>12, <1>13 DEF WalletInv
<1> QED
  BY <1>1, <1>2, <1>5, <1>7, <1>14

(* What RecordPresentation commits and writes down. *)
LEMMA RecordFacts ==
  ASSUME SafeInv, SafeInv', WalletInv, NEW r \in Requests, RecordPresentation(r)
  PROVE  \E id \in Ids, p \in shown' :
           /\ answers[r] # Nil /\ OnItsWay(r) /\ calls[r].id = id
           /\ p.vp = answers[r].vp /\ p.cred = answers[r].cred
           /\ p.place = Len(deposits'[id].history) /\ p.place \in Nat
           /\ WalletEntry(id, p.place)'
           /\ shown' = shown \cup {p} /\ answers' = answers
           /\ vpSessions' = vpSessions /\ held' = held
           /\ calls'[r] # Nil /\ calls'[r].pc = "delete"
           /\ calls'[r].op = "ReceiveVpResponse" /\ calls'[r].id = id
           /\ \A q \in Requests \ {r} : calls'[q] = calls[q]
<1>1. PICK c \in Call, d \in Deposit : Commits(r, c, d)
  BY UpdateFacts DEF RecordPresentation
<1>2. PICK id \in Ids : id = c.id /\ d = deposits[id] /\ d # Nil
  BY <1>1 DEF Commits
<1>3. /\ c = calls[r] /\ c # Nil /\ c.pc = "update"
      /\ calls' = [calls EXCEPT ![r] = [c EXCEPT !.pc = AfterUpdate(c.op)]]
  BY <1>1 DEF Commits
<1>4. answers[r] # Nil /\ c.actor = "WALLET" /\ c.op = "ReceiveVpResponse"
  BY <1>3 DEF RecordPresentation, WalletInv, Carries, Signs, OnItsWay
<1>5. Grows(id, c, d)
  BY <1>1, <1>2, HistoryGrows
<1> DEFINE g == deposits'[id].history
           h == d.history
<1>6. /\ Len(h) \in Nat /\ Len(g) = Len(h) + 1
      /\ g[Len(h) + 1] = [state |-> c.to, actor |-> c.actor]
  BY <1>5 DEF Grows
<1>7. deposits'[id] # Nil
  <2>1. deposits' = [deposits EXCEPT ![id] = Written(c, d)]
    BY <1>1, <1>2 DEF Commits
  <2>2. Written(c, d) \in Deposit
    BY <1>1, WrittenFacts DEF Commits
  <2> QED
    BY <2>1, <2>2, LifecycleAssumption DEF SafeInv, TypeOK
<1>n. PICK n : n = Len(g)
  OBVIOUS
<1>8. WalletEntry(id, n)' /\ n \in Nat
  <2>1. g[n].actor = "WALLET" /\ n \in 1 .. Len(g)
    BY <1>4, <1>6, <1>n
  <2> QED
    BY <1>6, <1>7, <1>n, <2>1 DEF WalletEntry, History
<1>9. PICK p : p = [vp |-> answers[r].vp, cred |-> answers[r].cred,
                    place |-> Len(g)]
  OBVIOUS
<1>10. /\ shown' = shown \cup {p} /\ answers' = answers
       /\ vpSessions' = vpSessions /\ held' = held
  BY <1>2, <1>3, <1>9 DEF RecordPresentation, issuanceVars
<1>11. PICK x : x = [c EXCEPT !.pc = AfterUpdate(c.op)]
  OBVIOUS
<1>12. AfterUpdate(c.op) = "delete"
  BY <1>4 DEF AfterUpdate
<1>13. /\ x \in Call /\ x.pc = "delete" /\ x.op = "ReceiveVpResponse"
       /\ x.id = id
  BY <1>2, <1>4, <1>11, <1>12 DEF Call
<1>14. calls'[r] = x /\ \A q \in Requests \ {r} : calls'[q] = calls[q]
  BY <1>3, <1>11 DEF SafeInv, TypeOK
<1>15. x # Nil
  BY <1>13, LifecycleAssumption
<1>16. p.vp = answers[r].vp /\ p.cred = answers[r].cred /\ p.place = n
  BY <1>9, <1>n
<1>17. WalletEntry(id, p.place)'
  BY <1>8, <1>16
<1> HIDE DEF g, h
<1> QED
  BY <1>2, <1>3, <1>4, <1>8, <1>10, <1>13, <1>14, <1>15, <1>16, <1>17, <1>n
  DEF OnItsWay, g

(* RecordPresentation adds the entry and its record together. *)
LEMMA RecordKeeps ==
  ASSUME SafeInv, SafeInv', [Next]_vars, WalletInv,
         NEW r \in Requests, RecordPresentation(r)
  PROVE  WalletInv'
<1>1. PICK id \in Ids, p \in shown' :
        /\ answers[r] # Nil /\ OnItsWay(r) /\ calls[r].id = id
        /\ p.vp = answers[r].vp /\ p.cred = answers[r].cred
        /\ p.place = Len(deposits'[id].history) /\ p.place \in Nat
        /\ WalletEntry(id, p.place)'
        /\ shown' = shown \cup {p} /\ answers' = answers
        /\ vpSessions' = vpSessions /\ held' = held
        /\ calls'[r] # Nil /\ calls'[r].pc = "delete"
        /\ calls'[r].op = "ReceiveVpResponse" /\ calls'[r].id = id
        /\ \A q \in Requests \ {r} : calls'[q] = calls[q]
  BY RecordFacts
<1>2. /\ answers \in [Requests -> Answer \cup {Nil}]
      /\ \A q \in Requests : Carries(q) /\ Signs(q)
      /\ ShownWritten /\ WrittenShown
  BY DEF WalletInv
<1>3. answers[r].cred \in held /\ answers[r].cred.deposit = id
  BY <1>1, <1>2 DEF Carries
<1>4. ASSUME NEW q \in Requests PROVE Carries(q)' /\ Signs(q)'
  <2>1. CASE q = r
    BY <1>1, <1>3, <2>1 DEF Carries, Signs, OnItsWay
  <2>2. CASE q # r
    BY <1>1, <1>2, <2>2, OthersKeep
  <2> QED
    BY <2>1, <2>2
<1>5. ASSUME NEW s \in shown'
      PROVE  s.cred \in held' /\ WalletEntry(s.cred.deposit, s.place)'
  <2>1. CASE s = p
    BY <1>1, <1>3, <2>1
  <2>2. CASE s \in shown
    <3>1. s.cred \in held /\ WalletEntry(s.cred.deposit, s.place)
      BY <1>2, <2>2 DEF ShownWritten
    <3>2. PICK i, k : i = s.cred.deposit /\ k = s.place
      OBVIOUS
    <3>3. WalletEntry(i, k)'
      BY <3>1, <3>2, WalletEntries
    <3> QED
      BY <1>1, <3>1, <3>2, <3>3
  <2> QED
    BY <1>1, <1>5, <2>1, <2>2
<1>6. ASSUME NEW i \in Ids, NEW k \in Nat, WalletEntry(i, k)'
      PROVE  \E s \in shown' : s.cred.deposit = i /\ s.place = k
  <2>1. CASE WalletEntry(i, k)
    <3>1. PICK s \in shown : s.cred.deposit = i /\ s.place = k
      BY <1>2, <2>1 DEF WrittenShown
    <3>2. shown \subseteq shown'
      BY <1>1
    <3> QED
      BY <3>1, <3>2
  <2>2. CASE ~WalletEntry(i, k)
    <3>1. PICK q \in Requests :
            /\ OnItsWay(q) /\ calls[q].id = i
            /\ calls'[q].pc # "update" /\ k = Len(deposits'[i].history)
      BY <1>6, <2>2, WalletEntries
    <3>2. q = r
      BY <1>1, <3>1 DEF OnItsWay
    <3> QED
      BY <1>1, <1>3, <3>1, <3>2
  <2> QED
    BY <2>1, <2>2
<1>7. ShownWritten' /\ WrittenShown'
  BY <1>5, <1>6 DEF ShownWritten, WrittenShown
<1> QED
  BY <1>1, <1>2, <1>4, <1>7 DEF WalletInv

(* How a presentation ends: the request has no more to do with it. *)
LEMMA EndFacts ==
  ASSUME SafeInv, WalletInv, NEW r \in Requests,
         EndVpSession(r) \/ PresentationFails(r)
  PROVE  /\ answers[r] # Nil /\ answers'[r] = Nil
         /\ answers' \in [Requests -> Answer \cup {Nil}]
         /\ \A q \in Requests \ {r} :
              answers'[q] = answers[q] /\ calls'[q] = calls[q]
         /\ calls'[r] = Nil \/ calls'[r].pc = "notify"
         /\ deposits' = deposits /\ shown' = shown
<1>1. /\ answers[r] # Nil /\ calls[r] # Nil
      /\ answers' = [answers EXCEPT ![r] = Nil]
      /\ deposits' = deposits /\ shown' = shown
  BY DEF EndVpSession, PresentationFails, DeleteVpSession, Proceed, Interrupted,
         Fail
<1>2. CASE EndVpSession(r)
  <2>1. calls' = [calls EXCEPT ![r] = [calls[r] EXCEPT !.pc = "notify"]]
    BY <1>2 DEF EndVpSession, DeleteVpSession, Proceed
  <2>2. /\ calls'[r] = [calls[r] EXCEPT !.pc = "notify"]
        /\ \A q \in Requests \ {r} : calls'[q] = calls[q]
    BY <2>1 DEF SafeInv, TypeOK
  <2>3. calls'[r].pc = "notify"
    BY <1>1, <2>2 DEF SafeInv, TypeOK, Call
  <2> QED
    BY <1>1, <2>2, <2>3 DEF WalletInv
<1>3. CASE PresentationFails(r)
  <2>1. calls' = [calls EXCEPT ![r] = Nil]
    BY <1>3 DEF PresentationFails, Interrupted, Fail
  <2> QED
    BY <1>1, <2>1 DEF SafeInv, TypeOK, WalletInv
<1> QED
  BY <1>2, <1>3

(* Every step keeps WalletInv. *)
LEMMA WalletStep ==
  ASSUME SafeInv, SafeInv', HeldTyped, WalletInv,
         [PresentationsNext]_everything
  PROVE  WalletInv'
<1>0. /\ answers \in [Requests -> Answer \cup {Nil}]
      /\ \A r \in Requests : Carries(r) /\ Signs(r)
      /\ ShownWritten /\ WrittenShown
  BY DEF WalletInv
<1>1. held \subseteq held'
  BY HeldStays
<1>2. CASE Restart
  <2>1. /\ \A r \in Requests : calls'[r] = Nil /\ answers'[r] = Nil
        /\ answers' \in [Requests -> Answer \cup {Nil}]
        /\ deposits' = deposits /\ shown' = shown
    BY <1>2 DEF Restart
  <2>2. ASSUME NEW r \in Requests PROVE Carries(r)' /\ Signs(r)'
    BY <2>1 DEF Carries, Signs, OnItsWay
  <2> QED
    BY <1>0, <1>1, <2>1, <2>2, SameEntries DEF WalletInv
<1>3. ASSUME ~Restart PROVE [Next]_vars
  BY <1>3, PresentationSteps, DepositSteps
<1>4. CASE UNCHANGED <<deposits, calls, answers, shown, doubtful>>
  <2>1. ASSUME NEW r \in Requests PROVE Carries(r)' /\ Signs(r)'
    BY <1>0, <1>1, <1>4, OthersKeep
  <2> QED
    BY <1>0, <1>1, <1>4, <2>1, SameEntries DEF WalletInv
<1>5. ASSUME NEW r \in Requests, Elsewhere(r), ~Restart PROVE WalletInv'
  BY <1>1, <1>3, <1>5, ElsewhereKeeps
<1>6. ASSUME NEW r \in Requests, Present(r) PROVE WalletInv'
  BY <1>6, PresentKeeps
<1>7. ASSUME NEW r \in Requests, RecordPresentation(r), ~Restart PROVE WalletInv'
  BY <1>3, <1>7, RecordKeeps
<1>8. ASSUME NEW r \in Requests, EndVpSession(r) \/ PresentationFails(r)
      PROVE  WalletInv'
  <2>1. /\ answers'[r] = Nil /\ answers' \in [Requests -> Answer \cup {Nil}]
        /\ \A q \in Requests \ {r} :
             answers'[q] = answers[q] /\ calls'[q] = calls[q]
        /\ calls'[r] = Nil \/ calls'[r].pc = "notify"
        /\ deposits' = deposits /\ shown' = shown
    BY <1>8, EndFacts
  <2>2. ASSUME NEW q \in Requests PROVE Carries(q)' /\ Signs(q)'
    <3>1. CASE q = r
      BY <2>1, <3>1 DEF Carries, Signs, OnItsWay
    <3>2. CASE q # r
      BY <1>0, <1>1, <2>1, <3>2, OthersKeep
    <3> QED
      BY <3>1, <3>2
  <2> QED
    BY <1>0, <1>1, <2>1, <2>2, SameEntries DEF WalletInv
<1> QED
  BY <1>2, <1>4, <1>5, <1>6, <1>7, <1>8, PresentationKinds

-----------------------------------------------------------------------------
(* VP sessions *)

(* Every step keeps UseInv. *)
LEMMA UseStep ==
  ASSUME SafeInv, SafeInv', HeldTyped, WalletInv, UseInv,
         [PresentationsNext]_everything
  PROVE  UseInv'
<1>0. /\ answers \in [Requests -> Answer \cup {Nil}]
      /\ \A r \in Requests : answers[r] # Nil => answers[r].vp \in VpSessions
  BY DEF WalletInv, Answer
<1>a. /\ vpSessions \in [VpSessions -> VpSessionState]
      /\ OneAnswerEach
      /\ \A r \in Requests : answers[r] # Nil =>
           vpSessions[answers[r].vp] \in {"open", "expired"}
           \/ answers[r].vp \in doubtful
      /\ \A p \in shown : p.vp \in VpSessions /\ (Spent(p.vp) \/ p.vp \in doubtful)
      /\ VpSessionSingleUse
  BY DEF UseInv
<1>1. CASE Restart
  <2>1. /\ vpSessions' = [v \in VpSessions |->
             IF vpSessions[v] = "unused" THEN "unused" ELSE "deleted"]
        /\ \A r \in Requests : answers'[r] = Nil
        /\ shown' = shown /\ doubtful' = doubtful
    BY <1>1 DEF Restart
  <2>2. \A p \in shown : p.vp \in VpSessions
          /\ (vpSessions[p.vp] # "unused" \/ p.vp \in doubtful)
    BY <1>a DEF Spent
  <2>3. vpSessions' \in [VpSessions -> VpSessionState]
    BY <2>1 DEF VpSessionState
  <2>4. OneAnswerEach' /\ VpSessionSingleUse'
    BY <1>a, <2>1 DEF OneAnswerEach, VpSessionSingleUse
  <2>5. ASSUME NEW p \in shown PROVE vpSessions'[p.vp] = "deleted" \/ p.vp \in doubtful
    BY <2>1, <2>2
  <2> QED
    BY <2>1, <2>2, <2>3, <2>4, <2>5 DEF UseInv, Spent
<1>2. ASSUME NEW v \in VpSessions, CreateVpRequest(v) \/ ExpireVpSession(v)
      PROVE  UseInv'
  <2>1. PICK x \in {"open", "expired"} :
          /\ vpSessions' = [vpSessions EXCEPT ![v] = x]
          /\ vpSessions[v] = "unused" \/ vpSessions[v] = "open"
          /\ answers' = answers /\ shown' = shown /\ calls' = calls
          /\ doubtful' = doubtful
    BY <1>2 DEF CreateVpRequest, ExpireVpSession, allVars
  <2>2. vpSessions' \in [VpSessions -> VpSessionState]
    BY <1>a, <2>1 DEF VpSessionState
  <2>3. \A u \in VpSessions :
          /\ vpSessions[u] \in {"open", "expired"} =>
               vpSessions'[u] \in {"open", "expired"}
          /\ vpSessions[u] = "deleted" => vpSessions'[u] = "deleted"
    BY <1>a, <2>1
  <2>4. OneAnswerEach' /\ VpSessionSingleUse'
    BY <1>a, <2>1 DEF OneAnswerEach, VpSessionSingleUse
  <2>5. \A u \in VpSessions : Spent(u) => Spent(u)'
    BY <2>1, <2>3 DEF Spent
  <2> QED
    BY <1>0, <1>a, <2>1, <2>2, <2>3, <2>4, <2>5 DEF UseInv
<1>3. ASSUME UNCHANGED <<calls, answers, shown, doubtful, vpSessions>> PROVE UseInv'
  BY <1>3 DEF UseInv, OneAnswerEach, Spent, VpSessionSingleUse
<1>4. ASSUME NEW r \in Requests, Elsewhere(r) PROVE UseInv'
  <2>1. /\ answers[r] = Nil /\ answers' = answers /\ shown' = shown
        /\ vpSessions' = vpSessions /\ doubtful' = doubtful
        /\ \A q \in Requests \ {r} : calls'[q] = calls[q]
    BY <1>4 DEF Elsewhere, presentationVars, SafeInv, TypeOK
  <2>2. \A u : Spent(u) => Spent(u)'
    BY <2>1 DEF Spent
  <2> QED
    BY <1>a, <2>1, <2>2 DEF UseInv, OneAnswerEach, VpSessionSingleUse
<1>5. ASSUME NEW r \in Requests, Present(r) PROVE UseInv'
  <2>1. PICK v \in VpSessions, h \in held :
          /\ vpSessions[v] = "open"
          /\ answers' = [answers EXCEPT ![r] = [vp |-> v, cred |-> h]]
          /\ doubtful' = IF v \in Answered THEN doubtful \cup {v} ELSE doubtful
    BY <1>5 DEF Present
  <2>2. /\ vpSessions' = vpSessions /\ shown' = shown
        /\ calls[r] = Nil /\ \A q \in Requests \ {r} : calls'[q] = calls[q]
    BY <1>5 DEF Present, ReceiveVpResponse, Submit, SafeInv, TypeOK
  <2>3. /\ answers'[r].vp = v
        /\ \A q \in Requests \ {r} : answers'[q] = answers[q]
    BY <1>0, <2>1
  <2>4. answers[r] = Nil
    BY <2>2 DEF WalletInv, Carries
  <2>5. doubtful \subseteq doubtful'
    BY <2>1
  <2>6. \A q \in Requests : answers'[q] # Nil =>
          vpSessions'[answers'[q].vp] \in {"open", "expired"}
          \/ answers'[q].vp \in doubtful'
    BY <1>a, <2>1, <2>2, <2>3, <2>5
  <2>7. ASSUME NEW q \in Requests \ {r}, answers[q] # Nil, answers[q].vp = v
        PROVE  v \in doubtful'
    BY <2>1, <2>7 DEF Answered
  <2>8. OneAnswerEach'
    BY <1>a, <2>3, <2>5, <2>7 DEF OneAnswerEach
  <2>9. \A u : Spent(u) => Spent(u)'
    BY <2>2, <2>3, <2>4 DEF Spent
  <2>10. VpSessionSingleUse'
    BY <1>a, <2>2, <2>5 DEF VpSessionSingleUse
  <2> QED
    BY <1>a, <2>2, <2>5, <2>6, <2>8, <2>9, <2>10 DEF UseInv
<1>6. ASSUME NEW r \in Requests, RecordPresentation(r) PROVE UseInv'
  <2>1. PICK p :
          /\ answers[r] # Nil /\ OnItsWay(r) /\ p.vp = answers[r].vp
          /\ shown' = shown \cup {p} /\ answers' = answers
          /\ vpSessions' = vpSessions
          /\ calls'[r].pc = "delete"
          /\ \A q \in Requests \ {r} : calls'[q] = calls[q]
    BY <1>6, RecordFacts
  <2>d. doubtful' = doubtful
    BY <1>6 DEF RecordPresentation
  <2>2. ASSUME NEW s \in shown, s.vp = p.vp PROVE s.vp \in doubtful
    <3> SUFFICES ASSUME s.vp \notin doubtful PROVE FALSE
      OBVIOUS
    <3>1. vpSessions[s.vp] # "deleted"
      BY <1>a, <2>1, <2>2
    <3>2. PICK q \in Requests :
            answers[q] # Nil /\ answers[q].vp = s.vp /\ calls[q].pc = "delete"
      BY <1>a, <2>2, <3>1 DEF Spent
    <3>3. q = r
      BY <1>a, <2>1, <2>2, <3>2 DEF OneAnswerEach
    <3> QED
      BY <2>1, <3>2, <3>3 DEF OnItsWay
  <2>3. VpSessionSingleUse'
    BY <1>a, <2>1, <2>2, <2>d DEF VpSessionSingleUse
  <2>4. ASSUME NEW s \in shown'
        PROVE  s.vp \in VpSessions /\ (Spent(s.vp)' \/ s.vp \in doubtful)
    <3>1. CASE s = p
      BY <1>0, <2>1, <3>1 DEF Spent
    <3>2. CASE s \in shown
      <4>1. PICK u : u = s.vp
        OBVIOUS
      <4>2. Spent(u) => Spent(u)'
        BY <2>1 DEF Spent
      <4> QED
        BY <1>a, <3>2, <4>1, <4>2 DEF Spent
    <3> QED
      BY <2>1, <2>4, <3>1, <3>2
  <2>5. OneAnswerEach'
    BY <1>a, <2>1, <2>d DEF OneAnswerEach
  <2> QED
    BY <1>a, <2>1, <2>d, <2>3, <2>4, <2>5 DEF UseInv
<1>7. ASSUME NEW r \in Requests, EndVpSession(r) \/ PresentationFails(r)
      PROVE  UseInv'
  <2>1. /\ answers[r] # Nil /\ answers'[r] = Nil
        /\ \A q \in Requests \ {r} :
             answers'[q] = answers[q] /\ calls'[q] = calls[q]
        /\ shown' = shown
    BY <1>7, EndFacts
  <2>2. doubtful \subseteq doubtful'
    BY <1>7 DEF EndVpSession, PresentationFails
  <2>3. OneAnswerEach' /\ VpSessionSingleUse'
    BY <1>a, <2>1, <2>2 DEF OneAnswerEach, VpSessionSingleUse
  <2>4. CASE EndVpSession(r)
    <3>1. /\ vpSessions' = [vpSessions EXCEPT ![answers[r].vp] = "deleted"]
          /\ doubtful' = doubtful
      BY <2>4 DEF EndVpSession
    <3>2. vpSessions' \in [VpSessions -> VpSessionState]
      BY <1>a, <3>1 DEF VpSessionState
    <3>3. \A v \in VpSessions :
            vpSessions'[v] = IF v = answers[r].vp THEN "deleted" ELSE vpSessions[v]
      BY <1>a, <3>1
    <3>4. ASSUME NEW q \in Requests, answers'[q] # Nil
          PROVE  vpSessions'[answers'[q].vp] \in {"open", "expired"}
                 \/ answers'[q].vp \in doubtful'
      <4>1. q # r /\ answers[q] # Nil /\ answers'[q] = answers[q]
        BY <2>1, <3>4
      <4>2. answers[q].vp # answers[r].vp \/ answers[q].vp \in doubtful
        BY <1>a, <2>1, <4>1 DEF OneAnswerEach
      <4>3. /\ answers[q].vp \in VpSessions
            /\ vpSessions[answers[q].vp] \in {"open", "expired"}
               \/ answers[q].vp \in doubtful
        BY <1>0, <1>a, <4>1
      <4> QED
        BY <3>1, <3>3, <4>1, <4>2, <4>3
    <3>5. ASSUME NEW u \in VpSessions, Spent(u) PROVE Spent(u)'
      BY <2>1, <3>3, <3>5 DEF Spent
    <3> QED
      BY <1>a, <2>1, <2>2, <2>3, <3>2, <3>4, <3>5 DEF UseInv
  <2>5. CASE PresentationFails(r)
    <3>1. /\ vpSessions' = vpSessions
          /\ calls[r].pc = "delete" => answers[r].vp \in doubtful'
      BY <2>5 DEF PresentationFails
    <3>2. ASSUME NEW u, Spent(u) PROVE Spent(u)' \/ u \in doubtful'
      BY <2>1, <3>1, <3>2 DEF Spent
    <3> QED
      BY <1>a, <2>1, <2>2, <2>3, <3>1, <3>2 DEF UseInv
  <2> QED
    BY <1>7, <2>4, <2>5
<1> QED
  BY <1>1, <1>2, <1>3, <1>4, <1>5, <1>6, <1>7, PresentationKinds

-----------------------------------------------------------------------------
(* Issuance in the composition *)

(* What is proved of issuance on its own.  The status list is left out of    *)
(* it: no list is made, and the size of a byte does not matter.              *)
Issuance == INSTANCE IssuanceProofs WITH Deposits <- Ids, ByteSize <- 1, list <- Nil

(* The composition takes the steps of issuance alone. *)
LEMMA SameIssuance ==
  /\ I!Init => Issuance!Init
  /\ \A w \in Workers, d \in Ids :
       I!IssueCredential(w, d) => Issuance!IssueCredential(w, d)
  /\ \A w \in Workers : I!CreateSession(w) => Issuance!CreateSession(w)
  /\ \A w \in Workers : I!Credential(w) => Issuance!Credential(w)
  /\ \A w \in Workers : I!ConsumeByToken(w) => Issuance!ConsumeByToken(w)
  /\ \A w \in Workers : I!Respond(w) => Issuance!Respond(w)
  /\ \A w \in Workers : I!Fail(w) => Issuance!Fail(w)
  /\ \A s \in Sessions : I!Token(s) => Issuance!Token(s)
  /\ \A s \in Sessions : I!Expire(s) => Issuance!Expire(s)
  /\ \A d \in Ids : I!RevokeByDepositID(d) => Issuance!RevokeByDepositID(d)
<1> USE DEF I!Exists, Issuance!Exists
<1>1. I!Init => Issuance!Init
  BY DEF I!Init, Issuance!Init
<1>2. ASSUME NEW w \in Workers, NEW d \in Ids
      PROVE  I!IssueCredential(w, d) => Issuance!IssueCredential(w, d)
  BY DEF I!IssueCredential, Issuance!IssueCredential
<1>3. ASSUME NEW w \in Workers
      PROVE  /\ I!CreateSession(w) => Issuance!CreateSession(w)
             /\ I!Respond(w) => Issuance!Respond(w)
             /\ I!Fail(w) => Issuance!Fail(w)
  BY DEF I!CreateSession, Issuance!CreateSession, I!Respond, Issuance!Respond,
         I!Fail, Issuance!Fail
<1>4. ASSUME NEW w \in Workers PROVE I!Credential(w) => Issuance!Credential(w)
  <2>1. I!FreshCreds = Issuance!FreshCreds
    BY DEF I!FreshCreds, Issuance!FreshCreds
  <2> QED
    BY <2>1 DEF I!Credential, Issuance!Credential
<1>5. ASSUME NEW t PROVE I!SessionsOf(t) = Issuance!SessionsOf(t)
  BY DEF I!SessionsOf, Issuance!SessionsOf
<1>6. ASSUME NEW s PROVE I!Usable(s) <=> Issuance!Usable(s)
  BY DEF I!Usable, Issuance!Usable
<1>7. ASSUME NEW w \in Workers
      PROVE  I!ConsumeByToken(w) => Issuance!ConsumeByToken(w)
  <2>1. \A s : I!Consume(w, s) => Issuance!Consume(w, s)
    BY <1>6 DEF I!Consume, Issuance!Consume
  <2>2. I!Refuse(w) => Issuance!Refuse(w)
    BY <1>5, <1>6 DEF I!Refuse, Issuance!Refuse
  <2> QED
    BY <1>5, <2>1, <2>2 DEF I!ConsumeByToken, Issuance!ConsumeByToken
<1>8. ASSUME NEW s \in Sessions PROVE I!Token(s) => Issuance!Token(s)
  <2>1. I!FreshTokens = Issuance!FreshTokens
    BY <1>5 DEF I!FreshTokens, Issuance!FreshTokens
  <2>2. \A x, t : I!WithToken(x, t) = Issuance!WithToken(x, t)
    BY DEF I!WithToken, Issuance!WithToken
  <2> QED
    BY <1>6, <2>1, <2>2 DEF I!Token, Issuance!Token
<1>9. ASSUME NEW s \in Sessions PROVE I!Expire(s) => Issuance!Expire(s)
  BY DEF I!Expire, Issuance!Expire
<1>10. ASSUME NEW d \in Ids
       PROVE  I!RevokeByDepositID(d) => Issuance!RevokeByDepositID(d)
  BY DEF I!RevokeByDepositID, Issuance!RevokeByDepositID
<1> QED
  BY <1>1, <1>2, <1>3, <1>4, <1>7, <1>8, <1>9, <1>10

(* A step of the composition is a step of issuance, or of none. *)
LEMMA IssuanceSteps ==
  ASSUME SafeInv, [SystemNext]_allVars
  PROVE  [Issuance!Next]_(Issuance!vars)
<1> USE DEF Issuance!Next, Issuance!Work
<1>1. CASE UNCHANGED issuanceVars
  BY <1>1 DEF issuanceVars, Issuance!vars
<1>2. ASSUME NEW r \in Requests, Revoke(r) PROVE Issuance!Next
  <2>1. PICK d \in Ids : d = calls[r].id /\ I!RevokeByDepositID(d)
    BY <1>2 DEF Revoke, RevokeCredentials, Proceed, SafeInv, TypeOK, Call
  <2> QED
    BY <2>1, SameIssuance
<1>3. ASSUME NEW w \in Workers, NEW d \in Ids, Offer(w, d) PROVE Issuance!Next
  <2>1. Issuance!IssueCredential(w, d)
    BY <1>3, SameIssuance DEF Offer
  <2> QED
    BY <2>1
<1>4. CASE IssuanceStep \/ \E w \in Workers : IssuanceFails(w)
  BY <1>4, SameIssuance DEF IssuanceStep, IssuanceFails
<1>5. ASSUME NEW r \in Requests,
             DepositStep(r) \/ RevokeFails(r) \/ Interrupted(r)
      PROVE  UNCHANGED issuanceVars
  BY <1>5 DEF DepositStep, RevokeFails, Interrupted
<1>6. CASE UNCHANGED allVars
  BY <1>1, <1>6 DEF allVars, issuanceVars
<1> QED
  BY <1>1, <1>2, <1>3, <1>4, <1>5, <1>6 DEF SystemNext, SmoothNext, Failure

(* The assumptions of the issuance modules, under their names. *)
LEMMA IssuanceAssumed ==
  /\ Store \in {"postgres", "memory"} /\ ListSize \in Nat /\ MaxIndex \in Nat
  /\ Nil \notin Issuance!Session /\ Nil \notin Issuance!Call
  /\ Nil \notin Tokens /\ Nil \notin Creds
  /\ Nil \notin Issuance!PublicEntry
  /\ 1 \in Nat \ {0} /\ ListSize % 1 = 0
BY CredentialAssumption
DEF I!Session, I!SessionState, I!Call, Issuance!Session, Issuance!SessionState,
    Issuance!Call, Issuance!PublicEntry

(* A restart drops the requests of issuance; what they had signed is in no   *)
(* wallet and on no record, or on record already.                            *)
LEMMA RestartIssuance ==
  ASSUME Issuance!IInv, Restart
  PROVE  Issuance!IInv'
<1>1. /\ inFlight' = [w \in Workers |-> Nil]
      /\ sessions' = sessions /\ nextIndex' = nextIndex /\ held' = held
  BY DEF Restart
<1>2. \A w \in Workers : inFlight'[w] = Nil
  BY <1>1
<1> QED
  BY <1>1, <1>2
  DEF Issuance!IInv, Issuance!TypeOK, Issuance!IndicesBelowCounter,
      Issuance!IndicesUnique, Issuance!Claimed, Issuance!CredMatchesState,
      Issuance!CredsUnique, Issuance!SignedIsPrivate, Issuance!Signed,
      Issuance!TokensUnique, Issuance!SignedForSession, Issuance!SessionsOf,
      Issuance!ResponseIsRecorded, Issuance!HeldIsRecorded, Issuance!Exists

(* Restarts included, issuance keeps what is proved of it alone. *)
LEMMA IssuanceSafe == PresentationsSpec => [](Issuance!IInv /\ HeldTyped)
<1>1. PresentationsInit => Issuance!IInv
  <2>1. Issuance!Init => Issuance!IInv
    BY IssuanceAssumed, Issuance!InitInv
  <2> QED
    BY <2>1, SameIssuance DEF PresentationsInit, SystemInit
<1>2. SafeInv /\ Issuance!IInv /\ [PresentationsNext]_everything => Issuance!IInv'
  <2>1. Issuance!IInv /\ [Issuance!Next]_(Issuance!vars) => Issuance!IInv'
    BY IssuanceAssumed, Issuance!StepInv
  <2> QED
    BY <2>1, PresentationSteps, IssuanceSteps, RestartIssuance
<1>3. Issuance!IInv => HeldTyped
  BY DEF HeldTyped, Issuance!IInv, Issuance!TypeOK, Issuance!SignedCredential,
         I!SignedCredential
<1> QED
  BY <1>1, <1>2, <1>3, PresentationsSafe, PTL DEF PresentationsSpec

-----------------------------------------------------------------------------
(* The theorems *)

(* WalletInv holds in every reachable state. *)
LEMMA WalletInvariant == PresentationsSpec => []WalletInv
<1>1. PresentationsInit => WalletInv
  BY DEF PresentationsInit, SystemInit, Init, WalletInv, Carries, Signs, OnItsWay,
         ShownWritten, WrittenShown, WalletEntry
<1>2. SafeInv /\ SafeInv' /\ HeldTyped /\ WalletInv
        /\ [PresentationsNext]_everything => WalletInv'
  BY WalletStep
<1> QED
  BY <1>1, <1>2, PresentationsSafe, IssuanceSafe, PTL DEF PresentationsSpec

(***************************************************************************)
(* However requests overlap, whatever fails and whenever the server        *)
(* restarts: the wallet's entries in the histories are those of the        *)
(* presentations ReceiveVpResponse accepted, each of a credential that was *)
(* issued for this deposit and is on record.                               *)
(***************************************************************************)
THEOREM WalletEntriesAreBacked == PresentationsSpec => []WalletEntriesBacked
<1>1. SafeInv /\ Issuance!IInv /\ WalletInv => WalletEntriesBacked
  <2> SUFFICES ASSUME SafeInv, Issuance!IInv, WalletInv PROVE WalletEntriesBacked
    OBVIOUS
  <2>1. ASSUME NEW id \in KnownIds, NEW k \in 1 .. Len(History(id)),
               History(id)[k].actor = "WALLET"
        PROVE  \E p \in shown : p.cred.deposit = id /\ p.place = k
    <3>1. id \in Ids /\ deposits[id] # Nil
      BY <2>1 DEF SafeInv, KnownIds
    <3>2. WalletEntry(id, k)
      BY <2>1, <3>1 DEF WalletEntry
    <3>3. k \in Nat
      <4>1. Len(deposits[id].history) \in Nat
        BY <3>1, LenProperties DEF SafeInv, TypeOK, Deposit
      <4> QED
        BY <2>1, <4>1 DEF History
    <3> QED
      BY <3>1, <3>2, <3>3 DEF WalletInv, WrittenShown
  <2>2. ASSUME NEW p \in shown
        PROVE  /\ History(p.cred.deposit)[p.place].actor = "WALLET"
               /\ \E s \in Sessions : I!Exists(s) /\ sessions[s].cred = p.cred.id
                                      /\ sessions[s].deposit = p.cred.deposit
    <3>1. p.cred \in held /\ WalletEntry(p.cred.deposit, p.place)
      BY <2>2 DEF WalletInv, ShownWritten
    <3> QED
      BY <3>1 DEF WalletEntry, Issuance!IInv, Issuance!HeldIsRecorded,
                  Issuance!Exists, I!Exists
  <2> QED
    BY <2>1, <2>2 DEF WalletEntriesBacked
<1> QED
  BY <1>1, PresentationsSafe, IssuanceSafe, WalletInvariant, PTL

(***************************************************************************)
(* "Session is single-use" (verifier_handlers.go): however requests        *)
(* overlap, whatever fails and whenever the server restarts, a VP session  *)
(* is used for two recorded presentations only if two requests answered it *)
(* at the same time, or an answer was recorded and reported as failed.     *)
(***************************************************************************)
THEOREM VpSessionsSingleUse == PresentationsSpec => []VpSessionSingleUse
<1>1. PresentationsInit => UseInv
  BY DEF PresentationsInit, UseInv, OneAnswerEach, VpSessionState,
         VpSessionSingleUse
<1>2. SafeInv /\ SafeInv' /\ HeldTyped /\ WalletInv /\ UseInv
        /\ [PresentationsNext]_everything => UseInv'
  BY UseStep
<1>3. UseInv => VpSessionSingleUse
  BY DEF UseInv
<1> QED
  BY <1>1, <1>2, <1>3, PresentationsSafe, IssuanceSafe, WalletInvariant, PTL
  DEF PresentationsSpec

-----------------------------------------------------------------------------
(* What is presented is in force *)

(* A credential is revoked only after its deposit was released or closed; if *)
(* that deposit is PLEDGED, it was written back.                             *)
LEMMA PledgedIsActive ==
  ASSUME SafeInv, CredInv, Issuance!IInv,
         NEW h \in held, NEW id \in KnownIds, h.deposit = id,
         deposits[id].state = "PLEDGED"
  PROVE  I!CredentialStatus(h.id) = "active" \/ WrittenBack(id)
<1>1. PICK s \in Sessions :
        /\ I!Exists(s) /\ sessions[s].cred = h.id /\ sessions[s].deposit = id
  BY DEF Issuance!IInv, Issuance!HeldIsRecorded, Issuance!Exists, I!Exists
<1>2. h.id # Nil
  BY CredentialAssumption
  DEF Issuance!IInv, Issuance!TypeOK, Issuance!SignedCredential
<1>3. \A z \in Sessions : I!Exists(z) /\ sessions[z].cred = h.id => z = s
  BY <1>1, <1>2 DEF Issuance!IInv, Issuance!CredsUnique, Issuance!Exists, I!Exists
<1>4. CASE sessions[s].state = "REVOKED"
  <2>1. PICK j \in 1 .. Len(History(id)) :
          History(id)[j].state \in {"RELEASED", "CLOSED"}
    BY <1>1, <1>4 DEF CredInv, RevokedOnlyWhenOver, Revoked, HasBeen
  <2>2. /\ History(id) # << >> /\ History(id) \in Seq(HistoryEntry)
        /\ History(id)[Len(History(id))].state = "PLEDGED"
    BY DEF SafeInv, KnownIds, AuditMatchesHistory, TypeOK, Deposit, History
  <2>3. PICK k : k = Len(History(id)) /\ k \in Nat
    BY <2>2, LenProperties
  <2>4. j < k
    <3>1. j # k
      BY <2>1, <2>2, <2>3
    <3> QED
      BY <2>1, <2>3, <3>1
  <2>5. k \in 1 .. Len(History(id))
    BY <2>1, <2>3
  <2>6. History(id)[k].state \notin {"RELEASED", "CLOSED"}
    BY <2>2, <2>3
  <2> QED
    BY <2>1, <2>4, <2>5, <2>6 DEF WrittenBack
<1>5. CASE sessions[s].state # "REVOKED"
  BY <1>1, <1>3, <1>5 DEF I!CredentialStatus
<1> QED
  BY <1>4, <1>5

(* What ReceiveVpResponse accepts. *)
LEMMA AcceptedStep ==
  ASSUME SafeInv, CredInv, Issuance!IInv, HeldTyped, WalletInv,
         [PresentationsNext]_everything,
         NEW r \in Requests, answers[r] = Nil, answers'[r] # Nil
  PROVE  \E id \in KnownIds :
           /\ answers'[r].cred \in held /\ answers'[r].cred.deposit = id
           /\ deposits[id].state = "PLEDGED"
<1>1. ~Restart
  BY DEF Restart
<1>2. ASSUME NEW q \in Requests,
             \/ Elsewhere(q) \/ RecordPresentation(q)
             \/ EndVpSession(q) \/ PresentationFails(q)
      PROVE  FALSE
  <2>1. CASE Elsewhere(q)
    BY <2>1 DEF Elsewhere, presentationVars
  <2>2. CASE RecordPresentation(q)
    BY <2>2 DEF RecordPresentation
  <2>3. CASE EndVpSession(q) \/ PresentationFails(q)
    BY <2>3, EndFacts
  <2> QED
    BY <1>2, <2>1, <2>2, <2>3
<1>3. PICK q \in Requests : Present(q)
  BY <1>1, <1>2, PresentationKinds
<1>4. PICK v \in VpSessions, h \in held, id \in KnownIds :
        /\ h.deposit = id /\ deposits[id].state = "PLEDGED"
        /\ answers' = [answers EXCEPT ![q] = [vp |-> v, cred |-> h]]
  BY <1>3, PresentKeeps
<1>a. DOMAIN answers = Requests
  BY DEF WalletInv
<1>5. q = r
  <2>1. SUFFICES ASSUME q # r PROVE FALSE
    OBVIOUS
  <2>2. answers'[r] = answers[r]
    BY <1>4, <1>a, <2>1
  <2> QED
    BY <2>2
<1>6. answers'[r].cred = h
  BY <1>4, <1>5, <1>a
<1> QED
  BY <1>4, <1>6

(***************************************************************************)
(* ReceiveVpResponse never asks whether the credential is revoked.  Its    *)
(* check that the deposit is PLEDGED is enough, however requests overlap,  *)
(* unless one of them took a deposit back after its end.                   *)
(***************************************************************************)
THEOREM PresentedIsInForce == PresentationsSpec => PresentedIsActive
<1>1. ASSUME SafeInv, CredInv, Issuance!IInv, HeldTyped, WalletInv,
             [PresentationsNext]_everything,
             NEW r \in Requests, answers[r] = Nil, answers'[r] # Nil
      PROVE  LET h == answers'[r].cred IN
               I!CredentialStatus(h.id) = "active" \/ WrittenBack(h.deposit)
  BY <1>1, AcceptedStep, PledgedIsActive
<1>2. SafeInv /\ CredInv /\ Issuance!IInv /\ HeldTyped /\ WalletInv
        /\ [PresentationsNext]_everything =>
        [\A r \in Requests : answers[r] = Nil /\ answers'[r] # Nil =>
           LET h == answers'[r].cred IN
             I!CredentialStatus(h.id) = "active"
             \/ WrittenBack(h.deposit)]_everything
  BY <1>1
<1> QED
  BY <1>2, PresentationsSafe, IssuanceSafe, WalletInvariant, PTL
  DEF PresentationsSpec, PresentedIsActive

(***************************************************************************)
(* As long as no two requests on their way to UpdateState are about the    *)
(* same deposit, no deposit is taken back: ReceiveVpResponse accepts only  *)
(* credentials in force.                                                   *)
(***************************************************************************)
THEOREM PresentedOneAtATime ==
  PresentationsSpec /\ []OneAtATime =>
    [][\A r \in Requests : answers[r] = Nil /\ answers'[r] # Nil =>
         I!CredentialStatus(answers'[r].cred.id) = "active"]_everything
<1>1. PresentationsInit => SerialInv
  BY DEF PresentationsInit, SystemInit, Init, SerialInv, OnItsWay
<1>2. SafeInv /\ SafeInv' /\ CredInv /\ SerialInv /\ OneAtATime
        /\ [PresentationsNext]_everything => SerialInv'
  BY PresentationSteps, RestartKeeps, DepositSteps, SerialStep
<1>3. ASSUME SafeInv, SerialInv, NEW id \in KnownIds,
             deposits[id].state = "PLEDGED"
      PROVE  ~WrittenBack(id)
  <2> DEFINE states == {"RELEASED", "CLOSED"}
  <2>1. id \in Ids /\ deposits[id] # Nil /\ RowSound(deposits[id])
    BY <1>3 DEF SafeInv, KnownIds, SerialInv
  <2>2. states \in SUBSET LifecycleStates /\ NoWayOut(states)
    BY DEF LifecycleStates, NoWayOut, CanTransition, validTransitions
  <2>3. "PLEDGED" \notin states
    OBVIOUS
  <2>4. WrittenBack(id) =>
          \E j \in 1 .. Len(History(id)) : History(id)[j].state \in states
    BY DEF WrittenBack
  <2> HIDE DEF states
  <2>5. WrittenBack(id) => deposits[id].state \in states
    BY <2>1, <2>2, <2>4 DEF RowSound, History
  <2> QED
    BY <1>3, <2>3, <2>5
<1>4. ASSUME SafeInv, CredInv, Issuance!IInv, HeldTyped, WalletInv, SerialInv,
             [PresentationsNext]_everything,
             NEW r \in Requests, answers[r] = Nil, answers'[r] # Nil
      PROVE  I!CredentialStatus(answers'[r].cred.id) = "active"
  BY <1>3, <1>4, AcceptedStep, PledgedIsActive
<1>5. SafeInv /\ CredInv /\ Issuance!IInv /\ HeldTyped /\ WalletInv /\ SerialInv
        /\ [PresentationsNext]_everything =>
        [\A r \in Requests : answers[r] = Nil /\ answers'[r] # Nil =>
           I!CredentialStatus(answers'[r].cred.id) = "active"]_everything
  BY <1>4
<1> QED
  BY <1>1, <1>2, <1>5, PresentationsSafe, IssuanceSafe, WalletInvariant, PTL
  DEF PresentationsSpec
=============================================================================
