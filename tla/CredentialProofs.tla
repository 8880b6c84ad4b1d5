-------------------------- MODULE CredentialProofs --------------------------
(***************************************************************************)
(* Proofs about CredentialLifecycle, for any number of deposits, requests, *)
(* sessions and credentials, whatever fails.                               *)
(*                                                                         *)
(* The argument.  A step of the composition is a step of DepositLifecycle  *)
(* or leaves the deposits alone, so everything proved of deposits holds.   *)
(* What a history records stays recorded, hence what the issuance handlers *)
(* saw of a deposit stays true of its past while they are under way; and a *)
(* handler comes to its revocation only through the commit that ended the  *)
(* deposit.                                                                *)
(***************************************************************************)
EXTENDS CredentialLifecycle, DepositLifecycleProofs

Pledged(id) == HasBeen(id, {"PLEDGED"})

Ended(id) == HasBeen(id, {"RELEASED", "CLOSED"})

(* The types of the issuance side, as far as they are needed. *)
Typed ==
  /\ sessions \in [Sessions -> I!Session \cup {Nil}]
  /\ nextIndex \in Nat
  /\ inFlight \in [Workers -> I!Call \cup {Nil}]
  /\ \A h \in held : h.deposit \in Ids

(* Every deposit that issuance deals with was PLEDGED. *)
OffersInv ==
  /\ \A s \in Sessions : I!Exists(s) => Pledged(sessions[s].deposit)
  /\ \A w \in Workers : inFlight[w] # Nil => Pledged(inFlight[w].deposit)
  /\ \A h \in held : Pledged(h.deposit)

(* A handler that is about to revoke has ended its deposit. *)
RevokingInv ==
  \A r \in Requests : calls[r] # Nil /\ calls[r].pc = "revoke" =>
    Ended(calls[r].id)

(* The inductive invariant, on top of that of the deposits. *)
CredInv == Typed /\ OffersInv /\ RevokedOnlyWhenOver /\ RevokingInv

-----------------------------------------------------------------------------
(* The deposits in the composition *)

(* Every step of the composition is one of the deposits, or of none. *)
LEMMA DepositSteps == [SystemNext]_allVars => [Next]_vars
<1> SUFFICES ASSUME [SystemNext]_allVars PROVE [Next]_vars
  OBVIOUS
<1>1. CASE UNCHANGED allVars
  BY <1>1 DEF allVars, vars
<1>2. ASSUME NEW r \in Requests,
             DepositStep(r) \/ Revoke(r) \/ RevokeFails(r) \/ Interrupted(r)
      PROVE  Next
  <2>1. Handle(r) \/ Continue(r)
    BY <1>2 DEF DepositStep, Revoke, RevokeFails, Interrupted, Continue
  <2> QED
    BY <2>1 DEF Next
<1>3. CASE \E w \in Workers, d \in Ids : Offer(w, d)
  BY <1>3 DEF Offer
<1>4. CASE IssuanceStep
  BY <1>4 DEF IssuanceStep
<1>5. CASE \E w \in Workers : IssuanceFails(w)
  BY <1>5 DEF IssuanceFails
<1> QED
  BY <1>1, <1>2, <1>3, <1>4, <1>5 DEF SystemNext, SmoothNext, Failure

(* The composition keeps what is proved of deposits. *)
LEMMA DepositsSafe == SystemSpec => [](SafeInv /\ PledgeBacksPayout)
<1>1. SystemInit => Init
  BY DEF SystemInit
<1>2. SystemSpec => Spec
  BY <1>1, DepositSteps, PTL DEF SystemSpec, Spec
<1> QED
  BY <1>2, SafeInvariant, PledgeBacksEveryPayout, PTL

(* What a history records, in the two ways it is said. *)
LEMMA HasBeenVisited ==
  ASSUME NEW id \in Ids, NEW states
  PROVE  HasBeen(id, states) <=>
           deposits[id] # Nil /\ \E x \in Visited(id) : x \in states
BY DEF HasBeen, Visited

(* What a history records stays recorded. *)
LEMMA HistoryStays ==
  ASSUME SafeInv, SafeInv', [Next]_vars, NEW id \in Ids, NEW states,
         HasBeen(id, states)
  PROVE  HasBeen(id, states)'
<1>1. deposits[id] # Nil /\ \E x \in Visited(id) : x \in states
  BY HasBeenVisited
<1>2. deposits'[id] # Nil /\ \E x \in Visited(id)' : x \in states
  BY <1>1, VisitedStays
<1> QED
  BY <1>2 DEF HasBeen, Visited

(* A handler comes to its revocation only through the commit of RELEASED or  *)
(* CLOSED.                                                                   *)
LEMMA RevokingStep ==
  ASSUME SafeInv, SafeInv', RevokingInv, [Next]_vars
  PROVE  RevokingInv'
<1> SUFFICES ASSUME NEW q \in Requests, calls'[q] # Nil, calls'[q].pc = "revoke",
                    NEW id \in Ids, id = calls'[q].id
             PROVE  Ended(id)'
  BY DEF RevokingInv, SafeInv, TypeOK, Call
<1>1. CASE calls'[q] = calls[q]
  <2>1. Ended(id)
    BY <1>1 DEF RevokingInv
  <2> QED
    BY <2>1, HistoryStays DEF Ended
<1>2. ASSUME NEW r \in Requests, UpdateState(r), calls'[q] # calls[q]
      PROVE  Ended(id)'
  <2>1. PICK c \in Call, i \in Ids :
          /\ c = calls[r] /\ i = c.id /\ Shape(c)
          /\ calls' = [calls EXCEPT ![r] = [c EXCEPT !.pc = AfterUpdate(c.op)]]
          /\ deposits'[i] # Nil
          /\ Visited(i)' = Visited(i) \cup {c.to}
    BY <1>2, CommitVisited
  <2>2. q = r /\ calls'[q] = [c EXCEPT !.pc = AfterUpdate(c.op)]
    BY <1>2, <2>1 DEF SafeInv, TypeOK
  <2>3. i = id /\ AfterUpdate(c.op) = "revoke"
    BY <2>1, <2>2 DEF Call
  <2>4. c.to \in {"RELEASED", "CLOSED"}
    BY <2>1, <2>3 DEF AfterUpdate, Shape
  <2>5. deposits'[id] # Nil /\ \E x \in Visited(id)' : x \in {"RELEASED", "CLOSED"}
    BY <2>1, <2>3, <2>4
  <2> QED
    BY <2>5 DEF Ended, HasBeen, Visited
<1>3. ASSUME NEW r \in Requests,
             CreateDeposit(r) \/ InsertHistory(r) \/ WindsDown(r)
               \/ \E c : Admitted(c) /\ Submit(r, c)
      PROVE  calls'[q] = calls[q]
  <2>1. PICK x : /\ calls' = [calls EXCEPT ![r] = x]
                 /\ x = Nil \/ x.pc # "revoke"
    BY <1>3 DEF CreateDeposit, InsertHistory, WindsDown, Admitted, Submit, SafeInv,
                TypeOK, Call
  <2> QED
    BY <2>1 DEF SafeInv, TypeOK
<1> QED
  BY <1>1, <1>2, <1>3, StepKinds DEF vars

-----------------------------------------------------------------------------
(* The issuance side: the past of the deposits it deals with *)

(* Sessions and credentials stay about the deposits they were made for.  A   *)
(* step of issuance that looks at no deposit's state only passes on what it  *)
(* has: from a request to a session, from a session to a request, from a     *)
(* request to a wallet.                                                      *)
Passed ==
  /\ \A s \in Sessions : sessions'[s] # Nil =>
       \/ /\ sessions[s] # Nil /\ sessions'[s].deposit = sessions[s].deposit
          /\ sessions'[s].state = "REVOKED" => sessions[s].state = "REVOKED"
       \/ /\ sessions'[s].state # "REVOKED"
          /\ \E w \in Workers :
               inFlight[w] # Nil /\ sessions'[s].deposit = inFlight[w].deposit
  /\ \A w \in Workers : inFlight'[w] # Nil =>
       \/ inFlight[w] # Nil /\ inFlight'[w].deposit = inFlight[w].deposit
       \/ \E s \in Sessions :
            sessions[s] # Nil /\ inFlight'[w].deposit = sessions[s].deposit
  /\ \A h \in held' :
       \/ h \in held
       \/ \E w \in Workers :
            inFlight[w] # Nil /\ h.deposit = inFlight[w].deposit

(* CreateSession: the session is about the request's deposit. *)
LEMMA CreatePasses ==
  ASSUME Typed, NEW w \in Workers, I!CreateSession(w)
  PROVE  Typed' /\ Passed
<1>1. PICK s \in Sessions :
        /\ inFlight[w] # Nil /\ sessions[s] = Nil
        /\ sessions' = [sessions EXCEPT ![s] =
             [deposit |-> inFlight[w].deposit, state |-> "PENDING",
              tokens |-> {}, expired |-> FALSE, cred |-> Nil,
              index |-> inFlight[w].index]]
        /\ inFlight' = [inFlight EXCEPT ![w] = Nil]
        /\ nextIndex' = nextIndex /\ held' = held
  BY DEF I!CreateSession
<1>2. sessions'[s] \in I!Session
  BY <1>1 DEF Typed, I!Session, I!Call, I!SessionState
<1>3. Typed'
  BY <1>1, <1>2 DEF Typed
<1> QED
  BY <1>1, <1>3 DEF Typed, Passed

(* Token and Expire leave every session with its deposit and its state. *)
LEMMA RowPasses ==
  ASSUME Typed, NEW s \in Sessions, I!Token(s) \/ I!Expire(s)
  PROVE  Typed' /\ Passed
<1>1. PICK x \in I!Session :
        /\ sessions[s] # Nil
        /\ sessions' = [sessions EXCEPT ![s] = x]
        /\ x.deposit = sessions[s].deposit /\ x.state = sessions[s].state
  <2>1. CASE I!Token(s)
    <3>1. PICK t \in Tokens :
            /\ sessions[s] # Nil
            /\ sessions' = [sessions EXCEPT ![s].tokens = I!WithToken(@, t)]
      BY <2>1 DEF I!Token, I!Exists, I!FreshTokens
    <3>2. sessions[s] \in I!Session
      BY <3>1 DEF Typed
    <3>3. I!WithToken(sessions[s].tokens, t) \in SUBSET Tokens
      BY <3>2 DEF I!WithToken, I!Session
    <3>4. [sessions[s] EXCEPT !.tokens = I!WithToken(@, t)] \in I!Session
      BY <3>2, <3>3 DEF I!Session
    <3> QED
      BY <3>1, <3>2, <3>4 DEF I!Session
  <2>2. CASE I!Expire(s)
    <3>1. sessions[s] # Nil /\ sessions' = [sessions EXCEPT ![s].expired = TRUE]
      BY <2>2 DEF I!Expire, I!Exists
    <3>2. sessions[s] \in I!Session
      BY <3>1 DEF Typed
    <3>3. [sessions[s] EXCEPT !.expired = TRUE] \in I!Session
      BY <3>2 DEF I!Session
    <3> QED
      BY <3>1, <3>2, <3>3 DEF I!Session
  <2> QED
    BY <2>1, <2>2
<1>2. nextIndex' = nextIndex /\ inFlight' = inFlight /\ held' = held
  BY DEF I!Token, I!Expire
<1>3. Typed'
  BY <1>1, <1>2 DEF Typed
<1> QED
  BY <1>1, <1>2, <1>3 DEF Typed, Passed

(* Credential signs for the deposit of the session it finds. *)
LEMMA CredentialPasses ==
  ASSUME Typed, NEW w \in Workers, I!Credential(w)
  PROVE  Typed' /\ Passed
<1>1. PICK s \in Sessions, c \in Creds :
        /\ sessions[s] # Nil
        /\ \E t \in sessions[s].tokens :
             inFlight' = [inFlight EXCEPT ![w] =
               [pc |-> "consume", deposit |-> sessions[s].deposit,
                index |-> sessions[s].index, token |-> t, cred |-> c]]
        /\ UNCHANGED <<sessions, nextIndex, held>>
  BY DEF I!Credential, I!Exists, I!FreshCreds
<1>2. sessions[s] \in I!Session
  BY <1>1 DEF Typed
<1>3. PICK t \in Tokens :
        inFlight' = [inFlight EXCEPT ![w] =
          [pc |-> "consume", deposit |-> sessions[s].deposit,
           index |-> sessions[s].index, token |-> t, cred |-> c]]
  BY <1>1, <1>2 DEF I!Session
<1>4. Typed'
  BY <1>1, <1>2, <1>3 DEF Typed, I!Session, I!Call
<1> QED
  BY <1>1, <1>3, <1>4 DEF Typed, Passed

(* ConsumeByToken changes neither the deposit of its session nor its own. *)
LEMMA ConsumePasses ==
  ASSUME Typed, NEW w \in Workers, I!ConsumeByToken(w)
  PROVE  Typed' /\ Passed
<1>1. /\ inFlight[w] # Nil /\ inFlight[w] \in I!Call
      /\ nextIndex' = nextIndex /\ held' = held
  BY DEF I!ConsumeByToken, Typed
<1>2. CASE I!Refuse(w)
  <2>1. sessions' = sessions /\ inFlight' = [inFlight EXCEPT ![w] = Nil]
    BY <1>2 DEF I!Refuse
  <2>2. Typed'
    BY <1>1, <2>1 DEF Typed
  <2> QED
    BY <1>1, <2>1, <2>2 DEF Typed, Passed
<1>3. ASSUME NEW s \in I!SessionsOf(inFlight[w].token), I!Consume(w, s)
      PROVE  Typed' /\ Passed
  <2>1. /\ s \in Sessions /\ sessions[s] # Nil /\ sessions[s] \in I!Session
        /\ sessions' = [sessions EXCEPT ![s].state = "CONSUMED",
                                        ![s].cred = inFlight[w].cred]
        /\ inFlight' = [inFlight EXCEPT ![w].pc = "respond"]
    BY <1>3 DEF I!SessionsOf, I!Exists, I!Consume, Typed
  <2>2. PICK x : x = [sessions[s] EXCEPT !.state = "CONSUMED",
                                         !.cred = inFlight[w].cred]
    OBVIOUS
  <2>3. PICK y : y = [inFlight[w] EXCEPT !.pc = "respond"]
    OBVIOUS
  <2>4. /\ x \in I!Session /\ x.deposit = sessions[s].deposit
        /\ x.state = "CONSUMED"
    BY <1>1, <2>1, <2>2 DEF I!Session, I!Call, I!SessionState
  <2>5. y \in I!Call /\ y.deposit = inFlight[w].deposit
    BY <1>1, <2>3 DEF I!Call
  <2>6. /\ sessions' = [sessions EXCEPT ![s] = x]
        /\ inFlight' = [inFlight EXCEPT ![w] = y]
    <3>1. sessions' = [sessions EXCEPT ![s] = x]
      BY <2>1, <2>2 DEF Typed, I!Session
    <3>2. inFlight' = [inFlight EXCEPT ![w] = y]
      BY <2>1, <2>3 DEF Typed
    <3> QED
      BY <3>1, <3>2
  <2>7. Typed'
    <3>1. sessions' \in [Sessions -> I!Session \cup {Nil}]
      BY <2>1, <2>4, <2>6 DEF Typed
    <3>2. inFlight' \in [Workers -> I!Call \cup {Nil}]
      BY <2>5, <2>6 DEF Typed
    <3> QED
      BY <1>1, <3>1, <3>2 DEF Typed
  <2> QED
    BY <1>1, <2>1, <2>4, <2>5, <2>6, <2>7 DEF Typed, Passed
<1> QED
  BY <1>2, <1>3 DEF I!ConsumeByToken

(* Respond delivers what is about its own deposit; a failure drops it. *)
LEMMA EndPasses ==
  ASSUME Typed, NEW w \in Workers, I!Respond(w) \/ I!Fail(w)
  PROVE  Typed' /\ Passed
<1>1. CASE I!Respond(w)
  <2>1. /\ inFlight[w] # Nil /\ inFlight[w] \in I!Call
        /\ held' = held \cup
             {[id |-> inFlight[w].cred, deposit |-> inFlight[w].deposit,
               index |-> inFlight[w].index]}
        /\ inFlight' = [inFlight EXCEPT ![w] = Nil]
        /\ sessions' = sessions /\ nextIndex' = nextIndex
    BY <1>1 DEF I!Respond, Typed
  <2>2. Typed'
    BY <2>1 DEF Typed, I!Call
  <2> QED
    BY <2>1, <2>2 DEF Typed, Passed
<1>2. CASE I!Fail(w)
  <2>1. /\ inFlight' = [inFlight EXCEPT ![w] = Nil]
        /\ UNCHANGED <<sessions, nextIndex, held>>
    BY <1>2 DEF I!Fail
  <2>2. Typed'
    BY <2>1 DEF Typed
  <2> QED
    BY <2>1, <2>2 DEF Typed, Passed
<1> QED
  BY <1>1, <1>2

-----------------------------------------------------------------------------
(* CredInv is inductive *)

(* A step that only passes deposits on keeps what their histories tell. *)
LEMMA PassedKeeps ==
  ASSUME SafeInv, SafeInv', [Next]_vars, Typed, Typed', OffersInv,
         RevokedOnlyWhenOver, Passed
  PROVE  OffersInv' /\ RevokedOnlyWhenOver'
<1>1. \A d \in Ids : Pledged(d) => Pledged(d)'
  BY HistoryStays DEF Pledged
<1>2. \A d \in Ids : Ended(d) => Ended(d)'
  BY HistoryStays DEF Ended
<1>3. /\ \A s \in Sessions : sessions[s] # Nil =>
           sessions[s].deposit \in Ids /\ Pledged(sessions[s].deposit)
      /\ \A w \in Workers : inFlight[w] # Nil =>
           inFlight[w].deposit \in Ids /\ Pledged(inFlight[w].deposit)
      /\ \A h \in held : h.deposit \in Ids /\ Pledged(h.deposit)
  BY DEF Typed, OffersInv, I!Exists, I!Session, I!Call
<1>4. ASSUME NEW s \in Sessions, sessions'[s] # Nil, NEW d, d = sessions'[s].deposit
      PROVE  Pledged(d)'
  BY <1>1, <1>3, <1>4 DEF Passed
<1>5. ASSUME NEW w \in Workers, inFlight'[w] # Nil, NEW d, d = inFlight'[w].deposit
      PROVE  Pledged(d)'
  BY <1>1, <1>3, <1>5 DEF Passed
<1>6. ASSUME NEW h \in held' PROVE Pledged(h.deposit)'
  BY <1>1, <1>3, <1>6 DEF Passed
<1>7. OffersInv'
  BY <1>4, <1>5, <1>6 DEF OffersInv, I!Exists
<1>8. ASSUME NEW s \in Sessions, sessions'[s] # Nil, sessions'[s].state = "REVOKED",
             NEW d, d = sessions'[s].deposit
      PROVE  Ended(d)'
  <2>1. sessions[s] # Nil /\ sessions[s].state = "REVOKED" /\ d = sessions[s].deposit
    BY <1>8 DEF Passed
  <2>2. d \in Ids /\ Ended(d)
    BY <1>3, <2>1 DEF RevokedOnlyWhenOver, Revoked, I!Exists, Ended
  <2> QED
    BY <1>2, <2>2
<1>9. RevokedOnlyWhenOver'
  BY <1>8 DEF RevokedOnlyWhenOver, Revoked, I!Exists, Ended
<1> QED
  BY <1>7, <1>9

(* Offer is for a deposit that is PLEDGED when it is read. *)
LEMMA OfferKeeps ==
  ASSUME SafeInv, Typed, OffersInv, RevokedOnlyWhenOver,
         NEW w \in Workers, NEW d \in Ids, Offer(w, d)
  PROVE  Typed' /\ OffersInv' /\ RevokedOnlyWhenOver'
<1>1. /\ d \in KnownIds /\ deposits[d].state = "PLEDGED"
      /\ inFlight' = [inFlight EXCEPT ![w] =
           [pc |-> "create", deposit |-> d, index |-> nextIndex,
            token |-> Nil, cred |-> Nil]]
      /\ nextIndex' = nextIndex + 1
      /\ sessions' = sessions /\ held' = held /\ deposits' = deposits
  BY DEF Offer, I!IssueCredential, vars
<1>2. Typed'
  BY <1>1 DEF Typed, I!Call
<1>3. Pledged(d)
  <2>1. deposits[d] # Nil
    BY <1>1 DEF SafeInv
  <2>2. "PLEDGED" \in Visited(d)
    BY <1>1, <2>1, StateVisited
  <2> QED
    BY <2>1, <2>2, HasBeenVisited DEF Pledged
<1>4. \A i \in Ids : Pledged(i) => Pledged(i)'
  BY <1>1 DEF Pledged, HasBeen, History
<1>5. ASSUME NEW v \in Workers, inFlight'[v] # Nil, NEW i, i = inFlight'[v].deposit
      PROVE  Pledged(i)'
  <2>1. CASE v = w
    BY <1>1, <1>3, <1>4, <1>5, <2>1 DEF Typed
  <2>2. CASE v # w
    BY <1>1, <1>4, <1>5, <2>2 DEF Typed, OffersInv, I!Call
  <2> QED
    BY <2>1, <2>2
<1>6. OffersInv'
  <2>1. \A s \in Sessions : I!Exists(s)' => Pledged(sessions[s].deposit)'
    BY <1>1 DEF OffersInv, I!Exists, Pledged, HasBeen, History
  <2>2. \A h \in held' : Pledged(h.deposit)'
    BY <1>1 DEF OffersInv, Pledged, HasBeen, History
  <2> QED
    BY <1>5, <2>1, <2>2 DEF OffersInv
<1>7. RevokedOnlyWhenOver'
  BY <1>1 DEF RevokedOnlyWhenOver, Revoked, I!Exists, HasBeen, History
<1> QED
  BY <1>2, <1>6, <1>7

(* Revoke touches the credentials of a deposit that its handler has ended. *)
LEMMA RevokeKeeps ==
  ASSUME SafeInv, Typed, OffersInv, RevokedOnlyWhenOver, RevokingInv,
         NEW r \in Requests, Revoke(r)
  PROVE  Typed' /\ OffersInv' /\ RevokedOnlyWhenOver'
<1>1. PICK id \in Ids : id = calls[r].id /\ Ended(id)
  BY DEF Revoke, RevokeCredentials, Proceed, RevokingInv, SafeInv, TypeOK, Call
<1>2. /\ sessions' = [s \in Sessions |->
           IF /\ sessions[s] # Nil /\ sessions[s].deposit = id
              /\ sessions[s].state = "CONSUMED"
           THEN [sessions[s] EXCEPT !.state = "REVOKED"]
           ELSE sessions[s]]
      /\ UNCHANGED <<nextIndex, inFlight, held>>
      /\ deposits' = deposits
  BY <1>1 DEF Revoke, RevokeCredentials, Proceed, I!RevokeByDepositID, I!Exists
<1>3. ASSUME NEW s \in Sessions, sessions[s] # Nil
      PROVE  /\ sessions'[s] \in I!Session
             /\ sessions'[s].deposit = sessions[s].deposit
             /\ sessions'[s].state = "REVOKED" =>
                  sessions[s].state = "REVOKED" \/ sessions[s].deposit = id
  <2>1. sessions[s] \in I!Session
    BY <1>3 DEF Typed
  <2>2. CASE sessions'[s] = [sessions[s] EXCEPT !.state = "REVOKED"]
    BY <1>2, <1>3, <2>1, <2>2 DEF I!Session, I!SessionState
  <2> QED
    BY <1>2, <1>3, <2>1, <2>2
<1>4. ASSUME NEW s \in Sessions, sessions[s] = Nil PROVE sessions'[s] = Nil
  BY <1>2, <1>4
<1>5. Typed'
  BY <1>2, <1>3, <1>4 DEF Typed
<1>6. OffersInv'
  BY <1>2, <1>3, <1>4 DEF OffersInv, I!Exists, Pledged, HasBeen, History
<1>7. RevokedOnlyWhenOver'
  BY <1>1, <1>2, <1>3, <1>4
  DEF RevokedOnlyWhenOver, Revoked, I!Exists, Ended, HasBeen, History
<1> QED
  BY <1>5, <1>6, <1>7

(* Every step of the composition keeps CredInv. *)
LEMMA CredStep ==
  ASSUME SafeInv, SafeInv', CredInv, [SystemNext]_allVars
  PROVE  CredInv'
<1>a. [Next]_vars
  BY DepositSteps
<1>b. Typed /\ OffersInv /\ RevokedOnlyWhenOver /\ RevokingInv
  BY DEF CredInv
<1>c. RevokingInv'
  BY <1>a, <1>b, RevokingStep
<1>1. CASE UNCHANGED issuanceVars
  <2>1. Typed' /\ Passed
    BY <1>1, <1>b DEF issuanceVars, Typed, Passed
  <2> QED
    BY <1>a, <1>b, <1>c, <2>1, PassedKeeps DEF CredInv
<1>2. ASSUME NEW r \in Requests, Revoke(r) PROVE CredInv'
  BY <1>2, <1>b, <1>c, RevokeKeeps DEF CredInv
<1>3. ASSUME NEW w \in Workers, NEW d \in Ids, Offer(w, d) PROVE CredInv'
  BY <1>3, <1>b, <1>c, OfferKeeps DEF CredInv
<1>4. CASE IssuanceStep \/ \E w \in Workers : IssuanceFails(w)
  <2>1. Typed' /\ Passed
    BY <1>4, <1>b, CreatePasses, RowPasses, CredentialPasses, ConsumePasses,
       EndPasses
    DEF IssuanceStep, IssuanceFails
  <2> QED
    BY <1>a, <1>b, <1>c, <2>1, PassedKeeps DEF CredInv
<1>5. ASSUME NEW r \in Requests,
             DepositStep(r) \/ RevokeFails(r) \/ Interrupted(r)
      PROVE  UNCHANGED issuanceVars
  BY <1>5 DEF DepositStep, RevokeFails, Interrupted
<1>6. CASE UNCHANGED allVars
  BY <1>1, <1>6 DEF allVars, issuanceVars
<1> QED
  BY <1>1, <1>2, <1>3, <1>4, <1>5, <1>6 DEF SystemNext, SmoothNext, Failure

(* CredInv holds in every reachable state. *)
LEMMA CredInvariance == SystemSpec => []CredInv
<1>1. SystemInit => CredInv
  BY DEF SystemInit, Init, I!Init, CredInv, Typed, OffersInv, RevokingInv,
         RevokedOnlyWhenOver, Revoked, I!Exists
<1>2. SafeInv /\ SafeInv' /\ CredInv /\ [SystemNext]_allVars => CredInv'
  BY CredStep
<1> QED
  BY <1>1, <1>2, DepositsSafe, PTL DEF SystemSpec

-----------------------------------------------------------------------------
(* Theorems *)

(* However requests overlap and whatever fails, Release, SettleAccept and    *)
(* DisputeResolve revoke a credential only after a commit that released or   *)
(* closed its deposit.                                                       *)
THEOREM RevokedOnlyAfterTheEnd == SystemSpec => []RevokedOnlyWhenOver
<1>1. CredInv => RevokedOnlyWhenOver
  BY DEF CredInv
<1> QED
  BY <1>1, CredInvariance, PTL

(* IssueCredential reads the deposit once, long before the credential is     *)
(* signed and delivered; still every offer is for a deposit that was         *)
(* PLEDGED, and every credential in a wallet for one that the bank has       *)
(* confirmed and whose tenant is verified.                                   *)
THEOREM CredentialsAttestPledge == SystemSpec => []AttestsPledge
<1>1. CredInv /\ PledgeBacksPayout => AttestsPledge
  <2> SUFFICES ASSUME CredInv, PledgeBacksPayout PROVE AttestsPledge
    OBVIOUS
  <2>1. /\ \A s \in Sessions : I!Exists(s) =>
             HasBeen(sessions[s].deposit, {"PLEDGED"})
        /\ \A h \in held : h.deposit \in Ids /\ HasBeen(h.deposit, {"PLEDGED"})
    BY DEF CredInv, OffersInv, Typed, Pledged
  <2>2. ASSUME NEW id \in Ids, HasBeen(id, {"PLEDGED"})
        PROVE  deposits[id].pledged /\ deposits[id].eid = "VERIFIED"
    BY <2>2 DEF HasBeen, PledgeBacksPayout, Secured, LifecycleStates
  <2> QED
    BY <2>1, <2>2 DEF AttestsPledge
<1> QED
  BY <1>1, CredInvariance, DepositsSafe, PTL
=============================================================================
