------------------------------ MODULE EidProofs ------------------------------
(***************************************************************************)
(* Proofs about EidWebhook, for all four SDKs and any number of deposits,  *)
(* of events being handled, of requests and of faults.                     *)
(*                                                                         *)
(* The argument.  Only the provider signs, so an event that is handled was *)
(* reported; only such an event makes a request of UpdateIdentity, and     *)
(* only such a request writes IDENTIFIED.  A hook that waits for an answer *)
(* waits for a request about its own deposit, which has committed by the   *)
(* time it answers 200.                                                    *)
(***************************************************************************)
EXTENDS EidWebhook, DepositLifecycleProofs

Verified(id) == [deposit |-> id, status |-> "VERIFIED"]

Identifying(r) == calls[r] # Nil /\ calls[r].op = "UpdateIdentity"

(* What the provider reported is behind every update and what it wrote; an   *)
(* update that is past its commit has been recorded.                         *)
UpdatesInv ==
  /\ \A r \in Requests : Identifying(r) =>
       /\ Verified(calls[r].id) \in reported
       /\ calls[r].pc # "update" => Identified(calls[r].id)
  /\ IdentityBackedByEvent

(* Whether hook x may be in the table. *)
HookSound(x) ==
  x # Nil =>
    /\ x.event.status = "VERIFIED" /\ x.event \in reported
    /\ x.pc = "wait" =>
         \E r \in Requests :
           /\ r = x.slot /\ Identifying(r) /\ calls[r].id = x.event.deposit
           /\ calls[r].pc \in {"update", "notify"}
    /\ x.pc = "ok" => Identified(x.event.deposit)

HooksInv ==
  /\ hooks \in [Hooks -> Hook \cup {Nil}]
  /\ \A h \in Hooks : HookSound(hooks[h])

(* A deposit in REQUESTED has never been identified. *)
FreshInv ==
  \A id \in Ids : deposits[id] # Nil /\ deposits[id].state = "REQUESTED" =>
    "IDENTIFIED" \notin Visited(id)

-----------------------------------------------------------------------------
(* The deposits behind the webhooks *)

(* An update that an SDK sends and the server accepts is UpdateIdentity. *)
LEMMA PatchIsUpdate ==
  ASSUME NEW h \in Hooks, NEW r \in Requests, PatchIdentity(h, r)
  PROVE  UpdateIdentity(r)
<1>1. PICK id \in KnownIds :
        /\ CanTransition(deposits[id].state, "IDENTIFIED")
        /\ Submit(r, Request(id, "UpdateIdentity", "IDENTIFIED", "IDENTITY_PROVIDER"))
  BY DEF PatchIdentity, Identifiable
<1>2. "VERIFIED" \in EIDStatus /\ "IDENTIFIED" \in StateForIdentityUpdate("VERIFIED")
  BY DEF EIDStatus, StateForIdentityUpdate
<1> QED
  BY <1>1, <1>2 DEF UpdateIdentity

(* What a call of UpdateDepositKYCStatus does, whichever the SDK. *)
LEMMA UpdateKinds ==
  ASSUME NEW h \in Hooks, UpdateDepositKYCStatus(h)
  PROVE  /\ Sending(h) /\ reported' = reported
         /\ \/ \E r \in Requests : PatchIdentity(h, r)
            \/ /\ hooks' = [hooks EXCEPT ![h].pc = "failed"]
               /\ UNCHANGED vars
BY DEF UpdateDepositKYCStatus, GoUpdateDepositKYCStatus, TsUpdateDepositKYCStatus,
       RustUpdateDepositKycStatus, JavaUpdateDepositKycStatus, PatchRefused

(* Every step is one of the deposits, or of none. *)
LEMMA DepositSteps == [HookNext]_hookVars => [Next]_vars
<1> SUFFICES ASSUME [HookNext]_hookVars PROVE [Next]_vars
  OBVIOUS
<1>1. CASE UNCHANGED hookVars
  BY <1>1 DEF hookVars, vars
<1>2. CASE \/ \E id \in Ids : InitiateVerification(id)
           \/ \E e \in Event : Report(e)
           \/ \E h \in Hooks : HandleWebhook(h) \/ CallLost(h) \/ Finish(h)
           \/ Crash
  BY <1>2 DEF InitiateVerification, Report, HandleWebhook, CallLost, Finish, Crash
<1>3. ASSUME NEW h \in Hooks, UpdateDepositKYCStatus(h) PROVE [Next]_vars
  <2>1. CASE \E r \in Requests : PatchIdentity(h, r)
    BY <2>1, PatchIsUpdate DEF Next, Handle
  <2> QED
    BY <1>3, <2>1, UpdateKinds
<1>4. ASSUME NEW r \in Requests, ServerStep(r) \/ Answered(r) \/ Broken(r)
      PROVE  Next
  <2>1. Handle(r) \/ Continue(r)
    BY <1>4 DEF ServerStep, Answered, Broken, Handle, Continue
  <2> QED
    BY <2>1 DEF Next
<1> QED
  BY <1>1, <1>2, <1>3, <1>4 DEF HookNext

(* What is proved of deposits holds behind the webhooks. *)
LEMMA DepositsSafe == HookSpec => [](SafeInv /\ PayoutInv)
<1>1. HookInit => Init
  BY DEF HookInit
<1>2. HookInit /\ [][HookNext]_hookVars => Spec
  BY <1>1, DepositSteps, PTL DEF Spec
<1>3. HookSpec => HookInit /\ [][HookNext]_hookVars
  BY PTL DEF HookSpec
<1> QED
  BY <1>2, <1>3, SafeInvariant, PayoutInvariant, PTL

(* The history records an identification, in the two ways it is said. *)
LEMMA IdentifiedVisited ==
  ASSUME NEW id \in Ids
  PROVE  Identified(id) <=> deposits[id] # Nil /\ "IDENTIFIED" \in Visited(id)
BY DEF Identified, Identifications, Visited

(* An identification stays on record. *)
LEMMA IdentifiedStays ==
  ASSUME SafeInv, SafeInv', [Next]_vars, NEW id \in Ids, Identified(id)
  PROVE  Identified(id)'
<1>1. deposits[id] # Nil /\ "IDENTIFIED" \in Visited(id)
  BY IdentifiedVisited
<1>2. deposits'[id] # Nil /\ "IDENTIFIED" \in Visited(id)'
  BY <1>1, VisitedStays
<1> QED
  BY <1>2 DEF Identified, Identifications, Visited

(* Only UpdateState for UpdateIdentity puts one there. *)
LEMMA IdentifiedBy ==
  ASSUME SafeInv, SafeInv', [Next]_vars, NEW id \in Ids, Identified(id)',
         ~Identified(id)
  PROVE  \E r \in Requests : Identifying(r) /\ calls[r].id = id
<1>1. /\ deposits'[id] # Nil /\ "IDENTIFIED" \in Visited(id)'
      /\ deposits[id] = Nil \/ "IDENTIFIED" \notin Visited(id)
  BY IdentifiedVisited DEF Identified, Identifications, Visited
<1>2. ~Preparing
  BY <1>1, PreparingVisited
<1>3. PICK r \in Requests : UpdateState(r)
  BY <1>2, CommitOrPrepare
<1>4. PICK c \in Call, i \in Ids :
        /\ c = calls[r] /\ i = c.id /\ Shape(c)
        /\ Visited(i)' = Visited(i) \cup {c.to}
        /\ \A j \in Ids \ {i} :
             deposits'[j] = deposits[j] /\ Visited(j)' = Visited(j)
  BY <1>3, CommitVisited
<1>5. deposits[i] # Nil /\ calls[r] # Nil
  BY <1>3, <1>4 DEF UpdateState, SafeInv, CallSound
<1>6. i = id /\ c.to = "IDENTIFIED"
  BY <1>1, <1>4, <1>5
<1> QED
  BY <1>4, <1>5, <1>6 DEF Shape, Identifying

-----------------------------------------------------------------------------
(* The server's side: requests of UpdateIdentity *)

(* A request of UpdateIdentity was there before, has just committed, or is   *)
(* the one an SDK has just sent.                                             *)
LEMMA UpdateOrigin ==
  ASSUME SafeInv, [HookNext]_hookVars, NEW q \in Requests,
         calls'[q] # Nil, calls'[q].op = "UpdateIdentity"
  PROVE  \/ calls'[q] = calls[q]
         \/ UpdateState(q)
         \/ \E h \in Hooks :
              Sending(h) /\ calls'[q].id = hooks[h].event.deposit
                /\ calls'[q].pc = "update" /\ Identifiable(calls'[q].id)
<1>a. calls \in [Requests -> Call \cup {Nil}]
  BY DEF SafeInv, TypeOK
<1>1. CASE UNCHANGED calls
  BY <1>1
<1>2. ASSUME NEW h \in Hooks, Sending(h), NEW r \in Requests, PatchIdentity(h, r)
      PROVE  \/ calls'[q] = calls[q]
             \/ /\ calls'[q].id = hooks[h].event.deposit
                /\ calls'[q].pc = "update" /\ Identifiable(calls'[q].id)
  <2>1. Identifiable(hooks[h].event.deposit) /\ calls' = [calls EXCEPT ![r] =
          Request(hooks[h].event.deposit, "UpdateIdentity", "IDENTIFIED",
                  "IDENTITY_PROVIDER")]
    BY <1>2 DEF PatchIdentity, Submit
  <2> QED
    BY <1>a, <2>1 DEF Request
<1>3. ASSUME NEW r \in Requests, CreateDeposit(r) \/ Pledge(r)
      PROVE  calls'[q] = calls[q]
  <2>1. PICK x : calls' = [calls EXCEPT ![r] = x] /\ x.op # "UpdateIdentity"
    <3>1. CASE CreateDeposit(r)
      <4> DEFINE New(id) ==
            [pc |-> "insert", op |-> "CreateDeposit", id |-> id,
             seen |-> "REQUESTED", to |-> "REQUESTED", actor |-> "TENANT",
             settlement |-> Nil, reservation |-> Nil, agreed |-> NoSplit]
      <4>1. PICK id \in Ids : calls' = [calls EXCEPT ![r] = New(id)]
        BY <3>1 DEF CreateDeposit
      <4>2. New(id).op # "UpdateIdentity"
        OBVIOUS
      <4> HIDE DEF New
      <4> QED
        BY <4>1, <4>2
    <3>2. CASE Pledge(r)
      <4>1. PICK id \in KnownIds :
              calls' = [calls EXCEPT ![r] = Request(id, "Pledge", "PLEDGED", "BANK")]
        BY <3>2 DEF Pledge, Submit
      <4>2. Request(id, "Pledge", "PLEDGED", "BANK").op # "UpdateIdentity"
        BY DEF Request
      <4> QED
        BY <4>1, <4>2
    <3> QED
      BY <1>3, <3>1, <3>2
  <2> QED
    BY <1>a, <2>1
<1>4. ASSUME NEW r \in Requests, InsertHistory(r) \/ Notify(r) \/ Fail(r)
      PROVE  calls'[q] = calls[q]
  BY <1>4, <1>a DEF InsertHistory, Notify, Fail
<1>5. ASSUME NEW r \in Requests, UpdateState(r)
      PROVE  calls'[q] = calls[q] \/ UpdateState(q)
  BY <1>5, <1>a DEF UpdateState
<1>6. ASSUME NEW r \in Requests, ServerStep(r) \/ Answered(r) \/ Broken(r)
      PROVE  calls'[q] = calls[q] \/ UpdateState(q)
  BY <1>3, <1>4, <1>5, <1>6 DEF ServerStep, Answered, Broken
<1>7. ASSUME NEW h \in Hooks, UpdateDepositKYCStatus(h)
      PROVE  \/ calls'[q] = calls[q]
             \/ /\ Sending(h) /\ calls'[q].id = hooks[h].event.deposit
                /\ calls'[q].pc = "update" /\ Identifiable(calls'[q].id)
  BY <1>2, <1>7, UpdateKinds DEF vars
<1>8. CASE \/ \E id \in Ids : InitiateVerification(id)
           \/ \E e \in Event : Report(e)
           \/ \E h \in Hooks : HandleWebhook(h) \/ CallLost(h) \/ Finish(h)
           \/ Crash
  BY <1>1, <1>8
  DEF InitiateVerification, Report, HandleWebhook, CallLost, Finish, Crash, vars
<1> QED
  BY <1>1, <1>6, <1>7, <1>8 DEF HookNext, hookVars

(* The provider takes no report back. *)
LEMMA ReportsStay == [HookNext]_hookVars => reported \subseteq reported'
BY UpdateKinds
DEF HookNext, hookVars, InitiateVerification, Report, HandleWebhook, CallLost,
    Finish, Crash, ServerStep, sdkVars, Answered, Broken

(* Every step keeps UpdatesInv. *)
LEMMA UpdatesStep ==
  ASSUME SafeInv, SafeInv', UpdatesInv, HooksInv, [HookNext]_hookVars
  PROVE  UpdatesInv'
<1>a. [Next]_vars /\ reported \subseteq reported'
  BY DepositSteps, ReportsStay
<1>1. ASSUME NEW q \in Requests, calls'[q] # Nil,
             calls'[q].op = "UpdateIdentity", NEW id, id = calls'[q].id
      PROVE  /\ Verified(id) \in reported'
             /\ calls'[q].pc # "update" => Identified(id)'
  <2>1. CASE calls'[q] = calls[q]
    <3>1. /\ id \in Ids /\ Verified(id) \in reported
          /\ calls[q].pc # "update" => Identified(id)
      BY <1>1, <2>1 DEF UpdatesInv, Identifying, SafeInv, TypeOK, Call
    <3> QED
      BY <1>a, <2>1, <3>1, IdentifiedStays
  <2>2. CASE UpdateState(q)
    <3>1. PICK c \in Call, i \in Ids :
            /\ c = calls[q] /\ i = c.id /\ Shape(c)
            /\ calls' = [calls EXCEPT ![q] = [c EXCEPT !.pc = AfterUpdate(c.op)]]
            /\ deposits'[i] # Nil
            /\ Visited(i)' = Visited(i) \cup {c.to}
      BY <2>2, CommitVisited
    <3>2. c.op = "UpdateIdentity" /\ id = i /\ calls[q] # Nil
      BY <1>1, <2>2, <3>1 DEF SafeInv, TypeOK, Call, UpdateState
    <3>3. Verified(id) \in reported
      BY <3>1, <3>2 DEF UpdatesInv, Identifying
    <3>4. deposits'[id] # Nil /\ "IDENTIFIED" \in Visited(id)'
      BY <3>1, <3>2 DEF Shape
    <3>5. Identified(id)'
      BY <3>4 DEF Identified, Identifications, Visited
    <3> QED
      BY <1>a, <3>3, <3>5
  <2>3. ASSUME NEW h \in Hooks, Sending(h), id = hooks[h].event.deposit,
               calls'[q].pc = "update"
        PROVE  Verified(id) \in reported
    <3>1. /\ hooks[h].event \in Event /\ hooks[h].event \in reported
          /\ hooks[h].event.status = "VERIFIED"
      BY <2>3 DEF Sending, HooksInv, HookSound, Hook
    <3>2. hooks[h].event = Verified(id)
      BY <2>3, <3>1 DEF Event, Verified
    <3> QED
      BY <3>1, <3>2
  <2> QED
    BY <1>1, <1>a, <2>1, <2>2, <2>3, UpdateOrigin
<1>2. ASSUME NEW id \in Ids, Identified(id)' PROVE Verified(id) \in reported'
  <2>1. CASE Identified(id)
    BY <1>a, <2>1 DEF UpdatesInv, IdentityBackedByEvent, Verified
  <2>2. CASE ~Identified(id)
    <3>1. PICK r \in Requests : Identifying(r) /\ calls[r].id = id
      BY <1>2, <1>a, <2>2, IdentifiedBy
    <3> QED
      BY <1>a, <3>1 DEF UpdatesInv
  <2> QED
    BY <2>1, <2>2
<1> QED
  BY <1>1, <1>2 DEF UpdatesInv, Identifying, IdentityBackedByEvent, Verified

-----------------------------------------------------------------------------
(* The SDK's side: hooks *)

(* A request that a hook waits for stays about its deposit until it ends. *)
LEMMA WaitedStays ==
  ASSUME SafeInv, [Next]_vars, NEW r \in Requests, Identifying(r),
         calls[r].pc \in {"update", "notify"}, calls'[r] # Nil
  PROVE  /\ Identifying(r)' /\ calls'[r].id = calls[r].id
         /\ calls'[r].pc \in {"update", "notify"}
<1>a. calls \in [Requests -> Call \cup {Nil}] /\ calls[r] \in Call
  BY DEF SafeInv, TypeOK, Identifying
<1>1. CASE calls'[r] = calls[r]
  BY <1>1 DEF Identifying
<1>2. ASSUME NEW q \in Requests, CreateDeposit(q) \/ InsertHistory(q)
      PROVE  calls'[r] = calls[r]
  BY <1>2, <1>a DEF CreateDeposit, InsertHistory, Identifying
<1>3. ASSUME NEW q \in Requests, NEW c, Submit(q, c) PROVE calls'[r] = calls[r]
  BY <1>3, <1>a DEF Submit, Identifying
<1>4. ASSUME NEW q \in Requests, UpdateState(q), calls'[r] # calls[r]
      PROVE  calls'[r] = [calls[r] EXCEPT !.pc = "notify"]
  <2>1. calls' = [calls EXCEPT ![q].pc = AfterUpdate(calls[q].op)]
    BY <1>4 DEF UpdateState
  <2>2. q = r /\ AfterUpdate(calls[q].op) = "notify"
    BY <1>4, <1>a, <2>1 DEF Identifying, AfterUpdate
  <2> QED
    BY <1>a, <2>1, <2>2
<1>5. ASSUME NEW q \in Requests, WindsDown(q), calls'[r] # calls[r]
      PROVE  calls'[r] = [calls[r] EXCEPT !.pc = "notify"]
  BY <1>5, <1>a DEF WindsDown
<1>6. CASE calls'[r] = [calls[r] EXCEPT !.pc = "notify"]
  BY <1>6, <1>a DEF Identifying, Call
<1> QED
  BY <1>1, <1>2, <1>3, <1>4, <1>5, <1>6, StepKinds DEF vars

(* A hook that is left alone stays sound. *)
LEMMA SoundKept ==
  ASSUME SafeInv, SafeInv', [HookNext]_hookVars, NEW x \in Hook, HookSound(x),
         x.pc = "wait" => calls'[x.slot] # Nil
  PROVE  HookSound(x)'
<1>a. [Next]_vars /\ reported \subseteq reported' /\ x.event.deposit \in Ids
  BY DepositSteps, ReportsStay DEF Hook, Event
<1>1. CASE x = Nil
  BY <1>1 DEF HookSound
<1>2. CASE x # Nil
  <2>1. x.event.status = "VERIFIED" /\ x.event \in reported'
    BY <1>2, <1>a DEF HookSound
  <2>2. ASSUME x.pc = "wait"
        PROVE  \E r \in Requests :
                 /\ r = x.slot /\ Identifying(r)'
                 /\ calls'[r].id = x.event.deposit
                 /\ calls'[r].pc \in {"update", "notify"}
    <3>1. PICK r \in Requests :
            /\ r = x.slot /\ Identifying(r) /\ calls[r].id = x.event.deposit
            /\ calls[r].pc \in {"update", "notify"}
      BY <1>2, <2>2 DEF HookSound
    <3>2. calls'[r] # Nil
      BY <2>2, <3>1
    <3> QED
      BY <1>a, <3>1, <3>2, WaitedStays
  <2>3. x.pc = "ok" => Identified(x.event.deposit)'
    <3> SUFFICES ASSUME x.pc = "ok", NEW id \in Ids, id = x.event.deposit
                 PROVE  Identified(id)'
      BY <1>a
    <3>1. Identified(id)
      BY <1>2 DEF HookSound
    <3> QED
      BY <1>a, <3>1, IdentifiedStays
  <2> QED
    BY <2>1, <2>2, <2>3 DEF HookSound
<1> QED
  BY <1>1, <1>2

(* A step that changes one hook, or none, and ends no request waited for. *)
LEMMA OneHook ==
  ASSUME SafeInv, SafeInv', HooksInv, [HookNext]_hookVars,
         NEW h \in Hooks, NEW x \in Hook \cup {Nil},
         hooks' = [hooks EXCEPT ![h] = x], HookSound(x)',
         \A g \in Hooks : hooks[g] # Nil /\ hooks[g].pc = "wait" =>
           calls'[hooks[g].slot] # Nil
  PROVE  HooksInv'
<1>1. hooks' \in [Hooks -> Hook \cup {Nil}]
  BY DEF HooksInv
<1>2. ASSUME NEW g \in Hooks, g # h, NEW y, y = hooks[g] PROVE HookSound(y)'
  <2>1. CASE y = Nil
    BY <2>1 DEF HookSound
  <2>2. CASE y # Nil
    <3>1. y \in Hook /\ HookSound(y) /\ (y.pc = "wait" => calls'[y.slot] # Nil)
      BY <1>2, <2>2 DEF HooksInv
    <3> QED
      BY <3>1, SoundKept
  <2> QED
    BY <2>1, <2>2
<1>3. ASSUME NEW g \in Hooks, NEW y, y = hooks'[g] PROVE HookSound(y)'
  <2>1. CASE g = h
    BY <1>3, <2>1 DEF HooksInv
  <2>2. CASE g # h
    BY <1>2, <1>3, <2>2 DEF HooksInv
  <2> QED
    BY <2>1, <2>2
<1> QED
  BY <1>1, <1>3 DEF HooksInv, HookSound

(* An SDK starts on an event only if it is VERIFIED and the provider signed. *)
LEMMA StartKinds ==
  ASSUME NEW h \in Hooks, HandleWebhook(h)
  PROVE  \/ UNCHANGED hooks
         \/ \E e \in Event :
              /\ e.status = "VERIFIED" /\ e \in reported
              /\ hooks' = [hooks EXCEPT ![h] =
                            [pc |-> "send", event |-> e, slot |-> Nil]]
<1>1. PICK e \in Event, signature \in Signatures :
        /\ Posted(e, signature)
        /\ signature \in {"lower", "upper"}
        /\ \/ DispatchOutcome(e)
           \/ e.status = "VERIFIED" /\ Start(h, e)
  BY DEF HandleWebhook, GoHandleWebhook, TsHandleWebhook, RustHandleWebhook,
         JavaHandleWebhook, GoVerifyHMAC, TsVerifyHmac, RustVerifyHmac,
         JavaVerifyHmacSignature, GoDispatch, TsDispatch, RustDispatch,
         JavaDispatchEvent
<1> QED
  BY <1>1 DEF Posted, DispatchOutcome, Start

(* Every step keeps HooksInv. *)
LEMMA HooksStep ==
  ASSUME SafeInv, SafeInv', UpdatesInv, HooksInv, [HookNext]_hookVars
  PROVE  HooksInv'
<1> DEFINE Held == \A g \in Hooks : hooks[g] # Nil /\ hooks[g].pc = "wait" =>
                     calls'[hooks[g].slot] # Nil
<1>a. /\ calls \in [Requests -> Call \cup {Nil}] /\ Nil \notin Call
      /\ hooks \in [Hooks -> Hook \cup {Nil}]
      /\ [Next]_vars /\ reported \subseteq reported'
  BY LifecycleAssumption, DepositSteps, ReportsStay DEF SafeInv, TypeOK, HooksInv
<1>b. ASSUME NEW g \in Hooks, hooks[g] # Nil, hooks[g].pc = "wait"
      PROVE  \E r \in Requests :
               /\ r = hooks[g].slot /\ calls[r] \in Call /\ Identifying(r)
               /\ calls[r].id = hooks[g].event.deposit
               /\ calls[r].pc \in {"update", "notify"}
  BY <1>a, <1>b DEF HooksInv, HookSound, Identifying
<1>c. ASSUME UNCHANGED calls PROVE Held
  BY <1>b, <1>c, <1>a
<1>d. ASSUME UNCHANGED hooks, Held PROVE HooksInv'
  <2>1. ASSUME NEW h \in Hooks, NEW x, x = hooks[h] PROVE HookSound(x)'
    <3>1. CASE x = Nil
      BY <3>1 DEF HookSound
    <3>2. CASE x # Nil
      <4>1. x \in Hook /\ HookSound(x) /\ (x.pc = "wait" => calls'[x.slot] # Nil)
        BY <1>d, <1>a, <2>1, <3>2 DEF HooksInv
      <4> QED
        BY <4>1, SoundKept
    <3> QED
      BY <3>1, <3>2
  <2> QED
    BY <1>d, <1>a, <2>1 DEF HooksInv, HookSound
<1> HIDE DEF Held
<1>1. CASE UNCHANGED hookVars
  BY <1>1, <1>c, <1>d DEF hookVars
<1>2. CASE (\E id \in Ids : InitiateVerification(id)) \/ (\E e \in Event : Report(e))
  BY <1>2, <1>c, <1>d DEF InitiateVerification, Report, vars
<1>3. ASSUME NEW h \in Hooks, HandleWebhook(h) PROVE HooksInv'
  <2>1. Held
    BY <1>3, <1>c DEF HandleWebhook, vars
  <2>2. ASSUME NEW e \in Event, e.status = "VERIFIED", e \in reported,
               NEW x, x = [pc |-> "send", event |-> e, slot |-> Nil],
               hooks' = [hooks EXCEPT ![h] = x]
        PROVE  HooksInv'
    <3>1. x \in Hook \cup {Nil}
      BY <2>2 DEF Hook
    <3>2. HookSound(x)'
      BY <1>a, <2>2 DEF HookSound
    <3> QED
      BY <2>1, <2>2, <3>1, <3>2, OneHook DEF Held
  <2> QED
    BY <1>3, <1>d, <2>1, <2>2, StartKinds
<1>4. ASSUME NEW h \in Hooks, UpdateDepositKYCStatus(h) PROVE HooksInv'
  <2>a. hooks[h] \in Hook /\ hooks[h] # Nil /\ HookSound(hooks[h])
    BY <1>4, <1>a, UpdateKinds DEF Sending, HooksInv
  <2>1. ASSUME hooks' = [hooks EXCEPT ![h].pc = "failed"], UNCHANGED vars
        PROVE  HooksInv'
    <3>0. PICK x : x = [hooks[h] EXCEPT !.pc = "failed"]
      OBVIOUS
    <3>1. x \in Hook /\ x.event = hooks[h].event /\ x.pc = "failed"
      BY <2>a, <3>0 DEF Hook
    <3>2. hooks' = [hooks EXCEPT ![h] = x]
      BY <2>1, <3>0
    <3>3. HookSound(x)'
      BY <1>a, <2>a, <3>1 DEF HookSound
    <3> QED
      BY <1>c, <2>1, <3>1, <3>2, <3>3, OneHook DEF Held, vars
  <2>2. ASSUME NEW r \in Requests, PatchIdentity(h, r) PROVE HooksInv'
    <3> DEFINE c == Request(hooks[h].event.deposit, "UpdateIdentity",
                            "IDENTIFIED", "IDENTITY_PROVIDER")
    <3>0. PICK x : x = [hooks[h] EXCEPT !.pc = "wait", !.slot = r]
      OBVIOUS
    <3>1. /\ x \in Hook /\ x.event = hooks[h].event /\ x.pc = "wait"
          /\ x.slot = r
      BY <2>a, <3>0 DEF Hook
    <3>2. hooks' = [hooks EXCEPT ![h] = x]
      BY <2>2, <3>0 DEF PatchIdentity
    <3>3. calls[r] = Nil /\ calls' = [calls EXCEPT ![r] = c]
      BY <2>2 DEF PatchIdentity, Submit
    <3>4. /\ c.op = "UpdateIdentity" /\ c.pc = "update"
          /\ c.id = hooks[h].event.deposit
      BY DEF Request
    <3> HIDE DEF c
    <3>5. calls'[r] = c /\ \A q \in Requests \ {r} : calls'[q] = calls[q]
      BY <1>a, <3>3
    <3>6. calls'[r] # Nil
      <4>1. PICK id \in Ids : id = hooks[h].event.deposit /\ deposits[id] # Nil
        BY <2>2 DEF PatchIdentity, Identifiable, SafeInv, KnownIds
      <4>2. Request(id, "UpdateIdentity", "IDENTIFIED", "IDENTITY_PROVIDER") \in Call
        BY <4>1, RequestType DEF SafeInv, Operations, LifecycleStates, Actors
      <4> QED
        BY <1>a, <3>5, <4>1, <4>2 DEF c
    <3>7. HookSound(x)'
      BY <1>a, <2>a, <3>1, <3>4, <3>5, <3>6 DEF HookSound, Identifying
    <3>8. Held
      BY <1>a, <1>b, <3>3, <3>5 DEF Held
    <3> QED
      BY <3>1, <3>2, <3>7, <3>8, OneHook DEF Held
  <2> QED
    BY <1>4, <2>1, <2>2, UpdateKinds
<1>5. ASSUME NEW h \in Hooks, CallLost(h) PROVE HooksInv'
  <2>0. PICK x : x = [hooks[h] EXCEPT !.pc = "failed", !.slot = Nil]
    OBVIOUS
  <2>a. hooks[h] \in Hook /\ hooks[h] # Nil /\ HookSound(hooks[h])
    BY <1>5, <1>a DEF CallLost, HooksInv
  <2>1. x \in Hook /\ x.event = hooks[h].event /\ x.pc = "failed"
    BY <2>a, <2>0 DEF Hook
  <2>2. hooks' = [hooks EXCEPT ![h] = x]
    BY <1>5, <2>0 DEF CallLost
  <2>3. HookSound(x)'
    BY <1>a, <2>a, <2>1 DEF HookSound
  <2> QED
    BY <1>5, <1>c, <2>1, <2>2, <2>3, OneHook DEF Held, CallLost, vars
<1>6. ASSUME NEW h \in Hooks, Finish(h) PROVE HooksInv'
  <2>1. hooks' = [hooks EXCEPT ![h] = Nil] /\ HookSound(Nil)' /\ Nil \in Hook \cup {Nil}
    BY <1>6 DEF Finish, HookSound
  <2> QED
    BY <1>6, <1>c, <2>1, OneHook DEF Held, Finish, vars
<1>7. CASE Crash
  BY <1>7 DEF Crash, HooksInv, HookSound
<1>8. ASSUME NEW r \in Requests, ServerStep(r) PROVE HooksInv'
  <2>1. ASSUME NEW q \in Requests, calls[q] \in Call,
               calls[q].pc \in {"update", "notify"}
        PROVE  calls'[q] # Nil
    <3>1. CASE CreateDeposit(r) \/ InsertHistory(r)
      BY <1>a, <2>1, <3>1 DEF CreateDeposit, InsertHistory
    <3>2. CASE Pledge(r)
      BY <1>a, <2>1, <3>2 DEF Pledge, Submit
    <3>3. CASE UpdateState(r)
      <4>1. PICK c \in Call : /\ c = calls[r]
              /\ calls' = [calls EXCEPT ![r] = [c EXCEPT !.pc = AfterUpdate(c.op)]]
        BY <1>a, <3>3, CommitVisited
      <4>2. [c EXCEPT !.pc = AfterUpdate(c.op)] \in Call
        BY DEF Call, AfterUpdate
      <4> QED
        BY <1>a, <2>1, <4>1, <4>2
    <3> QED
      BY <1>8, <3>1, <3>2, <3>3 DEF ServerStep
  <2>2. Held
    BY <1>b, <2>1 DEF Held
  <2> QED
    BY <1>8, <1>d, <2>2 DEF ServerStep, sdkVars
<1>9. ASSUME NEW r \in Requests, NEW outcome \in {"ok", "failed"},
             Answer(r, outcome), calls' = [calls EXCEPT ![r] = Nil],
             outcome = "ok" => calls[r].pc = "notify"
      PROVE  HooksInv'
  <2>1. ASSUME NEW h \in Hooks, NEW x, x = hooks'[h]
        PROVE  x \in Hook \cup {Nil} /\ HookSound(x)'
    <3>1. CASE h \in Waiting(r)
      <4>a. /\ hooks[h] \in Hook /\ hooks[h] # Nil /\ HookSound(hooks[h])
            /\ hooks[h].pc = "wait" /\ hooks[h].slot = r
        BY <1>a, <3>1 DEF Waiting, HooksInv
      <4>1. x = [hooks[h] EXCEPT !.pc = outcome, !.slot = Nil]
        BY <1>9, <2>1, <3>1 DEF Answer
      <4>2. x \in Hook /\ x.event = hooks[h].event /\ x.pc = outcome
        BY <4>a, <4>1 DEF Hook
      <4>3. /\ Identifying(r) /\ calls[r].id = x.event.deposit
            /\ calls[r].pc \in {"update", "notify"}
        BY <1>b, <4>a, <4>2
      <4>4. ASSUME outcome = "ok", NEW id, id = x.event.deposit PROVE Identified(id)'
        <5>1. Identified(id) /\ id \in Ids
          BY <1>9, <1>a, <4>3, <4>4 DEF UpdatesInv, Identifying, Call
        <5> QED
          BY <1>a, <5>1, IdentifiedStays
      <4> QED
        BY <1>a, <4>a, <4>2, <4>4 DEF HookSound
    <3>2. CASE h \notin Waiting(r)
      <4>1. x = hooks[h] /\ HookSound(x) /\ x \in Hook \cup {Nil}
        BY <1>9, <1>a, <2>1, <3>2 DEF Answer, HooksInv
      <4>2. CASE x = Nil
        BY <4>2 DEF HookSound
      <4>3. CASE x # Nil
        <5>1. x.pc = "wait" => calls'[x.slot] # Nil
          BY <1>9, <1>a, <1>b, <3>2, <4>1, <4>3 DEF Waiting
        <5> QED
          BY <4>1, <4>3, <5>1, SoundKept
      <4> QED
        BY <4>2, <4>3
    <3> QED
      BY <3>1, <3>2
  <2>2. hooks' \in [Hooks -> Hook \cup {Nil}]
    <3>1. hooks' = [h \in Hooks |-> hooks'[h]]
      BY <1>9 DEF Answer
    <3> QED
      BY <2>1, <3>1
  <2> QED
    BY <2>1, <2>2 DEF HooksInv, HookSound
<1>10. ASSUME NEW r \in Requests, Answered(r) \/ Broken(r) PROVE HooksInv'
  BY <1>9, <1>10 DEF Answered, Broken, Notify, Fail
<1> QED
  BY <1>1, <1>2, <1>3, <1>4, <1>5, <1>6, <1>7, <1>8, <1>10 DEF HookNext

-----------------------------------------------------------------------------
(* The two invariants support each other. *)
LEMMA HookInvariance == HookSpec => [](UpdatesInv /\ HooksInv)
<1>1. HookInit => UpdatesInv /\ HooksInv
  BY DEF HookInit, Init, UpdatesInv, HooksInv, HookSound, Identifying, Identified,
         IdentityBackedByEvent
<1>2. /\ SafeInv /\ SafeInv' /\ UpdatesInv /\ HooksInv /\ [HookNext]_hookVars
      => (UpdatesInv /\ HooksInv)'
  BY UpdatesStep, HooksStep
<1>3. HookSpec => HookInit /\ [][HookNext]_hookVars
  BY PTL DEF HookSpec
<1> QED
  BY <1>1, <1>2, <1>3, DepositsSafe, PTL

(* Whatever is posted, repeated, lost or raced, and whichever SDK is in      *)
(* front: a deposit whose history has IDENTIFIED is one the eID provider     *)
(* reported VERIFIED for.                                                    *)
THEOREM IdentityHasItsEvent == HookSpec => []IdentityBackedByEvent
BY HookInvariance, PTL DEF UpdatesInv

(* An SDK that saw its update answered with 200 finds the deposit identified *)
(* and its eID status VERIFIED for as long as it looks.                      *)
THEOREM SuccessIsOnRecord == HookSpec => []OkMeansRecorded
<1>1. SafeInv /\ PayoutInv /\ HooksInv => OkMeansRecorded
  <2> SUFFICES ASSUME SafeInv, PayoutInv, HooksInv, NEW h \in Hooks,
                      hooks[h] # Nil, hooks[h].pc = "ok",
                      NEW id, id = hooks[h].event.deposit
               PROVE  Identified(id) /\ deposits[id].eid = "VERIFIED"
    BY DEF OkMeansRecorded
  <2>1. id \in Ids /\ Identified(id)
    BY DEF HooksInv, HookSound, Hook, Event
  <2>2. deposits[id] # Nil /\ "IDENTIFIED" \in Visited(id)
    BY <2>1, IdentifiedVisited
  <2> QED
    BY <2>1, <2>2 DEF PayoutInv
<1> QED
  BY <1>1, DepositsSafe, HookInvariance, PTL

(* A deposit that has left REQUESTED does not return to it. *)
LEMMA NeverBack == HookSpec => []FreshInv
<1>1. HookInit => FreshInv
  BY DEF HookInit, Init, FreshInv
<1>2. ASSUME SafeInv, SafeInv', FreshInv, [HookNext]_hookVars PROVE FreshInv'
  <2>a. [Next]_vars
    BY <1>2, DepositSteps
  <2> SUFFICES ASSUME NEW id \in Ids, deposits'[id] # Nil,
                      deposits'[id].state = "REQUESTED"
               PROVE  "IDENTIFIED" \notin Visited(id)'
    BY DEF FreshInv, Visited, History
  <2>1. CASE Preparing
    BY <1>2, <2>1, PreparingVisited DEF FreshInv
  <2>2. ASSUME NEW r \in Requests, UpdateState(r)
        PROVE  "IDENTIFIED" \notin Visited(id)'
    <3>1. PICK c \in Call, i \in Ids :
            /\ c = calls[r] /\ i = c.id /\ Shape(c)
            /\ \A j \in Ids \ {i} :
                 deposits'[j] = deposits[j] /\ Visited(j)' = Visited(j)
      BY <1>2, <2>2, CommitVisited
    <3>2. deposits'[i].state = c.to
      <4>1. PICK b \in Call, d \in Deposit : Commits(r, b, d)
        BY <1>2, <2>2, UpdateFacts
      <4>2. /\ b = c /\ Shape(c) /\ Applicable(c, d)
            /\ deposits' = [deposits EXCEPT ![i] = Written(c, d)]
        BY <3>1, <4>1 DEF Commits
      <4>3. deposits'[i] = Written(c, d)
        BY <1>2, <4>2 DEF SafeInv, TypeOK
      <4>4. Written(c, d).state = c.to
        BY <4>2, WrittenFacts
      <4> QED
        BY <4>3, <4>4
    <3>3. id # i
      BY <3>1, <3>2 DEF Shape
    <3> QED
      BY <1>2, <3>1, <3>3 DEF FreshInv
  <2> QED
    BY <1>2, <2>a, <2>1, <2>2, CommitOrPrepare
<1>3. HookSpec => HookInit /\ [][HookNext]_hookVars
  BY PTL DEF HookSpec
<1> QED
  BY <1>1, <1>2, <1>3, DepositsSafe, PTL

(* Once an identification is on record, no delivery, repeated or late,       *)
(* starts another update of that deposit.                                    *)
THEOREM RecordedUpdatesOnce == HookSpec => RecordedOnce
<1> DEFINE Step == \A id \in Ids : Identified(id) => Updating(id)' \subseteq Updating(id)
<1>1. ASSUME SafeInv, FreshInv, [HookNext]_hookVars PROVE [Step]_hookVars
  <2> SUFFICES ASSUME NEW id \in Ids, Identified(id), NEW q \in Requests,
                      calls'[q] # Nil, calls'[q].id = id,
                      calls'[q].pc = "update", calls'[q].op = "UpdateIdentity"
               PROVE  q \in Updating(id)
    BY DEF Updating
  <2>1. ~Identifiable(id)
    BY <1>1, IdentifiedVisited
    DEF FreshInv, Identifiable, CanTransition, validTransitions
  <2>2. ~UpdateState(q)
    <3> SUFFICES ASSUME UpdateState(q) PROVE FALSE
      OBVIOUS
    <3>1. /\ calls[q] \in Call
          /\ calls' = [calls EXCEPT ![q].pc = AfterUpdate(calls[q].op)]
      BY <1>1 DEF UpdateState, SafeInv, TypeOK
    <3>2. calls'[q].pc = AfterUpdate(calls[q].op)
      BY <1>1, <3>1 DEF SafeInv, TypeOK, Call
    <3> QED
      BY <3>2 DEF AfterUpdate
  <2>3. calls'[q] = calls[q]
    BY <1>1, <2>1, <2>2, UpdateOrigin
  <2> QED
    BY <2>3 DEF Updating
<1>2. HookSpec => [][HookNext]_hookVars
  BY PTL DEF HookSpec
<1> QED
  BY <1>1, <1>2, DepositsSafe, NeverBack, PTL DEF RecordedOnce

(* What an SDK answers with 200 it has told the integrator, if the outcome   *)
(* is FAILED or EXPIRED or the SDK is TypeScript's or Rust's: both happen in *)
(* one step, or onComplete comes first.                                      *)
THEOREM AnswersFollowCallbacks == HookSpec => []AcknowledgedReachesCallback
<1> DEFINE Told(e) == \/ e.status \in {"FAILED", "EXPIRED"}
                      \/ e.status = "VERIFIED" /\ sdk \in {"ts", "rust"}
<1>1. HookInit => AcknowledgedReachesCallback
  BY DEF HookInit, AcknowledgedReachesCallback
<1>2. ASSUME AcknowledgedReachesCallback, [HookNext]_hookVars
      PROVE  AcknowledgedReachesCallback'
  <2>1. ASSUME sdk' = sdk, completed \subseteq completed', NEW e,
               acked' \in {acked, acked \cup {e}}, Told(e) => e \in completed'
        PROVE  AcknowledgedReachesCallback'
    BY <1>2, <2>1 DEF AcknowledgedReachesCallback
  <2>2. ASSUME UNCHANGED <<sdk, acked, completed>> PROVE AcknowledgedReachesCallback'
    BY <1>2, <2>2 DEF AcknowledgedReachesCallback
  <2>3. ASSUME NEW h \in Hooks, HandleWebhook(h) PROVE AcknowledgedReachesCallback'
    <3>1. PICK e \in Event :
            \/ DispatchOutcome(e)
            \/ sdk = "go" /\ e.status = "VERIFIED" /\ Acknowledge(e) /\ UNCHANGED completed
            \/ UNCHANGED <<acked, completed>>
            \/ OnComplete(e) /\ Acknowledge(e)
            \/ sdk = "java" /\ e.status = "VERIFIED" /\ Acknowledge(e) /\ UNCHANGED completed
      BY <2>3 DEF HandleWebhook, GoHandleWebhook, TsHandleWebhook,
         RustHandleWebhook, JavaHandleWebhook, GoDispatch, TsDispatch,
         RustDispatch, JavaDispatchEvent
    <3>2. sdk' = sdk
      BY <2>3 DEF HandleWebhook
    <3>3. CASE UNCHANGED <<acked, completed>>
      BY <2>2, <3>2, <3>3
    <3>4. CASE OnComplete(e) /\ Acknowledge(e)
      BY <2>1, <3>2, <3>4 DEF OnComplete, Acknowledge
    <3>5. CASE Acknowledge(e) /\ UNCHANGED completed /\ ~Told(e)
      BY <2>1, <3>2, <3>5 DEF Acknowledge
    <3>6. CASE DispatchOutcome(e)
      BY <3>4, <3>5, <3>6 DEF DispatchOutcome
    <3> QED
      BY <3>1, <3>3, <3>4, <3>5, <3>6
  <2>4. ASSUME NEW h \in Hooks, Finish(h) PROVE AcknowledgedReachesCallback'
    <3>1. PICK x : x = hooks[h]
      OBVIOUS
    <3>2. /\ sdk' = sdk
          /\ \/ UNCHANGED acked /\ completed' \in {completed, completed \cup {x.event}}
             \/ OnComplete(x.event) /\ Acknowledge(x.event)
      BY <2>4, <3>1 DEF Finish, GoAfterUpdate, TsAfterUpdate, RustAfterUpdate,
                        JavaAfterUpdate, OnComplete
    <3>3. CASE OnComplete(x.event) /\ Acknowledge(x.event)
      BY <2>1, <3>2, <3>3 DEF OnComplete, Acknowledge
    <3>4. CASE UNCHANGED acked /\ completed' \in {completed, completed \cup {x.event}}
      BY <1>2, <3>2, <3>4 DEF AcknowledgedReachesCallback
    <3> QED
      BY <3>2, <3>3, <3>4
  <2>5. CASE \/ \E id \in Ids : InitiateVerification(id)
             \/ \E e \in Event : Report(e)
             \/ \E h \in Hooks : UpdateDepositKYCStatus(h) \/ CallLost(h)
             \/ \E r \in Requests : ServerStep(r) \/ Answered(r) \/ Broken(r)
             \/ Crash
    BY <2>2, <2>5
    DEF InitiateVerification, Report, UpdateDepositKYCStatus, CallLost,
        ServerStep, sdkVars, Answered, Broken, Crash
  <2> QED
    BY <1>2, <2>2, <2>3, <2>4, <2>5 DEF HookNext, hookVars
<1>3. HookSpec => HookInit /\ [][HookNext]_hookVars
  BY PTL DEF HookSpec
<1> QED
  BY <1>1, <1>2, <1>3, PTL
=============================================================================
