----------------------------- MODULE EidWebhook -----------------------------
(***************************************************************************)
(* The eID flow of the SDK examples, in Go, TypeScript, Rust and Java, in  *)
(* front of the deposit API.                                               *)
(*                                                                         *)
(* An integrator opens a session at the eID provider; the provider reports *)
(* the outcome by a signed POST, which it repeats until it is answered     *)
(* with 200.  HandleWebhook checks the signature, parses the event and     *)
(* dispatches it; for VERIFIED it sends an update to the XMiete server,    *)
(* whose UpdateIdentity handler then runs as in DepositLifecycle.  The     *)
(* four SDKs differ in what they do before the update has been answered:   *)
(*                                                                         *)
(*         answers the provider      calls onComplete                      *)
(*   go    at once                   after the update, failed or not       *)
(*   ts    after onComplete          after the update, failed or not       *)
(*   rust  at once                   at once                               *)
(*   java  at once                   after the update, if it succeeded     *)
(*                                                                         *)
(* POSTs that are answered with 400 change nothing and are not steps.      *)
(***************************************************************************)
EXTENDS DepositLifecycle

CONSTANTS
  Sdks,      \* the SDKs an integrator may have built on
  Hooks,     \* slots for VERIFIED events being handled
  Outcomes,  \* the statuses the provider may report
  MaxFaults  \* bound on lost calls, failing requests and crashes

EidStatuses == {"NOT_STARTED", "PENDING", "VERIFIED", "FAILED", "EXPIRED"}

(* A status outside EidStatuses is one the provider knows and no SDK does. *)
Event == [deposit : Ids, status : Outcomes]

(* The X-Signature header: the HMAC in lower-case or in upper-case hex,      *)
(* something else, or no header.                                             *)
Signatures == {"lower", "upper", "wrong", "none"}

(* A VERIFIED event whose update is under way; slot is the server's request. *)
Hook ==
  [pc : {"send", "wait", "ok", "failed"}, event : Event,
   slot : Requests \cup {Nil}]

VARIABLES
  sdk,        \* the SDK the integrator uses
  sessions,   \* deposits with a verification session at the provider
  reported,   \* events the provider has to report
  acked,      \* those it has seen answered with 200
  hooks,      \* events being handled, Nil when the slot is free
  completed,  \* events onComplete was called with
  faults      \* how much has gone wrong so far

sdkVars == <<sdk, sessions, reported, acked, hooks, completed, faults>>

hookVars == <<deposits, audit, calls, sdk, sessions, reported, acked, hooks,
              completed, faults>>

HookInit ==
  /\ Init
  /\ sdk \in Sdks
  /\ sessions = {}
  /\ reported = {}
  /\ acked = {}
  /\ hooks = [h \in Hooks |-> Nil]
  /\ completed = {}
  /\ faults = 0

-----------------------------------------------------------------------------
(* The provider *)

(* A session answered with 201; the tenant is sent to the provider. *)
InitiateVerification(id) ==
  /\ id \in KnownIds
  /\ sessions' = sessions \cup {id}
  /\ UNCHANGED <<vars, sdk, reported, acked, hooks, completed, faults>>

(* External: the provider has something to report about a session. *)
Report(e) ==
  /\ e.deposit \in sessions
  /\ reported' = reported \cup {e}
  /\ UNCHANGED <<vars, sdk, sessions, acked, hooks, completed, faults>>

(* External: only the provider can sign, and it stops at a 200. *)
Posted(e, signature) ==
  signature \in {"lower", "upper"} => e \in reported \ acked

(* A 200 that may get lost on its way. *)
Acknowledge(e) == acked' \in {acked, acked \cup {e}}

-----------------------------------------------------------------------------
(* verifyHMAC and parseWebhookEvent *)

(* Mutant: the header has to be there and is not compared. *)
GoVerifyPresence(signature) == signature # "none"

GoVerifyHMAC(signature) == signature = "lower"

TsVerifyHmac(signature) == signature = "lower"

(* hex::decode takes both cases. *)
RustVerifyHmac(signature) == signature \in {"lower", "upper"}

JavaVerifyHmacSignature(signature) == signature = "lower"

GoParseWebhookEvent(e) == e.status \in EidStatuses

TsParseWebhookEvent(e) == e.status \in EidStatuses

JavaParseWebhookEvent(e) == e.status \in EidStatuses

-----------------------------------------------------------------------------
(* HandleWebhook and dispatch *)

Start(h, e) ==
  /\ hooks[h] = Nil
  /\ hooks' = [hooks EXCEPT ![h] = [pc |-> "send", event |-> e, slot |-> Nil]]

OnComplete(e) == completed' = completed \cup {e}

(* The branches that send no update are the same everywhere. *)
DispatchOutcome(e) ==
  /\ \/ e.status \in {"FAILED", "EXPIRED"} /\ OnComplete(e)
     \/ e.status \in {"NOT_STARTED", "PENDING"} /\ UNCHANGED completed
  /\ Acknowledge(e)
  /\ UNCHANGED hooks

GoDispatch(h, e) ==
  \/ DispatchOutcome(e)
  \/ /\ e.status = "VERIFIED"
     /\ Start(h, e)
     /\ Acknowledge(e)
     /\ UNCHANGED completed

TsDispatch(h, e) ==
  \/ DispatchOutcome(e)
  \/ /\ e.status = "VERIFIED"
     /\ Start(h, e)
     /\ UNCHANGED <<acked, completed>>

RustDispatch(h, e) ==
  \/ DispatchOutcome(e)
  \/ /\ e.status = "VERIFIED"
     /\ Start(h, e)
     /\ OnComplete(e)
     /\ Acknowledge(e)

JavaDispatchEvent(h, e) ==
  \/ DispatchOutcome(e)
  \/ /\ e.status = "VERIFIED"
     /\ Start(h, e)
     /\ Acknowledge(e)
     /\ UNCHANGED completed

GoHandleWebhook(h, e, signature) ==
  /\ sdk = "go"
  /\ GoVerifyHMAC(signature)
  /\ GoParseWebhookEvent(e)
  /\ GoDispatch(h, e)

TsHandleWebhook(h, e, signature) ==
  /\ sdk = "ts"
  /\ TsVerifyHmac(signature)
  /\ TsParseWebhookEvent(e)
  /\ TsDispatch(h, e)

(* serde refuses a status that EidStatus does not have. *)
RustHandleWebhook(h, e, signature) ==
  /\ sdk = "rust"
  /\ RustVerifyHmac(signature)
  /\ e.status \in EidStatuses
  /\ RustDispatch(h, e)

JavaHandleWebhook(h, e, signature) ==
  /\ sdk = "java"
  /\ JavaVerifyHmacSignature(signature)
  /\ JavaParseWebhookEvent(e)
  /\ JavaDispatchEvent(h, e)

HandleWebhook(h) ==
  /\ \E e \in Event, signature \in Signatures :
       /\ Posted(e, signature)
       /\ \/ GoHandleWebhook(h, e, signature)
          \/ TsHandleWebhook(h, e, signature)
          \/ RustHandleWebhook(h, e, signature)
          \/ JavaHandleWebhook(h, e, signature)
  /\ UNCHANGED <<vars, sdk, sessions, reported, faults>>

-----------------------------------------------------------------------------
(* UpdateDepositKYCStatus: the call to the server *)

Sending(h) == hooks[h] # Nil /\ hooks[h].pc = "send"

Identifiable(id) ==
  id \in KnownIds /\ CanTransition(deposits[id].state, "IDENTIFIED")

(* PATCH /deposits/{id}/identity, accepted: UpdateIdentity has validated it. *)
PatchIdentity(h, r) ==
  LET id == hooks[h].event.deposit
  IN  /\ Identifiable(id)
      /\ Submit(r, Request(id, "UpdateIdentity", "IDENTIFIED",
                           "IDENTITY_PROVIDER"))
      /\ hooks' = [hooks EXCEPT ![h].pc = "wait", ![h].slot = r]

(* The same answered with 404 or 409. *)
PatchRefused(h) ==
  /\ ~Identifiable(hooks[h].event.deposit)
  /\ hooks' = [hooks EXCEPT ![h].pc = "failed"]
  /\ UNCHANGED vars

(* Mutant: the update goes to a path the router does not have. *)
GoUpdateElsewhere(h) ==
  /\ sdk = "go"
  /\ hooks' = [hooks EXCEPT ![h].pc = "failed"]
  /\ UNCHANGED vars

GoUpdateDepositKYCStatus(h) ==
  /\ sdk = "go"
  /\ PatchRefused(h) \/ \E r \in Requests : PatchIdentity(h, r)

TsUpdateDepositKYCStatus(h) ==
  /\ sdk = "ts"
  /\ PatchRefused(h) \/ \E r \in Requests : PatchIdentity(h, r)

RustUpdateDepositKycStatus(h) ==
  /\ sdk = "rust"
  /\ PatchRefused(h) \/ \E r \in Requests : PatchIdentity(h, r)

(* POST /deposits/{id}/kyc: the router has no such route and answers 404. *)
JavaUpdateDepositKycStatus(h) ==
  /\ sdk = "java"
  /\ hooks' = [hooks EXCEPT ![h].pc = "failed"]
  /\ UNCHANGED vars

(* Mutant: UpdateIdentity accepts the update whatever the deposit's state. *)
UpdateInAnyState(h) ==
  /\ Sending(h)
  /\ \E r \in Requests :
       Submit(r, Request(hooks[h].event.deposit, "UpdateIdentity",
                         "IDENTIFIED", "IDENTITY_PROVIDER"))
         /\ hooks' = [hooks EXCEPT ![h].pc = "wait", ![h].slot = r]
  /\ UNCHANGED <<sdk, sessions, reported, acked, completed, faults>>

UpdateDepositKYCStatus(h) ==
  /\ Sending(h)
  /\ \/ GoUpdateDepositKYCStatus(h)
     \/ TsUpdateDepositKYCStatus(h)
     \/ RustUpdateDepositKycStatus(h)
     \/ JavaUpdateDepositKycStatus(h)
  /\ UNCHANGED <<sdk, sessions, reported, acked, completed, faults>>

(* Hooks that wait for the answer to the server's request r. *)
Waiting(r) ==
  {h \in Hooks : hooks[h] # Nil /\ hooks[h].pc = "wait" /\ hooks[h].slot = r}

(* The answer to request r reaches whoever still waits for it. *)
Answer(r, outcome) ==
  hooks' = [h \in Hooks |->
              IF h \in Waiting(r)
                THEN [hooks[h] EXCEPT !.pc = outcome, !.slot = Nil]
                ELSE hooks[h]]

(* UpdateIdentity answers 200. *)
Answered(r) ==
  /\ Notify(r)
  /\ Answer(r, "ok")
  /\ UNCHANGED <<sdk, sessions, reported, acked, completed, faults>>

(* Mutant: the status of the answer is not looked at. *)
BrokenTakenForSuccess(r) ==
  /\ faults < MaxFaults
  /\ faults' = faults + 1
  /\ Fail(r)
  /\ Answer(r, "ok")
  /\ UNCHANGED <<sdk, sessions, reported, acked, completed>>

(* It answers 500, or the server stops and the connection breaks. *)
Broken(r) ==
  /\ faults < MaxFaults
  /\ faults' = faults + 1
  /\ Fail(r)
  /\ Answer(r, "failed")
  /\ UNCHANGED <<sdk, sessions, reported, acked, completed>>

(* The call fails on the SDK's side, before it reaches the server or by the  *)
(* time-out of ten seconds; the server's request, if any, goes on.           *)
CallLost(h) ==
  /\ faults < MaxFaults
  /\ faults' = faults + 1
  /\ hooks[h] # Nil
  /\ hooks[h].pc \in {"send", "wait"}
  /\ hooks' = [hooks EXCEPT ![h].pc = "failed", ![h].slot = Nil]
  /\ UNCHANGED <<vars, sdk, sessions, reported, acked, completed>>

-----------------------------------------------------------------------------
(* What follows the update *)

GoAfterUpdate(hook) ==
  /\ sdk = "go"
  /\ OnComplete(hook.event)
  /\ UNCHANGED acked

(* Mutant: onComplete is called only if the update succeeded. *)
TsAfterSuccess(hook) ==
  /\ sdk = "ts"
  /\ IF hook.pc = "ok" THEN OnComplete(hook.event) ELSE UNCHANGED completed
  /\ Acknowledge(hook.event)

TsAfterUpdate(hook) ==
  /\ sdk = "ts"
  /\ OnComplete(hook.event)
  /\ Acknowledge(hook.event)

RustAfterUpdate(hook) ==
  /\ sdk = "rust"
  /\ UNCHANGED <<acked, completed>>

JavaAfterUpdate(hook) ==
  /\ sdk = "java"
  /\ IF hook.pc = "ok" THEN OnComplete(hook.event) ELSE UNCHANGED completed
  /\ UNCHANGED acked

Finish(h) ==
  /\ hooks[h] # Nil
  /\ hooks[h].pc \in {"ok", "failed"}
  /\ \/ GoAfterUpdate(hooks[h])
     \/ TsAfterUpdate(hooks[h])
     \/ RustAfterUpdate(hooks[h])
     \/ JavaAfterUpdate(hooks[h])
  /\ hooks' = [hooks EXCEPT ![h] = Nil]
  /\ UNCHANGED <<vars, sdk, sessions, reported, faults>>

(* The integrator's process stops: nothing of what it was doing is stored. *)
Crash ==
  /\ faults < MaxFaults
  /\ faults' = faults + 1
  /\ hooks' = [h \in Hooks |-> Nil]
  /\ UNCHANGED <<vars, sdk, sessions, reported, acked, completed>>

-----------------------------------------------------------------------------

(* The deposit is created, its update committed, and the bank confirms the   *)
(* pledge when it likes.                                                     *)
ServerStep(r) ==
  /\ CreateDeposit(r) \/ InsertHistory(r) \/ Pledge(r) \/ UpdateState(r)
  /\ UNCHANGED sdkVars

HookNext ==
  \/ \E id \in Ids : InitiateVerification(id)
  \/ \E e \in Event : Report(e)
  \/ \E h \in Hooks :
       \/ HandleWebhook(h)
       \/ UpdateDepositKYCStatus(h)
       \/ CallLost(h)
       \/ Finish(h)
  \/ \E r \in Requests : ServerStep(r) \/ Answered(r) \/ Broken(r)
  \/ Crash

(* Goroutines, promises and tasks run on; nothing is assumed of the provider.*)
HookSpec ==
  /\ HookInit
  /\ [][HookNext]_hookVars
  /\ \A h \in Hooks :
       WF_hookVars(UpdateDepositKYCStatus(h)) /\ WF_hookVars(Finish(h))
  /\ \A r \in Requests :
       /\ WF_hookVars(InsertHistory(r) /\ UNCHANGED sdkVars)
       /\ WF_hookVars(UpdateState(r) /\ UNCHANGED sdkVars)
       /\ WF_hookVars(Answered(r))

-----------------------------------------------------------------------------
(* Properties *)

Identifications(id) ==
  {k \in 1 .. Len(History(id)) : History(id)[k].state = "IDENTIFIED"}

Identified(id) == deposits[id] # Nil /\ Identifications(id) # {}

Updating(id) ==
  {r \in Requests : calls[r] # Nil /\ calls[r].id = id /\ calls[r].pc = "update"
                     /\ calls[r].op = "UpdateIdentity"}

(* A tenant counts as identified only if the provider reported VERIFIED for  *)
(* that deposit: whatever is posted, repeated, lost or raced, no other event *)
(* and no unsigned one gets through to the server.                           *)
IdentityBackedByEvent ==
  \A id \in Ids : Identified(id) =>
    [deposit |-> id, status |-> "VERIFIED"] \in reported

(* An SDK that sees its update succeed can rely on it: the deposit has been  *)
(* IDENTIFIED and its eID status is VERIFIED, also after a lost call of an   *)
(* earlier delivery or a later pledge.                                       *)
OkMeansRecorded ==
  \A h \in Hooks : hooks[h] # Nil /\ hooks[h].pc = "ok" =>
    LET id == hooks[h].event.deposit
    IN  Identified(id) /\ deposits[id].eid = "VERIFIED"

(* What the provider will not repeat has reached the integrator: an outcome  *)
(* FAILED or EXPIRED with every SDK, VERIFIED with the two SDKs that call    *)
(* onComplete before they answer.  A crash may come at any time.             *)
AcknowledgedReachesCallback ==
  \A e \in acked :
    \/ e.status \in {"FAILED", "EXPIRED"}
    \/ e.status = "VERIFIED" /\ sdk \in {"ts", "rust"}
    => e \in completed

(* A repeated delivery is harmless once the first has been recorded: it      *)
(* never starts another update, so it cannot pull a pledged deposit back.    *)
(* (Updates already on their way when the first is recorded can.)            *)
RecordedOnce ==
  [][\A id \in Ids : Identified(id) => Updating(id)' \subseteq Updating(id)]_hookVars

(* When nothing fails, a VERIFIED event an SDK has accepted ends with the    *)
(* deposit identified.  Java's update goes to a path the server lacks.       *)
AcceptedIsRecorded ==
  \A h \in Hooks, id \in Ids :
    (/\ hooks[h] # Nil
     /\ hooks[h].event.deposit = id
     /\ sdk # "java")
      ~> (Identified(id) \/ faults > 0)
=============================================================================
