---------------------------- MODULE Presentations ----------------------------
(***************************************************************************)
(* Presenting a credential over OpenID4VP: the landlord opens a VP session *)
(* for a deposit, the wallet answers it with a credential, and the answer  *)
(* is recorded in the deposit's history.  CredentialLifecycle is extended  *)
(* with the VP session store, which lives in memory, with what             *)
(* ReceiveVpResponse checks of a presentation, and with a restart of the   *)
(* server, which loses that store and the key the credentials were signed  *)
(* with.                                                                   *)
(*                                                                         *)
(* Disclosures, nonces and hashes are payload: a presentation is the       *)
(* credential it shows and the VP session it answers.                      *)
(***************************************************************************)
EXTENDS CredentialLifecycle

CONSTANT VpSessions  \* ids of VP sessions, fresh UUIDs

(* A presentation that passed VerifyVpToken. *)
Answer == [vp : VpSessions, cred : I!SignedCredential]

ASSUME PresentationAssumption == Nil \notin Answer

VARIABLES
  vpSessions,  \* verification.Store, and the ids that were never used
  answers,     \* the presentation each request is about, Nil for the others
  stale,       \* the credentials signed with a key that was lost
  shown,       \* for each commit of a presentation its VP session, its
               \* credential and its place in the deposit's history
  doubtful     \* the VP sessions that two requests answered at once, or
               \* whose answer was recorded and then refused

presentationVars == <<vpSessions, answers, stale, shown, doubtful>>

everything ==
  <<deposits, audit, calls, sessions, nextIndex, inFlight, held, vpSessions,
    answers, stale, shown, doubtful>>

(* "open" is in the map and not yet expired, "expired" in the map and past   *)
(* its ten minutes, "deleted" no longer in the map.                          *)
VpSessionState == {"unused", "open", "expired", "deleted"}

PresentationsInit ==
  /\ SystemInit
  /\ vpSessions = [v \in VpSessions |-> "unused"]
  /\ answers = [r \in Requests |-> Nil]
  /\ stale = {}
  /\ shown = {}
  /\ doubtful = {}

-----------------------------------------------------------------------------

(* CreateVpRequest wants a deposit and nothing of its state.  The deposit    *)
(* stored in the session is not read again.                                  *)
CreateVpRequest(v) ==
  /\ KnownIds # {}
  /\ vpSessions[v] = "unused"
  /\ vpSessions' = [vpSessions EXCEPT ![v] = "open"]
  /\ UNCHANGED <<answers, stale, shown, doubtful>>
  /\ UNCHANGED allVars

(* A session past its ExpiresAt stays in the map. *)
ExpireVpSession(v) ==
  /\ vpSessions[v] = "open"
  /\ vpSessions' = [vpSessions EXCEPT ![v] = "expired"]
  /\ UNCHANGED <<answers, stale, shown, doubtful>>
  /\ UNCHANGED allVars

(* Mutant: the credential may be about any deposit. *)
VerifyVpTokenForAnyDeposit(h, id) == h.id \notin stale

(* VerifyVpToken checks the issuer's signature with the key in use and the   *)
(* handler compares the deposit; neither asks whether it is revoked.         *)
VerifyVpToken(h, id) == h.id \notin stale /\ h.deposit = id

(* The VP sessions that requests under way have read from the store. *)
Answered == {answers[r].vp : r \in {q \in Requests : answers[q] # Nil}}

(* ReceiveVpResponse up to its call of UpdateState. *)
Present(r) ==
  \E v \in VpSessions, h \in held :
    /\ vpSessions[v] = "open"
    /\ ReceiveVpResponse(r)
    /\ VerifyVpToken(h, calls'[r].id)
    /\ answers' = [answers EXCEPT ![r] = [vp |-> v, cred |-> h]]
    /\ doubtful' = IF v \in Answered THEN doubtful \cup {v} ELSE doubtful
    /\ UNCHANGED <<vpSessions, stale, shown>>
    /\ UNCHANGED issuanceVars

(* Its UpdateState commits the history entry of the wallet. *)
RecordPresentation(r) ==
  /\ answers[r] # Nil
  /\ UpdateState(r)
  /\ shown' = shown \cup
       {[vp |-> answers[r].vp, cred |-> answers[r].cred,
         place |-> Len(deposits'[calls[r].id].history)]}
  /\ UNCHANGED <<vpSessions, answers, stale, doubtful>>
  /\ UNCHANGED issuanceVars

(* Mutant: the session is not deleted. *)
EndVpSessionWithoutDelete(r) ==
  /\ answers[r] # Nil
  /\ DeleteVpSession(r)
  /\ answers' = [answers EXCEPT ![r] = Nil]
  /\ UNCHANGED <<vpSessions, stale, shown, doubtful>>
  /\ UNCHANGED issuanceVars

(* "Session is single-use; delete after successful verification." *)
EndVpSession(r) ==
  /\ answers[r] # Nil
  /\ DeleteVpSession(r)
  /\ vpSessions' = [vpSessions EXCEPT ![answers[r].vp] = "deleted"]
  /\ answers' = [answers EXCEPT ![r] = Nil]
  /\ UNCHANGED <<stale, shown, doubtful>>
  /\ UNCHANGED issuanceVars

(* UpdateState returns an error, the wallet gets a 500 and the session stays *)
(* in the store: nothing was recorded, or tx.Commit lost its answer and the  *)
(* presentation is recorded all the same.                                    *)
PresentationFails(r) ==
  /\ answers[r] # Nil
  /\ Interrupted(r)
  /\ answers' = [answers EXCEPT ![r] = Nil]
  /\ doubtful' = IF calls[r].pc = "delete" THEN doubtful \cup {answers[r].vp}
                                           ELSE doubtful
  /\ UNCHANGED <<vpSessions, stale, shown>>

(* Every other step of the deposits and of issuance. *)
OtherHandle(r) ==
  \/ CreateDeposit(r)
  \/ UpdateIdentity(r)
  \/ Pledge(r)
  \/ Release(r)
  \/ Claim(r)
  \/ Settle(r)
  \/ SettleAccept(r)
  \/ Dispute(r)
  \/ DisputeResolve(r)
  \/ PartialRelease(r)
  \/ UtilitySettle(r)

OtherStep ==
  /\ \/ \E r \in Requests :
          /\ answers[r] = Nil
          /\ \/ /\ \/ OtherHandle(r)
                   \/ InsertHistory(r)
                   \/ UpdateState(r)
                   \/ Notify(r)
                /\ UNCHANGED issuanceVars
             \/ Revoke(r)
             \/ RevokeFails(r)
             \/ Interrupted(r)
     \/ \E w \in Workers, d \in Ids : Offer(w, d)
     \/ IssuanceStep
     \/ \E w \in Workers : IssuanceFails(w)
  /\ UNCHANGED presentationVars

(***************************************************************************)
(* The server stops and starts again.  PostgreSQL keeps the deposits, the  *)
(* issuance sessions and the counter; the requests in flight and the VP    *)
(* sessions are gone, and init makes a new signing key.                    *)
(***************************************************************************)
Restart ==
  /\ vpSessions' = [v \in VpSessions |->
       IF vpSessions[v] = "unused" THEN "unused" ELSE "deleted"]
  /\ stale' = stale \cup {h.id : h \in held}
  /\ calls' = [r \in Requests |-> Nil]
  /\ answers' = [r \in Requests |-> Nil]
  /\ inFlight' = [w \in Workers |-> Nil]
  /\ UNCHANGED <<deposits, audit, sessions, nextIndex, held, shown, doubtful>>

PresentationsNext ==
  \/ \E v \in VpSessions : CreateVpRequest(v) \/ ExpireVpSession(v)
  \/ \E r \in Requests :
       \/ Present(r)
       \/ RecordPresentation(r)
       \/ EndVpSession(r)
       \/ PresentationFails(r)
  \/ OtherStep
  \/ Restart

PresentationsSpec == PresentationsInit /\ [][PresentationsNext]_everything

-----------------------------------------------------------------------------
(* Properties *)

(* The wallet's entries in a deposit's history and the presentations that    *)
(* passed VerifyVpToken are the same, and each shows a credential that was   *)
(* issued for this very deposit and is on record, also across restarts.      *)
WalletEntriesBacked ==
  /\ \A id \in KnownIds : \A k \in 1 .. Len(History(id)) :
       History(id)[k].actor = "WALLET" =>
         \E p \in shown : p.cred.deposit = id /\ p.place = k
  /\ \A p \in shown :
       /\ History(p.cred.deposit)[p.place].actor = "WALLET"
       /\ \E s \in Sessions : I!Exists(s) /\ sessions[s].cred = p.cred.id
                              /\ sessions[s].deposit = p.cred.deposit

(* The history goes on after RELEASED or CLOSED. *)
WrittenBack(id) ==
  \E j, k \in 1 .. Len(History(id)) :
    /\ j < k
    /\ History(id)[j].state \in {"RELEASED", "CLOSED"}
    /\ History(id)[k].state \notin {"RELEASED", "CLOSED"}

(* A presentation is accepted only of a credential that is not revoked:      *)
(* ReceiveVpResponse never asks for the status, the check that the deposit   *)
(* is PLEDGED has to do.  The one exception is a deposit that was released   *)
(* or closed and that a request validated before then took back from there.  *)
PresentedIsActive ==
  [][\A r \in Requests : answers[r] = Nil /\ answers'[r] # Nil =>
       LET h == answers'[r].cred IN
         I!CredentialStatus(h.id) = "active"
         \/ WrittenBack(h.deposit)]_everything

(* verifier_handlers.go:167, "Session is single-use": a VP session is used   *)
(* for two recorded presentations only if two requests found it in the store *)
(* at the same time, or the wallet was told that an answer failed which had  *)
(* been recorded, and tried again.                                           *)
VpSessionSingleUse ==
  \A p, q \in shown : p.vp = q.vp => p = q \/ p.vp \in doubtful
=============================================================================
