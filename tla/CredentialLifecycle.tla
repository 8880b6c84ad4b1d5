------------------------- MODULE CredentialLifecycle -------------------------
(***************************************************************************)
(* Deposits and the credentials that attest their pledge: DepositLifecycle *)
(* composed with IssuanceSessions, as the one Server value of package api  *)
(* composes the repository and the session store.                          *)
(*                                                                         *)
(* They meet in two places.  IssueCredential opens a session only for a    *)
(* deposit it reads as PLEDGED; Release, SettleAccept and DisputeResolve   *)
(* revoke the deposit's credentials after their commit, in a statement of  *)
(* its own that may fail and is then only logged.                          *)
(***************************************************************************)
EXTENDS DepositLifecycle

CONSTANTS Sessions, Tokens, Creds, Workers, Store, ListSize, MaxIndex

VARIABLES sessions, nextIndex, inFlight, held

I == INSTANCE IssuanceSessions WITH Deposits <- Ids

(* The assumptions of the issuance modules: Nil differs from a session, from *)
(* a request, from what the outside sees of a session and from the ids.      *)
ASSUME CredentialAssumption ==
  /\ Store \in {"postgres", "memory"}
  /\ ListSize \in Nat
  /\ MaxIndex \in Nat
  /\ Nil \notin I!Session
  /\ Nil \notin I!Call
  /\ Nil \notin Tokens
  /\ Nil \notin Creds
  /\ Nil \notin [deposit : Ids, index : Nat,
                 status : {"offered", "active", "revoked"},
                 cred : Creds \cup {Nil}]

issuanceVars == <<sessions, nextIndex, inFlight, held>>

allVars == <<deposits, audit, calls, sessions, nextIndex, inFlight, held>>

SystemInit == Init /\ I!Init

(* Steps of the deposit handlers that leave the credentials alone. *)
DepositStep(r) ==
  /\ \/ Handle(r)
     \/ InsertHistory(r)
     \/ UpdateState(r)
     \/ DeleteVpSession(r)
     \/ Notify(r)
  /\ UNCHANGED issuanceVars

(* Mutant: the revocation is done before the commit and not after it. *)
RevokeEarly(r) ==
  /\ calls[r] # Nil
  /\ calls[r].op \in {"Release", "SettleAccept", "DisputeResolve"}
  /\ I!RevokeByDepositID(calls[r].id)
  /\ UNCHANGED vars

(* RevokeByDepositID after the commit. *)
Revoke(r) ==
  /\ RevokeCredentials(r)
  /\ I!RevokeByDepositID(calls[r].id)

(* The same with its UPDATE failing: the handler goes on. *)
RevokeFails(r) == RevokeCredentials(r) /\ UNCHANGED issuanceVars

(* The request ends early. *)
Interrupted(r) == Fail(r) /\ UNCHANGED issuanceVars

(* Mutant: the check that the deposit is PLEDGED is missing. *)
OfferToAnyone(w, d) ==
  /\ d \in KnownIds
  /\ I!IssueCredential(w, d)
  /\ UNCHANGED vars

Offer(w, d) ==
  /\ d \in KnownIds
  /\ deposits[d].state = "PLEDGED"
  /\ I!IssueCredential(w, d)
  /\ UNCHANGED vars

(* Steps of the issuance endpoints that are not about the deposit's state. *)
IssuanceStep ==
  /\ \/ \E w \in Workers :
          \/ I!CreateSession(w)
          \/ I!Credential(w)
          \/ I!ConsumeByToken(w)
          \/ I!Respond(w)
     \/ \E s \in Sessions : I!Token(s) \/ I!Expire(s)
  /\ UNCHANGED vars

IssuanceFails(w) == I!Fail(w) /\ UNCHANGED vars

(* What happens when nothing fails. *)
SmoothNext ==
  \/ \E r \in Requests : DepositStep(r) \/ Revoke(r)
  \/ \E w \in Workers, d \in Ids : Offer(w, d)
  \/ IssuanceStep

(* A statement fails or a request is cut short. *)
Failure ==
  \/ \E r \in Requests : RevokeFails(r) \/ Interrupted(r)
  \/ \E w \in Workers : IssuanceFails(w)

SystemNext == SmoothNext \/ Failure

SystemSpec == SystemInit /\ [][SystemNext]_allVars

(* A goroutine that serves a request runs until it has answered. *)
SmoothSpec ==
  /\ SystemInit
  /\ [][SmoothNext]_allVars
  /\ \A r \in Requests :
       /\ WF_allVars(UpdateState(r) /\ UNCHANGED issuanceVars)
       /\ WF_allVars(Revoke(r))
       /\ WF_allVars(Notify(r) /\ UNCHANGED issuanceVars)

-----------------------------------------------------------------------------
(* Properties *)

HasBeen(id, states) ==
  /\ deposits[id] # Nil
  /\ \E k \in 1 .. Len(History(id)) : History(id)[k].state \in states

Active(s) == I!Exists(s) /\ sessions[s].state = "CONSUMED"

Revoked(s) == I!Exists(s) /\ sessions[s].state = "REVOKED"

Over(s) ==
  I!Exists(s) /\ deposits[sessions[s].deposit].state \in {"RELEASED", "CLOSED"}

(* A credential is revoked only when its deposit was RELEASED or CLOSED      *)
(* before: no handler revokes ahead of its commit or for another deposit.    *)
RevokedOnlyWhenOver ==
  \A s \in Sessions : Revoked(s) =>
    HasBeen(sessions[s].deposit, {"RELEASED", "CLOSED"})

(* A credential in a wallet, and every offer of one, is about a deposit that *)
(* was PLEDGED, with the bank's confirmation and a verified tenant, although *)
(* the deposit is read long before the session is created.                   *)
AttestsPledge ==
  /\ \A s \in Sessions : I!Exists(s) =>
       HasBeen(sessions[s].deposit, {"PLEDGED"})
  /\ \A h \in held :
       /\ HasBeen(h.deposit, {"PLEDGED"})
       /\ deposits[h.deposit].pledged
       /\ deposits[h.deposit].eid = "VERIFIED"

-----------------------------------------------------------------------------
(* A claim the code does not keep *)

(* openapi.yaml:785, "active = pledge still in force; revoked = deposit      *)
(* released or closed": when nothing fails, a credential whose deposit is    *)
(* over does not stay active.  A wallet may fetch it after the revocation,   *)
(* and utility-settle closes a deposit without revoking anything.            *)
ActiveMeansInForce ==
  \A s \in Sessions : (Active(s) /\ Over(s)) ~> (Revoked(s) \/ ~Over(s))
=============================================================================
