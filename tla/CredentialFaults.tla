-------------------------- MODULE CredentialFaults --------------------------
(***************************************************************************)
(* CredentialLifecycle with its failures, and with a memory of whether one *)
(* has happened: what is promised of revocation in the end is promised for *)
(* behaviours without a failure, and what must never happen for all.       *)
(***************************************************************************)
EXTENDS CredentialLifecycle

VARIABLE fault  \* whether a statement failed or a request was cut short

faultVars ==
  <<deposits, audit, calls, sessions, nextIndex, inFlight, held, fault>>

FaultInit == SystemInit /\ fault = FALSE

FaultNext ==
  \/ SmoothNext /\ UNCHANGED fault
  \/ Failure /\ fault' = TRUE

(* A goroutine that serves a request runs until it has answered. *)
FaultSpec ==
  /\ FaultInit
  /\ [][FaultNext]_faultVars
  /\ \A r \in Requests :
       /\ WF_faultVars(UpdateState(r) /\ UNCHANGED <<issuanceVars, fault>>)
       /\ WF_faultVars(Revoke(r) /\ UNCHANGED fault)
       /\ WF_faultVars(Notify(r) /\ UNCHANGED <<issuanceVars, fault>>)

-----------------------------------------------------------------------------
(* Properties *)

(* When nothing fails, a handler that has released or closed a deposit gets  *)
(* every credential revoked that was issued by then.                         *)
IssuedIsRevoked ==
  \A r \in Requests, s \in Sessions :
    (/\ calls[r] # Nil /\ calls[r].pc = "revoke"
     /\ Active(s) /\ sessions[s].deposit = calls[r].id)
      ~> (fault \/ Revoked(s))
=============================================================================
