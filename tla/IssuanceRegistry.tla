-------------------------- MODULE IssuanceRegistry --------------------------
(***************************************************************************)
(* IssuanceSessions seen as an implementation of CredentialRegistry, and   *)
(* what the repository says of issuance and the code does not do.          *)
(***************************************************************************)
EXTENDS IssuanceSessions

PublicStatus(state) ==
  CASE state = "PENDING" -> "offered"
    [] state = "CONSUMED" -> "active"
    [] state = "REVOKED" -> "revoked"

PublicEntry ==
  [deposit : Deposits, index : Nat, status : {"offered", "active", "revoked"},
   cred : Creds \cup {Nil}]

ASSUME RegistryAssumption == Nil \notin PublicEntry

(* What the outside sees of a row; tokens and expiry are not part of it. *)
Entry(row) ==
  IF row = Nil THEN Nil
  ELSE [deposit |-> row.deposit, index |-> row.index,
        status |-> PublicStatus(row.state), cred |-> row.cred]

Registry ==
  INSTANCE CredentialRegistry WITH
    None <- Nil,
    registry <- [s \in Sessions |-> Entry(sessions[s])],
    held <- {h.id : h \in held}

(* Both stores keep the promise of CredentialRegistry, however the requests  *)
(* of the bank, of the wallets and of the deposit handlers interleave.       *)
KeepsRegistry == Registry!Spec

-----------------------------------------------------------------------------
(* A claim the code does not keep *)

(* issuer_handlers.go:176, "invalid, expired, or already-used                *)
(* pre-authorized_code": a code that was exchanged is refused from then on.  *)
(* ExchangeCodeForToken looks only at the state, which stays PENDING until   *)
(* the credential is fetched, and replaces the first wallet's token.         *)
CodeUsedOnce ==
  [][\A s \in Sessions : Exists(s) /\ sessions[s].tokens # {} =>
       sessions'[s].tokens = sessions[s].tokens]_vars
=============================================================================
