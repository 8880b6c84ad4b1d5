----------------------------- MODULE MCIssuance -----------------------------
(* Instances of IssuanceSessions for TLC. *)
EXTENDS IssuanceRegistry, TLC

(* Workers, tokens, credentials, sessions and deposits are only identities. *)
Interchangeable ==
  Permutations(Workers) \cup Permutations(Tokens) \cup Permutations(Creds)
    \cup Permutations(Sessions) \cup Permutations(Deposits)
=============================================================================
