------------------------- MODULE MCCredentialFaults -------------------------
(* Instances of CredentialFaults for TLC. *)
EXTENDS MCCredentials, CredentialFaults
=============================================================================
