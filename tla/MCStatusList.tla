---------------------------- MODULE MCStatusList ----------------------------
(* Instances of StatusList for TLC. *)
EXTENDS MCIssuance, StatusList
=============================================================================
