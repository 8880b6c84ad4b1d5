------------------------------- MODULE MCJwks -------------------------------
(* Instances of JwksCache for TLC. *)
EXTENDS JwksCache, TLC

Interchangeable == Permutations(Requests)
=============================================================================
