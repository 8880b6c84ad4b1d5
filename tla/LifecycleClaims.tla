-------------------------- MODULE LifecycleClaims --------------------------
(***************************************************************************)
(* What the documentation and the comments of the repository say of the    *)
(* deposit API and the code does not do.  Each claim is refuted by a run.  *)
(***************************************************************************)
EXTENDS SerialLifecycle

(* LIFECYCLE.md:33, "CLOSED: Finality. No more actions possible."  A request *)
(* validated before the deposit was closed still writes its state.           *)
ClosedIsFinal ==
  [][\A id \in Ids :
       deposits[id] # Nil /\ deposits[id].state = "CLOSED" =>
         deposits'[id] = deposits[id]]_vars
=============================================================================
