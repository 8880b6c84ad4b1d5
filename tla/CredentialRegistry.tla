------------------------- MODULE CredentialRegistry -------------------------
(***************************************************************************)
(* What issuance promises a verifier, without tokens, expiry, requests or  *)
(* storage: a session is offered with a status list index of its own, its  *)
(* credential becomes active once, reaches a wallet only after that, and   *)
(* may be revoked, for good.                                               *)
(***************************************************************************)
CONSTANTS
  Sessions,  \* issuance sessions
  Deposits,  \* deposits
  None       \* no session, no credential

VARIABLES
  registry,  \* for each session its deposit, index, status and credential
  held       \* the ids of the credentials that reached a wallet

vars == <<registry, held>>

Init ==
  /\ registry = [s \in Sessions |-> None]
  /\ held = {}

Opened(s) == registry[s] # None

Others(s) == {z \in Sessions \ {s} : Opened(z)}

KeepOthers(s) == \A z \in Sessions \ {s} : registry'[z] = registry[z]

Offer(s) ==
  /\ ~Opened(s)
  /\ registry'[s] # None
  /\ registry'[s].deposit \in Deposits
  /\ registry'[s].status = "offered"
  /\ registry'[s].cred = None
  /\ \A z \in Others(s) : registry[z].index # registry'[s].index
  /\ KeepOthers(s)
  /\ UNCHANGED held

Issue(s) ==
  /\ Opened(s)
  /\ registry[s].status = "offered"
  /\ registry'[s] = [deposit |-> registry[s].deposit,
                     index |-> registry[s].index,
                     status |-> "active", cred |-> registry'[s].cred]
  /\ registry'[s].cred \notin held \cup {None}
  /\ \A z \in Others(s) : registry[z].cred # registry'[s].cred
  /\ KeepOthers(s)
  /\ UNCHANGED held

Deliver(s) ==
  /\ Opened(s)
  /\ registry[s].status \in {"active", "revoked"}
  /\ held' = held \cup {registry[s].cred}
  /\ UNCHANGED registry

Revoke(d) ==
  /\ registry' = [s \in Sessions |->
       IF Opened(s) /\ registry[s].deposit = d /\ registry[s].status = "active"
       THEN [registry[s] EXCEPT !.status = "revoked"]
       ELSE registry[s]]
  /\ UNCHANGED held

Next ==
  \/ \E s \in Sessions : Offer(s) \/ Issue(s) \/ Deliver(s)
  \/ \E d \in Deposits : Revoke(d)

Spec == Init /\ [][Next]_vars
=============================================================================
