-------------------------- MODULE IssuanceSessions --------------------------
(***************************************************************************)
(* Issuing a DepositPledgeAttestation over OID4VCI: the bank opens an      *)
(* issuance session, the wallet exchanges the session's pre-authorized     *)
(* code for an access token and the token for a signed credential, and the *)
(* credential is revoked when the deposit is over.  The model covers the   *)
(* handlers of issuer_handlers.go over both session stores (PostgreSQL and *)
(* in memory), the allocator of status list indices and the two ways a     *)
(* verifier asks whether a credential is revoked.                          *)
(*                                                                         *)
(* A session, a code and an offer are one thing here: each session has one *)
(* code, made with it and never changed.  Nonces, the pledge end date and  *)
(* the disclosures are payload and left out.  A credential is its id, the  *)
(* deposit and the status list index signed into it.                       *)
(***************************************************************************)
EXTENDS Integers, FiniteSets

CONSTANTS
  Deposits,  \* deposit ids
  Sessions,  \* session ids, with their pre-authorized codes
  Tokens,    \* access tokens
  Creds,     \* credential ids
  Workers,   \* slots for requests in flight that take several steps
  Store,     \* which session store the server runs on
  ListSize,  \* StatusListSize, the number of bits of the status list
  MaxIndex,  \* bound on the number of indices handed out
  Nil        \* an absent row, an empty column, an idle slot

SessionState == {"PENDING", "CONSUMED", "REVOKED"}

(* tokens holds the access tokens that lead to the session; expired tells    *)
(* whether its 15 minutes are over.                                          *)
Session ==
  [deposit : Deposits, state : SessionState, tokens : SUBSET Tokens,
   expired : BOOLEAN, cred : Creds \cup {Nil}, index : Nat]

SignedCredential == [id : Creds, deposit : Deposits, index : Nat]

(* What a handler keeps between two calls of a store: IssueCredential the    *)
(* index it was given, Credential its token and the credential it signed.    *)
Call ==
  [pc : {"create", "consume", "respond"}, deposit : Deposits, index : Nat,
   token : Tokens \cup {Nil}, cred : Creds \cup {Nil}]

ASSUME IssuanceAssumption ==
  /\ Store \in {"postgres", "memory"}
  /\ ListSize \in Nat
  /\ MaxIndex \in Nat
  /\ Nil \notin Session
  /\ Nil \notin Call
  /\ Nil \notin Tokens
  /\ Nil \notin Creds

VARIABLES
  sessions,   \* table issuance_sessions, or the maps of the memory store
  nextIndex,  \* table status_list_counter, or the counter of the allocator
  inFlight,   \* the request each worker serves, Nil when it serves none
  held        \* the credentials that reached a wallet

vars == <<sessions, nextIndex, inFlight, held>>

Init ==
  /\ sessions = [s \in Sessions |-> Nil]
  /\ nextIndex = 0
  /\ inFlight = [w \in Workers |-> Nil]
  /\ held = {}

-----------------------------------------------------------------------------
(* Opening a session *)

(* Mutant: the counter is read and not moved on. *)
AllocateIndexTwice(w, d) ==
  /\ inFlight[w] = Nil
  /\ nextIndex < MaxIndex
  /\ inFlight' = [inFlight EXCEPT ![w] =
       [pc |-> "create", deposit |-> d, index |-> nextIndex,
        token |-> Nil, cred |-> Nil]]
  /\ UNCHANGED <<sessions, nextIndex, held>>

(* IssueCredential up to the index it gets from the allocator, one           *)
(* statement.  The handler wants a PLEDGED deposit; which deposits are is    *)
(* for the module that composes this one with the deposits.                  *)
IssueCredential(w, d) ==
  /\ inFlight[w] = Nil
  /\ nextIndex < MaxIndex
  /\ nextIndex' = nextIndex + 1
  /\ inFlight' = [inFlight EXCEPT ![w] =
       [pc |-> "create", deposit |-> d, index |-> nextIndex,
        token |-> Nil, cred |-> Nil]]
  /\ UNCHANGED <<sessions, held>>

(* Mutant: the state of a new session is left at its zero value. *)
CreateSessionWithoutState(w) ==
  /\ inFlight[w] # Nil
  /\ inFlight[w].pc = "create"
  /\ \E s \in Sessions :
       /\ sessions[s] = Nil
       /\ sessions' = [sessions EXCEPT ![s] =
            [deposit |-> inFlight[w].deposit, state |-> "",
             tokens |-> {}, expired |-> FALSE, cred |-> Nil,
             index |-> inFlight[w].index]]
  /\ inFlight' = [inFlight EXCEPT ![w] = Nil]
  /\ UNCHANGED <<nextIndex, held>>

(* The INSERT of the session; its answer tells the bank the offer. *)
CreateSession(w) ==
  /\ inFlight[w] # Nil
  /\ inFlight[w].pc = "create"
  /\ \E s \in Sessions :
       /\ sessions[s] = Nil
       /\ sessions' = [sessions EXCEPT ![s] =
            [deposit |-> inFlight[w].deposit, state |-> "PENDING",
             tokens |-> {}, expired |-> FALSE, cred |-> Nil,
             index |-> inFlight[w].index]]
  /\ inFlight' = [inFlight EXCEPT ![w] = Nil]
  /\ UNCHANGED <<nextIndex, held>>

-----------------------------------------------------------------------------
(* The wallet's side *)

Exists(s) == sessions[s] # Nil

SessionsOf(token) == {s \in Sessions : Exists(s) /\ token \in sessions[s].tokens}

(* uuid.NewString() returns a value nobody else holds. *)
FreshTokens ==
  {t \in Tokens : SessionsOf(t) = {} /\ \A w \in Workers :
                    inFlight[w] # Nil => inFlight[w].token # t}

FreshCreds ==
  {c \in Creds : /\ \A s \in Sessions : Exists(s) => sessions[s].cred # c
                 /\ \A w \in Workers : inFlight[w] # Nil => inFlight[w].cred # c
                 /\ \A h \in held : h.id # c}

(* A wallet may still use the session. *)
Usable(s) == sessions[s].state = "PENDING" /\ ~sessions[s].expired

(* The column access_token holds one token; the map byToken keeps them all. *)
WithToken(tokens, t) == IF Store = "postgres" THEN {t} ELSE tokens \cup {t}

(* Token: ExchangeCodeForToken validates the code and sets the token in one  *)
(* transaction, or under the store's mutex.                                  *)
Token(s) ==
  /\ Exists(s)
  /\ Usable(s)
  /\ \E t \in FreshTokens :
       sessions' = [sessions EXCEPT ![s].tokens = WithToken(@, t)]
  /\ UNCHANGED <<nextIndex, inFlight, held>>

(* Credential up to BuildSDJWT: look the session up, look at its expiry (not *)
(* at its state) and sign a credential for its deposit and its index.        *)
Credential(w) ==
  \E s \in Sessions, c \in FreshCreds :
    /\ inFlight[w] = Nil
    /\ Exists(s)
    /\ ~sessions[s].expired
    /\ \E t \in sessions[s].tokens :
         inFlight' = [inFlight EXCEPT ![w] =
           [pc |-> "consume", deposit |-> sessions[s].deposit,
            index |-> sessions[s].index, token |-> t, cred |-> c]]
    /\ UNCHANGED <<sessions, nextIndex, held>>

(* Mutant: ConsumeByToken forgets that the session must be PENDING. *)
ConsumeInAnyState(w, s) ==
  /\ ~sessions[s].expired
  /\ sessions' = [sessions EXCEPT ![s].state = "CONSUMED",
                                  ![s].cred = inFlight[w].cred]
  /\ inFlight' = [inFlight EXCEPT ![w].pc = "respond"]

(* Mutant: the UPDATE sets the state and forgets the credential's id. *)
ConsumeWithoutCredential(w, s) ==
  /\ Usable(s)
  /\ sessions' = [sessions EXCEPT ![s].state = "CONSUMED"]
  /\ inFlight' = [inFlight EXCEPT ![w].pc = "respond"]

(* ConsumeByToken finds its session PENDING and records the credential. *)
Consume(w, s) ==
  /\ Usable(s)
  /\ sessions' = [sessions EXCEPT ![s].state = "CONSUMED",
                                  ![s].cred = inFlight[w].cred]
  /\ inFlight' = [inFlight EXCEPT ![w].pc = "respond"]

(* ConsumeByToken finds no session for the token, or one that is no longer   *)
(* usable: 409, and the signed credential is thrown away.                    *)
Refuse(w) ==
  /\ \A s \in SessionsOf(inFlight[w].token) : ~Usable(s)
  /\ inFlight' = [inFlight EXCEPT ![w] = Nil]
  /\ UNCHANGED sessions

ConsumeByToken(w) ==
  /\ inFlight[w] # Nil
  /\ inFlight[w].pc = "consume"
  /\ \/ \E s \in SessionsOf(inFlight[w].token) : Consume(w, s)
     \/ Refuse(w)
  /\ UNCHANGED <<nextIndex, held>>

(* The credential reaches the wallet. *)
Respond(w) ==
  /\ inFlight[w] # Nil
  /\ inFlight[w].pc = "respond"
  /\ held' = held \cup
       {[id |-> inFlight[w].cred, deposit |-> inFlight[w].deposit,
         index |-> inFlight[w].index]}
  /\ inFlight' = [inFlight EXCEPT ![w] = Nil]
  /\ UNCHANGED <<sessions, nextIndex>>

-----------------------------------------------------------------------------
(* Revocation, time and failure *)

(* Mutant: the UPDATE looks for the wrong state. *)
RevokePendingOnly(d) ==
  /\ sessions' = [s \in Sessions |->
       IF Exists(s) /\ sessions[s].deposit = d /\ sessions[s].state = "PENDING"
       THEN [sessions[s] EXCEPT !.state = "REVOKED"]
       ELSE sessions[s]]
  /\ UNCHANGED <<nextIndex, inFlight, held>>

(* One UPDATE over the issued credentials of the deposit. *)
RevokeByDepositID(d) ==
  /\ sessions' = [s \in Sessions |->
       IF Exists(s) /\ sessions[s].deposit = d /\ sessions[s].state = "CONSUMED"
       THEN [sessions[s] EXCEPT !.state = "REVOKED"]
       ELSE sessions[s]]
  /\ UNCHANGED <<nextIndex, inFlight, held>>

(* The 15 minutes of a session pass. *)
Expire(s) ==
  /\ Exists(s)
  /\ sessions' = [sessions EXCEPT ![s].expired = TRUE]
  /\ UNCHANGED <<nextIndex, inFlight, held>>

(* A statement fails, the client goes away or the server stops between two   *)
(* steps of a handler: an index may be lost, a credential never delivered.   *)
Fail(w) ==
  /\ inFlight[w] # Nil
  /\ inFlight' = [inFlight EXCEPT ![w] = Nil]
  /\ UNCHANGED <<sessions, nextIndex, held>>

Work(w) ==
  \/ CreateSession(w)
  \/ Credential(w)
  \/ ConsumeByToken(w)
  \/ Respond(w)
  \/ Fail(w)

Next ==
  \/ \E w \in Workers, d \in Deposits : IssueCredential(w, d)
  \/ \E w \in Workers : Work(w)
  \/ \E s \in Sessions : Token(s) \/ Expire(s)
  \/ \E d \in Deposits : RevokeByDepositID(d)

Spec == Init /\ [][Next]_vars

-----------------------------------------------------------------------------
(* What a verifier is told *)

(* GET /v1/credentials/{id}/status *)
CredentialStatus(c) ==
  LET rows == {s \in Sessions : Exists(s) /\ sessions[s].cred = c}
  IN  IF rows = {} THEN "unknown"
      ELSE IF \E s \in rows : sessions[s].state = "REVOKED" THEN "revoked"
      ELSE "active"

RevokedStatusListIndices ==
  {sessions[s].index : s \in {s \in Sessions :
                                Exists(s) /\ sessions[s].state = "REVOKED"}}

(* Mutant: index 0 is taken for a missing one. *)
StatusListWithoutZero ==
  {i \in RevokedStatusListIndices : i > 0 /\ i < ListSize}

(* GET /v1/status-list/revocation: the bits that are set.  An index beyond   *)
(* the end of the list is skipped.                                           *)
StatusList == {i \in RevokedStatusListIndices : i >= 0 /\ i < ListSize}

-----------------------------------------------------------------------------
(* Properties *)

(* Every variable has its type. *)
TypeOK ==
  /\ sessions \in [Sessions -> Session \cup {Nil}]
  /\ nextIndex \in Nat
  /\ inFlight \in [Workers -> Call \cup {Nil}]
  /\ held \subseteq SignedCredential

(* No two sessions share a status list index, nor does a request on its way  *)
(* to create one: revoking one credential never sets the bit of another.     *)
Claimed(w) == inFlight[w] # Nil /\ inFlight[w].pc = "create"

IndicesUnique ==
  /\ \A s, z \in Sessions :
       Exists(s) /\ Exists(z) /\ sessions[s].index = sessions[z].index => s = z
  /\ \A w \in Workers, s \in Sessions :
       Claimed(w) /\ Exists(s) => inFlight[w].index # sessions[s].index
  /\ \A v, w \in Workers :
       Claimed(v) /\ Claimed(w) /\ inFlight[v].index = inFlight[w].index => v = w

(* One session yields at most one credential, although its code can be       *)
(* exchanged again and again and several requests may have signed one: the   *)
(* credentials wallets hold all carry different indices.                     *)
NoDoubleIssuance ==
  \A g, h \in held : g.index = h.index => g = h

(* Every credential in a wallet can be revoked: the store knows it, for the  *)
(* deposit and the index that were signed into it.                           *)
HeldIsRecorded ==
  \A h \in held : \E s \in Sessions :
    /\ Exists(s)
    /\ sessions[s].cred = h.id
    /\ sessions[s].deposit = h.deposit
    /\ sessions[s].index = h.index
    /\ sessions[s].state \in {"CONSUMED", "REVOKED"}

(* The status endpoint and the status list never contradict each other on a  *)
(* credential whose index the list can hold.                                 *)
StatusSourcesAgree ==
  \A h \in held : h.index < ListSize =>
    (h.index \in StatusList <=> CredentialStatus(h.id) = "revoked")

(* Revocation is for good: a REVOKED session never leaves that state, and    *)
(* neither its credential nor its index changes.                             *)
RevocationIsPermanent ==
  [][\A s \in Sessions : Exists(s) /\ sessions[s].state = "REVOKED" =>
       /\ Exists(s)'
       /\ sessions'[s].state = "REVOKED"
       /\ sessions'[s].cred = sessions[s].cred
       /\ sessions'[s].index = sessions[s].index]_vars
=============================================================================
