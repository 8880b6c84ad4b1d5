------------------------------ MODULE JwksCache ------------------------------
(***************************************************************************)
(* The cache of the issuer's public keys behind JWKSMiddleware.  Requests  *)
(* run concurrently: each looks its key up under the read lock, fetches    *)
(* the key set over HTTP without any lock when it does not find the key or *)
(* the cache is too old, replaces the whole cache under the write lock and *)
(* looks again.  Meanwhile the issuer publishes and withdraws keys, so     *)
(* answers of different age may arrive in any order.                       *)
(*                                                                         *)
(* A key is its kid.  Time is a clock that counts some unit; the signature *)
(* check with the key that is found is the library's.                      *)
(***************************************************************************)
EXTENDS Integers

CONSTANTS
  Kids,        \* key ids
  Supported,   \* the keys jwkKey.publicKey can decode
  Requests,    \* slots for requests in flight
  TTL,         \* five minutes
  MaxLatency,  \* bound on the time a fetch takes
  MaxTime,     \* bound on the clock
  Nil          \* Go's nil map, an idle slot

(* The issuer's keys changed last before anybody can remember. *)
LongAgo == 0 - (TTL + MaxLatency + 1)

Call ==
  [pc : {"fetch", "store", "look", "accepted", "refused", "error"}, kid : Kids,
   start : Nat, sent : Nat, set : SUBSET Kids]

ASSUME JwksAssumption ==
  /\ Supported \subseteq Kids
  /\ TTL \in Nat \ {0}
  /\ MaxLatency \in Nat
  /\ MaxTime \in Nat
  /\ Nil \notin Call
  /\ \A set \in SUBSET Kids : set # Nil

VARIABLES
  now,        \* the clock
  published,  \* the key set the issuer's endpoint serves
  since,      \* when each key was published last
  withdrawn,  \* when each key was withdrawn last
  keys,       \* c.keys
  fetchedAt,  \* c.fetchedAt
  calls       \* the request each slot serves

vars == <<now, published, since, withdrawn, keys, fetchedAt, calls>>

Init ==
  /\ now = 0
  /\ published \in SUBSET Kids
  /\ since = [k \in Kids |-> LongAgo]
  /\ withdrawn = [k \in Kids |-> LongAgo]
  /\ keys = Nil
  /\ fetchedAt = 0
  /\ calls = [r \in Requests |-> Nil]

-----------------------------------------------------------------------------
(* The issuer and the clock *)

Publish(k) ==
  /\ k \notin published
  /\ published' = published \cup {k}
  /\ since' = [since EXCEPT ![k] = now]
  /\ UNCHANGED <<now, withdrawn, keys, fetchedAt, calls>>

Withdraw(k) ==
  /\ k \in published
  /\ published' = published \ {k}
  /\ withdrawn' = [withdrawn EXCEPT ![k] = now]
  /\ UNCHANGED <<now, since, keys, fetchedAt, calls>>

(* A fetch is answered, or fails, within MaxLatency. *)
Tick ==
  /\ now < MaxTime
  /\ \A r \in Requests :
       calls[r] # Nil /\ calls[r].pc \in {"fetch", "store"} =>
         now - calls[r].sent < MaxLatency
  /\ now' = now + 1
  /\ UNCHANGED <<published, since, withdrawn, keys, fetchedAt, calls>>

-----------------------------------------------------------------------------
(* keyFunc and refresh *)

(* Mutant: a cache that is exactly TTL old still counts. *)
FreshForTooLong == keys # Nil /\ now - fetchedAt <= TTL

Fresh == keys # Nil /\ now - fetchedAt < TTL

Goto(r, pc) ==
  /\ calls' = [calls EXCEPT ![r].pc = pc]
  /\ UNCHANGED <<now, published, since, withdrawn, keys, fetchedAt>>

(* Mutant: a key that is not in a fresh cache is refused at once. *)
KeyFuncWithoutRefresh(r, k) ==
  /\ calls[r] = Nil
  /\ calls' = [calls EXCEPT ![r] =
       [pc |-> IF ~Fresh THEN "fetch"
               ELSE IF k \in keys THEN "accepted" ELSE "refused",
        kid |-> k, start |-> now, sent |-> now, set |-> {}]]
  /\ UNCHANGED <<now, published, since, withdrawn, keys, fetchedAt>>

(* A token with header kid = k arrives: the first look-up. *)
KeyFunc(r, k) ==
  /\ calls[r] = Nil
  /\ calls' = [calls EXCEPT ![r] =
       [pc |-> IF Fresh /\ k \in keys THEN "accepted" ELSE "fetch",
        kid |-> k, start |-> now, sent |-> now, set |-> {}]]
  /\ UNCHANGED <<now, published, since, withdrawn, keys, fetchedAt>>

(* The endpoint answers with the keys it publishes at that moment. *)
Answer(r) ==
  /\ calls[r] # Nil
  /\ calls[r].pc = "fetch"
  /\ calls' = [calls EXCEPT ![r].pc = "store", ![r].set = published]
  /\ UNCHANGED <<now, published, since, withdrawn, keys, fetchedAt>>

(* http.Get fails, the status is not 200 or the body is not JSON: the        *)
(* request is refused and the cache stays as it is.                          *)
RefreshFails(r) ==
  /\ calls[r] # Nil
  /\ calls[r].pc \in {"fetch", "store"}
  /\ Goto(r, "error")

(* The keys of an answer that end up in the cache: one that cannot be decoded *)
(* (unknown type or curve, malformed coordinate) is skipped.                  *)
Decoded(set) == set \cap Supported

(* The answer replaces the cache, whatever has been stored meanwhile. *)
Store(r) ==
  /\ calls[r] # Nil
  /\ calls[r].pc = "store"
  /\ keys' = Decoded(calls[r].set)
  /\ fetchedAt' = now
  /\ calls' = [calls EXCEPT ![r].pc = "look"]
  /\ UNCHANGED <<now, published, since, withdrawn>>

(* The second look-up, in a cache another request may have replaced. *)
Look(r) ==
  /\ calls[r] # Nil
  /\ calls[r].pc = "look"
  /\ Goto(r, IF calls[r].kid \in keys THEN "accepted" ELSE "refused")

(* The middleware passes the request on or answers 401. *)
Finish(r) ==
  /\ calls[r] # Nil
  /\ calls[r].pc \in {"accepted", "refused", "error"}
  /\ calls' = [calls EXCEPT ![r] = Nil]
  /\ UNCHANGED <<now, published, since, withdrawn, keys, fetchedAt>>

Continue(r) ==
  \/ Answer(r)
  \/ RefreshFails(r)
  \/ Store(r)
  \/ Look(r)
  \/ Finish(r)

Next ==
  \/ \E k \in Kids : Publish(k) \/ Withdraw(k)
  \/ Tick
  \/ \E r \in Requests, k \in Kids : KeyFunc(r, k)
  \/ \E r \in Requests : Continue(r)

Spec == Init /\ [][Next]_vars

-----------------------------------------------------------------------------
(* Properties *)

(* Every variable has its type. *)
TypeOK ==
  /\ now \in Nat
  /\ published \subseteq Kids
  /\ since \in [Kids -> Int]
  /\ withdrawn \in [Kids -> Int]
  /\ keys = Nil \/ keys \subseteq Kids
  /\ fetchedAt \in Nat
  /\ calls \in [Requests -> Call \cup {Nil}]

(* A key the issuer has withdrawn is accepted for less than the TTL and the  *)
(* time of one fetch, counted to the request that uses it: however late an   *)
(* old answer arrives and whichever newer one it replaces, staleness never   *)
(* adds up.                                                                  *)
WithdrawnKeysExpire ==
  \A r \in Requests : calls[r] # Nil /\ calls[r].pc = "accepted" =>
    \/ calls[r].kid \in published
    \/ withdrawn[calls[r].kid] > calls[r].start - TTL - MaxLatency

(* A key the issuer published well before the request, and still publishes,  *)
(* is never answered with "no key found": neither the cache nor a concurrent *)
(* refresh with an older answer can hide it.                                 *)
SettledKeyIsFound ==
  \A r \in Requests : calls[r] # Nil /\ calls[r].pc = "refused" =>
    \/ calls[r].kid \notin published \cap Supported
    \/ since[calls[r].kid] >= calls[r].start - MaxLatency
=============================================================================
