----------------------------- MODULE JwksProofs -----------------------------
(***************************************************************************)
(* The properties of JwksCache hold for every set of keys and requests,    *)
(* every TTL and every bound on the latency and on the clock.              *)
(*                                                                         *)
(* The inductive invariant says of the cache, and of each answer on its    *)
(* way to the cache, from when it is: an answer is at least as recent as   *)
(* the fetch that asked for it, and the cache is at least as recent as     *)
(* fetchedAt minus the time a fetch takes.  Replacing a newer answer by an *)
(* older one that took long keeps that bound, which is why staleness does  *)
(* not add up.                                                             *)
(***************************************************************************)
EXTENDS JwksCache, TLAPS

(* set tells what the issuer published at some moment not before t: what it  *)
(* has was not withdrawn before t, what it lacks was published since.        *)
AsRecentAs(set, t) ==
  /\ \A k \in set : k \in published \/ withdrawn[k] >= t
  /\ \A k \in (published \cap Supported) \ set : since[k] >= t

CacheIsRecent ==
  /\ fetchedAt <= now
  /\ keys # Nil => AsRecentAs(keys, fetchedAt - MaxLatency)

(* A fetch was sent after its request began and not long ago. *)
FetchIsShort(c) ==
  /\ c.start <= c.sent
  /\ c.sent <= now
  /\ now - c.sent <= MaxLatency

(* What holds of a request in flight, depending on how far it is.  One that  *)
(* looks a second time finds a cache filled after it began.                  *)
Sound(c) ==
  /\ c.start <= now
  /\ c.pc = "fetch" => FetchIsShort(c)
  /\ c.pc = "store" => FetchIsShort(c) /\ AsRecentAs(c.set, c.sent)
  /\ c.pc = "look" => keys # Nil /\ c.start <= fetchedAt
  /\ c.pc = "accepted" =>
       c.kid \in published \/ withdrawn[c.kid] > c.start - TTL - MaxLatency
  /\ c.pc = "refused" =>
       c.kid \notin published \cap Supported
         \/ since[c.kid] >= c.start - MaxLatency

IInv ==
  /\ TypeOK
  /\ CacheIsRecent
  /\ \A r \in Requests : calls[r] # Nil => Sound(calls[r])

-----------------------------------------------------------------------------

(* Before the first request the invariant holds. *)
LEMMA InitIInv == Init => IInv
<1> SUFFICES ASSUME Init PROVE IInv
  OBVIOUS
<1>1. TypeOK
  BY JwksAssumption DEF Init, TypeOK, LongAgo
<1>2. CacheIsRecent
  BY DEF Init, CacheIsRecent
<1>3. \A r \in Requests : calls[r] = Nil
  BY DEF Init
<1> QED
  BY <1>1, <1>2, <1>3 DEF IInv

(* What the issuer does never makes a key set less recent: a key it adds is  *)
(* added now, a key it removes is removed now.                               *)
LEMMA IssuerStep ==
  ASSUME IInv, NEW k \in Kids, Publish(k) \/ Withdraw(k)
  PROVE  IInv'
<1> USE JwksAssumption
<1>0. UNCHANGED <<now, keys, fetchedAt, calls>>
  BY DEF Publish, Withdraw
<1>1. TypeOK /\ TypeOK'
  BY DEF IInv, TypeOK, Publish, Withdraw
<1>2. CacheIsRecent'
  <2>1. SUFFICES ASSUME keys # Nil
                 PROVE  AsRecentAs(keys, fetchedAt - MaxLatency)'
    BY <1>0 DEF CacheIsRecent, IInv
  <2>2. AsRecentAs(keys, fetchedAt - MaxLatency) /\ fetchedAt <= now
    BY <2>1 DEF IInv, CacheIsRecent
  <2>3. keys \in SUBSET Kids /\ fetchedAt - MaxLatency \in Int
        /\ fetchedAt - MaxLatency <= now
    BY <1>1, <2>1, <2>2 DEF TypeOK
  <2> QED
    BY <1>0, <1>1, <2>2, <2>3 DEF AsRecentAs, Publish, Withdraw, TypeOK
<1>3. ASSUME NEW r \in Requests, calls[r] # Nil
      PROVE  Sound(calls[r])'
  <2>1. PICK c \in Call : c = calls[r] /\ Sound(c) /\ calls'[r] = c
    BY <1>0, <1>1, <1>3 DEF IInv, TypeOK
  <2>2. /\ c.kid \in Kids /\ c.start \in Nat /\ c.sent \in Nat
        /\ c.set \in SUBSET Kids /\ c.start <= now
    BY <2>1 DEF Call, Sound
  <2>3. (c.pc = "fetch" => FetchIsShort(c)')
        /\ (c.pc = "look" => keys' # Nil /\ c.start <= fetchedAt')
    BY <1>0, <2>1 DEF Sound, FetchIsShort
  <2>4. ASSUME c.pc = "store"
        PROVE  FetchIsShort(c)' /\ AsRecentAs(c.set, c.sent)'
    <3>1. FetchIsShort(c) /\ AsRecentAs(c.set, c.sent)
      BY <2>1, <2>4 DEF Sound
    <3>2. FetchIsShort(c)' /\ c.sent <= now
      BY <1>0, <3>1 DEF FetchIsShort
    <3>3. AsRecentAs(c.set, c.sent)'
      BY <1>1, <2>2, <3>1, <3>2 DEF AsRecentAs, Publish, Withdraw, TypeOK
    <3> QED
      BY <3>2, <3>3
  <2>5. ASSUME c.pc = "accepted"
        PROVE  \/ c.kid \in published'
               \/ withdrawn'[c.kid] > c.start - TTL - MaxLatency
    BY <1>1, <2>1, <2>2, <2>5 DEF Sound, Publish, Withdraw, TypeOK
  <2>6. ASSUME c.pc = "refused"
        PROVE  \/ c.kid \notin published' \cap Supported
               \/ since'[c.kid] >= c.start - MaxLatency
    BY <1>1, <2>1, <2>2, <2>6 DEF Sound, Publish, Withdraw, TypeOK
  <2> QED
    BY <1>0, <2>1, <2>2, <2>3, <2>4, <2>5, <2>6 DEF Sound
<1> QED
  BY <1>0, <1>1, <1>2, <1>3 DEF IInv

(* The clock moves on only while no fetch has used up its time. *)
LEMMA TickStep ==
  ASSUME IInv, Tick
  PROVE  IInv'
<1> USE JwksAssumption
<1>0. now' = now + 1 /\ now \in Nat /\ fetchedAt \in Nat
      /\ UNCHANGED <<published, since, withdrawn, keys, fetchedAt, calls>>
  BY DEF Tick, IInv, TypeOK
<1>1. TypeOK'
  BY <1>0 DEF IInv, TypeOK
<1>2. CacheIsRecent'
  BY <1>0 DEF IInv, CacheIsRecent, AsRecentAs
<1>3. ASSUME NEW r \in Requests, calls[r] # Nil
      PROVE  Sound(calls[r])'
  <2>1. PICK c \in Call : c = calls[r] /\ Sound(c) /\ calls'[r] = c
    BY <1>0, <1>3 DEF IInv, TypeOK
  <2>2. c.start \in Nat /\ c.sent \in Nat /\ c.start <= now
    BY <2>1 DEF Call, Sound
  <2>3. c.pc \in {"fetch", "store"} => now - c.sent < MaxLatency
    BY <1>3, <2>1 DEF Tick
  <2>4. ASSUME c.pc \in {"fetch", "store"} PROVE FetchIsShort(c)'
    <3>1. FetchIsShort(c)
      BY <2>1, <2>4 DEF Sound
    <3> QED
      BY <1>0, <2>2, <2>3, <2>4, <3>1 DEF FetchIsShort
  <2> QED
    BY <1>0, <2>1, <2>2, <2>4 DEF Sound, AsRecentAs
<1> QED
  BY <1>0, <1>1, <1>2, <1>3 DEF IInv

(***************************************************************************)
(* The steps of a request change its own record only, and never what the   *)
(* issuer publishes or the clock.  For those that leave the cache alone as *)
(* well it is enough that the new record is sound.                         *)
(***************************************************************************)
LEMMA RequestStep ==
  ASSUME IInv, NEW r \in Requests, NEW c \in Call \cup {Nil},
         calls' = [calls EXCEPT ![r] = c],
         UNCHANGED <<now, published, since, withdrawn, keys, fetchedAt>>,
         c # Nil => Sound(c)
  PROVE  IInv'
<1>0. calls'[r] = c /\ \A q \in Requests \ {r} : calls'[q] = calls[q]
  BY DEF IInv, TypeOK
<1>1. TypeOK'
  BY DEF IInv, TypeOK
<1>2. CacheIsRecent'
  BY DEF IInv, CacheIsRecent, AsRecentAs
<1>3. ASSUME NEW q \in Requests, calls'[q] # Nil
      PROVE  Sound(calls[q])'
  <2>1. Sound(calls'[q])
    BY <1>0, <1>3 DEF IInv
  <2> QED
    BY <2>1 DEF Sound, FetchIsShort, AsRecentAs
<1> QED
  BY <1>1, <1>2, <1>3 DEF IInv

(* A first look-up: a hit in a fresh cache is recent enough. *)
LEMMA KeyFuncStep ==
  ASSUME IInv, NEW r \in Requests, NEW k \in Kids, KeyFunc(r, k)
  PROVE  IInv'
<1> USE JwksAssumption
<1> DEFINE hit == Fresh /\ k \in keys
           c == [pc |-> IF hit THEN "accepted" ELSE "fetch",
                 kid |-> k, start |-> now, sent |-> now, set |-> {}]
<1>1. /\ calls' = [calls EXCEPT ![r] = c]
      /\ UNCHANGED <<now, published, since, withdrawn, keys, fetchedAt>>
  BY DEF KeyFunc
<1>2. now \in Nat /\ c \in Call
  BY DEF IInv, TypeOK, Call
<1>3. /\ c.kid = k /\ c.start = now /\ c.sent = now
      /\ c.pc \in {"accepted", "fetch"}
      /\ c.pc = "accepted" => hit
  OBVIOUS
<1>4. ASSUME hit
      PROVE  k \in published \/ withdrawn[k] > now - TTL - MaxLatency
  <2>1. now - fetchedAt < TTL /\ keys # Nil /\ k \in keys
    BY <1>4 DEF Fresh
  <2>2. k \in published \/ withdrawn[k] >= fetchedAt - MaxLatency
    BY <2>1 DEF IInv, CacheIsRecent, AsRecentAs
  <2>3. fetchedAt \in Nat /\ withdrawn[k] \in Int
    BY DEF IInv, TypeOK
  <2> QED
    BY <1>2, <2>1, <2>2, <2>3
<1> HIDE DEF c, hit
<1>5. Sound(c)
  BY <1>2, <1>3, <1>4 DEF Sound, FetchIsShort
<1> QED
  BY <1>1, <1>2, <1>5, RequestStep

(* An answer is as recent as its fetch: it tells what is published now. *)
LEMMA AnswerStep ==
  ASSUME IInv, NEW r \in Requests, Answer(r)
  PROVE  IInv'
<1> DEFINE c == [calls[r] EXCEPT !.pc = "store", !.set = published]
<1>1. /\ calls' = [calls EXCEPT ![r] = c]
      /\ UNCHANGED <<now, published, since, withdrawn, keys, fetchedAt>>
  BY DEF Answer
<1>2. calls[r] \in Call /\ calls[r].pc = "fetch" /\ Sound(calls[r])
  BY DEF Answer, IInv, TypeOK
<1>3. /\ c \in Call
      /\ c.pc = "store" /\ c.set = published
      /\ c.start = calls[r].start /\ c.sent = calls[r].sent
  BY <1>2 DEF IInv, TypeOK, Call
<1>4. AsRecentAs(published, calls[r].sent)
  BY DEF AsRecentAs
<1> HIDE DEF c
<1>5. Sound(c)
  BY <1>2, <1>3, <1>4 DEF Sound, FetchIsShort
<1> QED
  BY <1>1, <1>3, <1>5, RequestStep

(* A fetch that fails ends the request and leaves the cache as it is. *)
LEMMA RefreshFailsStep ==
  ASSUME IInv, NEW r \in Requests, RefreshFails(r)
  PROVE  IInv'
<1> DEFINE c == [calls[r] EXCEPT !.pc = "error"]
<1>1. /\ calls' = [calls EXCEPT ![r] = c]
      /\ UNCHANGED <<now, published, since, withdrawn, keys, fetchedAt>>
  BY DEF RefreshFails, Goto
<1>2. calls[r] \in Call /\ Sound(calls[r])
  BY DEF RefreshFails, IInv, TypeOK
<1>3. c \in Call /\ c.pc = "error" /\ c.start = calls[r].start
  BY <1>2 DEF Call
<1> HIDE DEF c
<1>4. Sound(c)
  BY <1>2, <1>3 DEF Sound
<1> QED
  BY <1>1, <1>3, <1>4, RequestStep

(* The answer that replaces the cache was fetched within MaxLatency, so the  *)
(* cache is as recent as before relative to its new time; requests about to  *)
(* look again still find a cache newer than themselves.                      *)
LEMMA StoreStep ==
  ASSUME IInv, NEW r \in Requests, Store(r)
  PROVE  IInv'
<1> USE JwksAssumption
<1>1. /\ keys' = calls[r].set \cap Supported
      /\ fetchedAt' = now
      /\ calls' = [calls EXCEPT ![r].pc = "look"]
      /\ UNCHANGED <<now, published, since, withdrawn>>
  BY DEF Store, Decoded
<1>2. PICK c \in Call : c = calls[r] /\ c.pc = "store" /\ Sound(c)
  BY DEF Store, Decoded, IInv, TypeOK
<1>3. /\ FetchIsShort(c) /\ AsRecentAs(c.set, c.sent)
      /\ c.sent \in Nat /\ c.start <= now /\ c.set \in SUBSET Kids
  BY <1>2 DEF Sound, Call
<1>4. TypeOK /\ keys' # Nil /\ keys' \subseteq Kids
  BY <1>1, <1>2, <1>3 DEF IInv
<1>5. TypeOK'
  <2>1. [calls[r] EXCEPT !.pc = "look"] \in Call
    BY <1>2 DEF Call
  <2> QED
    BY <1>1, <1>4, <2>1 DEF TypeOK
<1>6. CacheIsRecent'
  <2>1. now - MaxLatency <= c.sent /\ now \in Nat
    BY <1>3, <1>4 DEF FetchIsShort, TypeOK
  <2>2. \A k \in c.set \cap Supported :
          k \in published \/ withdrawn[k] >= now - MaxLatency
    BY <1>3, <1>4, <2>1 DEF AsRecentAs, TypeOK
  <2>3. \A k \in (published \cap Supported) \ (c.set \cap Supported) :
          since[k] >= now - MaxLatency
    BY <1>3, <1>4, <2>1 DEF AsRecentAs, TypeOK
  <2> QED
    BY <1>1, <1>2, <2>1, <2>2, <2>3 DEF CacheIsRecent, AsRecentAs
<1>7. ASSUME NEW q \in Requests, calls'[q] # Nil
      PROVE  Sound(calls[q])'
  <2>1. CASE q = r
    <3>1. calls'[q].pc = "look" /\ calls'[q].start = c.start
      BY <1>1, <1>2, <1>4, <2>1 DEF TypeOK, Call
    <3> QED
      BY <1>1, <1>3, <1>4, <3>1 DEF Sound
  <2>2. CASE q # r
    <3>1. PICK d \in Call : calls'[q] = d /\ d = calls[q] /\ Sound(d)
      BY <1>1, <1>4, <1>7, <2>2 DEF TypeOK, IInv
    <3>2. d.start \in Nat /\ now \in Nat
      BY <1>4 DEF Call, TypeOK
    <3>3. d.pc = "look" => keys' # Nil /\ d.start <= fetchedAt'
      BY <1>1, <1>4, <3>1 DEF Sound
    <3> QED
      BY <1>1, <3>1, <3>3 DEF Sound, FetchIsShort, AsRecentAs
  <2> QED
    BY <2>1, <2>2
<1> QED
  BY <1>5, <1>6, <1>7 DEF IInv

(* A second look-up uses a cache that is newer than the request. *)
LEMMA LookStep ==
  ASSUME IInv, NEW r \in Requests, Look(r)
  PROVE  IInv'
<1> USE JwksAssumption
<1> DEFINE pc == IF calls[r].kid \in keys THEN "accepted" ELSE "refused"
           c == [calls[r] EXCEPT !.pc = pc]
<1>1. /\ calls' = [calls EXCEPT ![r] = c]
      /\ UNCHANGED <<now, published, since, withdrawn, keys, fetchedAt>>
  BY DEF Look, Goto
<1>2. TypeOK /\ calls[r] \in Call /\ calls[r].pc = "look" /\ Sound(calls[r])
  BY DEF Look, IInv, TypeOK
<1>3. /\ c \in Call /\ c.start = calls[r].start /\ c.kid = calls[r].kid
      /\ c.pc \in {"accepted", "refused"}
      /\ c.pc = "accepted" => c.kid \in keys
      /\ c.pc = "refused" => c.kid \notin keys
  BY <1>2 DEF Call
<1> HIDE DEF c
<1>4. /\ c.kid \in Kids /\ c.start \in Nat /\ c.start <= now
      /\ keys # Nil /\ c.start <= fetchedAt
  BY <1>2, <1>3 DEF Call, Sound
<1>5. AsRecentAs(keys, fetchedAt - MaxLatency)
  BY <1>4 DEF IInv, CacheIsRecent
<1>6. ASSUME c.kid \in keys
      PROVE  \/ c.kid \in published
             \/ withdrawn[c.kid] > c.start - TTL - MaxLatency
  BY <1>2, <1>4, <1>5, <1>6 DEF AsRecentAs, TypeOK
<1>7. ASSUME c.kid \notin keys
      PROVE  \/ c.kid \notin published \cap Supported
             \/ since[c.kid] >= c.start - MaxLatency
  BY <1>2, <1>4, <1>5, <1>7 DEF AsRecentAs, TypeOK
<1>8. Sound(c)
  BY <1>3, <1>4, <1>6, <1>7 DEF Sound
<1> QED
  BY <1>1, <1>3, <1>8, RequestStep

(* A request that is answered leaves nothing behind. *)
LEMMA FinishStep ==
  ASSUME IInv, NEW r \in Requests, Finish(r)
  PROVE  IInv'
<1>1. /\ calls' = [calls EXCEPT ![r] = Nil]
      /\ UNCHANGED <<now, published, since, withdrawn, keys, fetchedAt>>
  BY DEF Finish
<1> QED
  BY <1>1, RequestStep

(* Every step preserves the invariant. *)
LEMMA NextIInv == IInv /\ [Next]_vars => IInv'
<1> SUFFICES ASSUME IInv, [Next]_vars PROVE IInv'
  OBVIOUS
<1>1. CASE UNCHANGED vars
  BY <1>1 DEF vars, IInv, TypeOK, CacheIsRecent, Sound, FetchIsShort, AsRecentAs
<1>2. CASE \E k \in Kids : Publish(k) \/ Withdraw(k)
  BY <1>2, IssuerStep
<1>3. CASE Tick
  BY <1>3, TickStep
<1>4. CASE \E r \in Requests, k \in Kids : KeyFunc(r, k)
  BY <1>4, KeyFuncStep
<1>5. CASE \E r \in Requests : Continue(r)
  BY <1>5, AnswerStep, RefreshFailsStep, StoreStep, LookStep, FinishStep
     DEF Continue
<1> QED
  BY <1>1, <1>2, <1>3, <1>4, <1>5 DEF Next

(* The invariant holds in every reachable state. *)
THEOREM JwksInvariant == Spec => []IInv
<1> QED
  BY InitIInv, NextIInv, PTL DEF Spec

(* For every TTL and latency, a withdrawn key is accepted for less than the  *)
(* TTL and the time of one fetch, however refreshes overlap.                 *)
THEOREM WithdrawnKeysAlwaysExpire == Spec => []WithdrawnKeysExpire
<1>1. IInv => WithdrawnKeysExpire
  BY DEF IInv, Sound, WithdrawnKeysExpire
<1> QED
  BY <1>1, JwksInvariant, PTL

(* For every TTL and latency, a supported key that was published before any  *)
(* fetch a request can depend on is found by it, unless a fetch fails.       *)
THEOREM SettledKeyIsAlwaysFound == Spec => []SettledKeyIsFound
<1>1. IInv => SettledKeyIsFound
  BY DEF IInv, Sound, SettledKeyIsFound
<1> QED
  BY <1>1, JwksInvariant, PTL
=============================================================================
