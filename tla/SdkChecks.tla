------------------------------ MODULE SdkChecks ------------------------------
(***************************************************************************)
(* A verifier at work, in any of its five implementations: it sends a      *)
(* wallet a request, the wallet's answer comes back, and some time later   *)
(* the verifier decides; or an API client presents an access token, and    *)
(* an SDK decides.  The answers are those of a wallet that follows the     *)
(* request and of wallets that depart from it in one respect.              *)
(***************************************************************************)
EXTENDS VpCheck, TokenCheck, FiniteSets

CONSTANTS
  Credentials,   \* the issuer JWTs wallets hold
  Stray,         \* a disclosure that belongs to no credential
  Skews,         \* how far a wallet's clock may be off, in seconds
  AccessTokens,  \* the access tokens clients hold
  ApiScopes,     \* the scopes an endpoint may require
  MaxTime        \* bound on the clock, in half seconds

Disclosures ==
  [kind : {"disclosure"}, name : STRING, salt : STRING, size : Nat]

Credential ==
  [signature : {"current", "other", "missing"}, vct : BOOLEAN, exp : Int,
   complete : BOOLEAN, sd : SUBSET Disclosures]

KbJwt ==
  [kind : {"kb"}, typ : {"kb+jwt", "jwt"}, nonce : {"fresh", "earlier"},
   aud : {"ours", "theirs"}, list : BOOLEAN, jws : BOOLEAN,
   hash : Credential \X Seq(Disclosures), iat : Int, fraction : BOOLEAN]

AccessToken ==
  [parts : Nat, signed : BOOLEAN, sub : {Absent} \cup STRING,
   iss : {Absent, Issuer} \cup STRING, scope : {Absent} \cup Seq(STRING),
   exp : Int, nbf : Int]

ASSUME SdkAssumption ==
  /\ MaxAge \in Nat /\ MaxSkew \in Nat /\ MaxTime \in Nat
  /\ \A c \in Credentials : c \in Credential /\ IsFiniteSet(c.sd)
  /\ Stray \in Disclosures
  /\ Skews \subseteq Int
  /\ AccessTokens \subseteq AccessToken
  /\ None \notin BOOLEAN \cup Disclosures \cup KbJwt
  /\ Absent \notin Seq(STRING)

VARIABLES
  now,      \* half seconds since the wallet or the client sent its token
  request,  \* the request to the wallet and who made it, None before
  token,    \* the wallet's answer, None before
  access,   \* the access token and the scopes required, None before
  result    \* the decision, None before

vars == <<now, request, token, access, result>>

Init ==
  /\ now = 0
  /\ request = None
  /\ token = None
  /\ access = None
  /\ result = None

(* The nonce is fresh: no other request has it. *)
SendRequest(v) ==
  /\ request = None
  /\ access = None
  /\ request' = [verifier |-> v, nonce |-> "fresh", uri |-> "ours",
                 asked |-> BuildVpRequest(v)]
  /\ UNCHANGED <<now, token, access, result>>

(* The key-binding JWT the request calls for. *)
Binding(credential, disclosures, skew) ==
  [kind |-> "kb", typ |-> "kb+jwt", nonce |-> request.nonce,
   aud |-> request.uri, list |-> FALSE, jws |-> TRUE,
   hash |-> computeSDHash(credential, disclosures),
   iat |-> Second(now) + skew, fraction |-> FALSE]

(* It, or one that departs from it in one field. *)
Bindings(credential, disclosures, skew) ==
  LET kb == Binding(credential, disclosures, skew)
  IN  {kb, [kb EXCEPT !.typ = "jwt"], [kb EXCEPT !.nonce = "earlier"],
       [kb EXCEPT !.aud = "theirs"], [kb EXCEPT !.list = TRUE],
       [kb EXCEPT !.jws = FALSE], [kb EXCEPT !.fraction = TRUE],
       [kb EXCEPT !.hash = computeSDHash(credential, << >>)]}

(* The ways to write it all down: bound or not, with or without the last     *)
(* tilde, with the key-binding JWT not in the last place, and with another   *)
(* one left standing before it.                                              *)
Framings(disclosures, kb, other) ==
  {disclosures \o <<kb>>, disclosures \o <<Empty>>, disclosures,
   disclosures \o <<kb, Empty>>, <<kb>> \o disclosures \o <<Empty>>,
   disclosures \o <<other, kb>>}

Present ==
  /\ request # None
  /\ token = None
  /\ \E c \in Credentials, skew \in Skews :
       \E shown \in SUBSET (c.sd \cup {Stray}) :
         \E disclosures \in Bijection(1 .. Cardinality(shown), shown) :
           \E kb, other \in Bindings(c, disclosures, skew) :
             \E parts \in Framings(disclosures, kb, other) :
               token' = [credential |-> c, parts |-> parts]
  /\ UNCHANGED <<now, request, access, result>>

Tick ==
  /\ token # None \/ access # None
  /\ result = None
  /\ now < MaxTime
  /\ now' = now + 1
  /\ UNCHANGED <<request, token, access, result>>

Verify ==
  /\ token # None
  /\ result = None
  /\ result' = VerifyVpToken(request.verifier, token, request, now)
  /\ UNCHANGED <<now, request, token, access>>

Authorize ==
  /\ request = None
  /\ access = None
  /\ \E t \in AccessTokens, required \in SUBSET ApiScopes, sdk \in SdkNames :
       access' = [sdk |-> sdk, token |-> t, required |-> required]
  /\ UNCHANGED <<now, request, token, result>>

ValidateAccess ==
  /\ access # None
  /\ result = None
  /\ result' = ValidateToken(access.sdk, access.token, access.required, now)
  /\ UNCHANGED <<now, request, token, access>>

Next ==
  \/ \E v \in Verifiers : SendRequest(v)
  \/ Present
  \/ Verify
  \/ Authorize
  \/ ValidateAccess
  \/ Tick

Spec == Init /\ [][Next]_vars

-----------------------------------------------------------------------------
(* Properties *)

Accepted == result = TRUE

KbJwts(t) == OfKinds(t.parts, {"kb"})

Shown(t) == OfKinds(t.parts, {"disclosure"})

(* As the SD-JWT format has it: the disclosures, then one key-binding JWT or *)
(* nothing.                                                                  *)
WellFormed(t) ==
  \E tail \in {<<Empty>>, KbJwts(t)} :
    Len(tail) = 1 /\ t.parts = Shown(t) \o tail

(* What the server issues: its own signature, all the claims, an expiry, and *)
(* disclosures of salt, name and value.                                      *)
Issued(c) ==
  /\ c.signature = "current"
  /\ c.vct
  /\ c.complete
  /\ c.exp # 0
  /\ \A d \in c.sd : d.size = 3

InTime(kb) == IsRecentInstant(kb, now) /\ kb.iat <= Second(now) + MaxSkew

(* limit_disclosure: what the request requires and nothing it does not name. *)
AsAsked(t) ==
  LET names == {d.name : d \in Range(Shown(t))}
  IN  /\ request.asked.required \subseteq names
      /\ names \subseteq request.asked.required \cup request.asked.optional

(* The answer of a wallet that does what the request says, in time. *)
Conforming(t) ==
  /\ AsAsked(t)
  /\ Issued(t.credential)
  /\ Second(now) < t.credential.exp
  /\ WellFormed(t)
  /\ Range(Shown(t)) \subseteq t.credential.sd
  /\ \A kb \in Range(KbJwts(t)) :
       /\ IsKbJwt(kb) /\ kb.jws
       /\ ~kb.list /\ ~kb.fraction
       /\ IsBound(kb, t.credential, Shown(t), request)
       /\ InTime(kb)

(* A wallet that presents a credential of this server as the request asks    *)
(* and in time is accepted by every verifier, whichever sent the request,    *)
(* up to the last instant before the credential or the key-binding JWT is    *)
(* too old.                                                                  *)
ConformingIsAccepted ==
  token # None /\ Conforming(token) =>
    \A v \in Verifiers : VerifyVpToken(v, token, request, now)

(* A token that carries a key-binding JWT is accepted only if that JWT       *)
(* answers this request, covers exactly the disclosures that are shown and   *)
(* is recent, wherever in the token it stands, and if all that is shown is   *)
(* the issuer's.  Of several the last has to be all that: the server         *)
(* replaces kbJWTRaw by each one it meets (vp.go:223) and looks at no other, *)
(* while the SDKs accept no second one.  Only Rust may accept a credential   *)
(* that has expired.                                                         *)
AcceptedIsBound ==
  token # None /\ Accepted =>
    LET c == token.credential
        kbs == KbJwts(token)
        last == kbs[Len(kbs)]
    IN  /\ Range(Shown(token)) \subseteq c.sd
        /\ kbs # << >> =>
             /\ IsBound(last, c, Shown(token), request)
             /\ last.iat >= Second(now) - MaxAge
        /\ request.verifier = "server" \/ Len(kbs) <= 1
        /\ \/ request.verifier = "rust"
           \/ Second(now) < c.exp
           \/ request.verifier = "server" /\ c.exp = 0

(* Where the verifiers agree and which is the stricter.  TypeScript accepts  *)
(* what Go accepts, and Go what TypeScript accepts unless iat has a          *)
(* fraction.  What Go accepts Java accepts, unless the key-binding JWT is in *)
(* the last half second of its time, Rust if the claims are complete, and    *)
(* the server if it issued the credential, with the same exception and that  *)
(* of a key-binding JWT that is no JWS.  What the server accepts of its own  *)
(* credentials Go accepts too, if the token is well formed, names one        *)
(* audience, its iat has no fraction and its clock is not ahead.             *)
VerifiersAgree ==
  token # None =>
    LET accepts(v) == VerifyVpToken(v, token, request, now)
        kbs == Range(KbJwts(token))
        fresh == \A kb \in kbs : IsRecentInstant(kb, now)
        whole == \A kb \in kbs : ~kb.fraction
        c == token.credential
    IN  /\ accepts("go") => accepts("ts")
        /\ accepts("ts") /\ whole => accepts("go")
        /\ accepts("go") /\ fresh => accepts("java")
        /\ accepts("go") /\ c.complete => accepts("rust")
        /\ accepts("go") /\ fresh /\ Issued(c) /\ (\A kb \in kbs : kb.jws) =>
             accepts("server")
        /\ /\ accepts("server")
           /\ Issued(c)
           /\ WellFormed(token)
           /\ whole
           /\ \A kb \in kbs : ~kb.list /\ InTime(kb)
           => accepts("go")

(* An SDK grants a call only on a token of the expected issuer that has not  *)
(* expired and lists every scope the call requires.                          *)
GrantIsCovered ==
  access # None /\ Accepted =>
    /\ access.token.iss = Issuer
    /\ Clock(now) <= access.token.exp
    /\ access.required \subseteq Scopes(access.token.scope)

(* On a token as an OIDC provider makes them the SDKs decide alike, but for  *)
(* Java, which may refuse one whose first scope is not all that is required; *)
(* and the server admits whatever they grant, but for a token in the very    *)
(* second in which it expires, and one that is not yet to be used.           *)
SdksAgree ==
  access # None =>
    LET t == access.token
        grants(sdk) == ValidateToken(sdk, t, access.required, now)
        regular == /\ t.parts = 3
                   /\ t.sub \notin {"", Absent}
                   /\ t.scope \notin {Absent, << >>}
    IN  /\ regular => grants("go") = grants("ts") /\ grants("ts") = grants("rust")
        /\ grants("java") => grants("go")
        /\ regular /\ grants("go") /\ access.required \subseteq {t.scope[1]} =>
             grants("java")
        /\ regular /\ t.signed /\ grants("go") =>
             \/ JWTMiddleware(t, now) /\ JWKSMiddleware(t, now)
             \/ Clock(now) = t.exp
             \/ Clock(now) < t.nbf
=============================================================================
