------------------------------ MODULE VpCheck ------------------------------
(***************************************************************************)
(* The five implementations of the OpenID4VP verifier: the one of the      *)
(* server and those of the Go, TypeScript, Rust and Java SDKs.  Each has a *)
(* BuildVpRequest, which says what to ask a wallet for, and a              *)
(* VerifyVpToken, which accepts or refuses the SD-JWT that comes back:     *)
(*                                                                         *)
(*    issuer JWT ~ disclosure ~ ... ~ disclosure ~ key-binding JWT         *)
(*                                                                         *)
(* The five agree on most tokens and differ on some.  A digest is modelled *)
(* by what it is the digest of.  Claims have the JSON type they should     *)
(* have, but for aud, which may be a list, and iat, which may have a       *)
(* fraction.  Which error a refusal carries is left out.                   *)
(*                                                                         *)
(* now is in half seconds: the server and Java compare instants, the other *)
(* three compare whole seconds.                                            *)
(***************************************************************************)
EXTENDS Integers, Sequences

CONSTANTS
  MaxAge,   \* how old a key-binding JWT may be, 300 seconds in the code
  MaxSkew,  \* how far ahead the wallet's clock may be, 30 seconds
  None      \* no key-binding JWT

Verifiers == {"server", "go", "ts", "rust", "java"}

Second(now) == now \div 2

(* What stands between two tildes: size is the length of the JSON array, and *)
(* salt tells apart disclosures of the same claim.                           *)
Disclosure(name, salt, size) ==
  [kind |-> "disclosure", name |-> name, salt |-> salt, size |-> size]

Empty == [kind |-> "empty"]

IsDisclosure(part) == part.kind = "disclosure"

IsDotted(part) == part.kind = "kb"

IsNonEmpty(part) == part.kind # "empty"

(* The parts of these kinds, in order. *)
OfKinds(parts, kinds) ==
  LET found[i \in 0 .. Len(parts)] ==
        IF i = 0 THEN << >>
        ELSE IF parts[i].kind \in kinds THEN Append(found[i - 1], parts[i])
        ELSE found[i - 1]
  IN  found[Len(parts)]

(***************************************************************************)
(* A credential is the issuer JWT: signature is "current" if the server's  *)
(* present key made it, "other" if another key did, "missing" if there is  *)
(* no third segment; vct says whether it is a DepositPledgeAttestation;    *)
(* exp is 0 if the claim is absent; complete says whether the claims that  *)
(* are always revealed are all there; sd is what the digests in _sd are    *)
(* digests of.                                                             *)
(*                                                                         *)
(* A key-binding JWT: jws says whether it has three segments and an alg    *)
(* the JWT library of the server knows, list whether aud is a list, and    *)
(* fraction whether half a second is to be added to iat.                   *)
(*                                                                         *)
(* A token is a credential and the parts that follow it.                   *)
(***************************************************************************)

(* The digest over the issuer JWT and the disclosures, in order. *)
computeSDHash(credential, disclosures) == <<credential, disclosures>>

-----------------------------------------------------------------------------
(* BuildVpRequest: what is asked for beyond the claims revealed always *)

AllClaims ==
  {"deposit_amount", "currency", "property_address", "tenant_first_name",
   "tenant_last_name", "pledged_until"}

ServerBuildVpRequest ==
  [required |-> {"deposit_amount"}, optional |-> {"pledged_until"}]

GoBuildVpRequest == [required |-> {}, optional |-> AllClaims]

TsBuildVpRequest == [required |-> {}, optional |-> AllClaims]

RustBuildVpRequest == [required |-> {}, optional |-> AllClaims]

JavaBuildVpRequest ==
  [required |-> {"deposit_amount"}, optional |-> {"pledged_until"}]

BuildVpRequest(v) ==
  CASE v = "server" -> ServerBuildVpRequest
    [] v = "go" -> GoBuildVpRequest
    [] v = "ts" -> TsBuildVpRequest
    [] v = "rust" -> RustBuildVpRequest
    [] v = "java" -> JavaBuildVpRequest

-----------------------------------------------------------------------------
(* Taking the token apart *)

(* The server tells a key-binding JWT by its dot, wherever it stands; the    *)
(* last one counts.                                                          *)
ServerSplit(parts) ==
  LET dotted == OfKinds(parts, {"kb"})
  IN  [kb |-> IF dotted = << >> THEN None ELSE dotted[Len(dotted)],
       disclosures |-> OfKinds(parts, {"disclosure"})]

(* The SDKs tell it by its place: the last part, unless that is empty. *)
SplitByPosition(parts) ==
  LET n == Len(parts)
      bound == n > 0 /\ IsNonEmpty(parts[n])
  IN  [kb |-> IF bound THEN parts[n] ELSE None,
       disclosures |-> OfKinds(IF bound THEN SubSeq(parts, 1, n - 1) ELSE parts,
                               {"disclosure", "kb"})]

-----------------------------------------------------------------------------
(* The key-binding JWT *)

IsKbJwt(kb) == IsDotted(kb) /\ kb.typ = "kb+jwt"

(* Answers this request and covers exactly these disclosures. *)
IsBound(kb, credential, disclosures, request) ==
  /\ kb.nonce = request.nonce
  /\ kb.aud = request.uri
  /\ kb.hash = computeSDHash(credential, disclosures)

(* An instant is compared with an instant: no later than MaxAge after iat. *)
IsRecentInstant(kb, now) == now <= 2 * (kb.iat + MaxAge)

IsRecentSecond(kb, now) ==
  kb.iat \in Second(now) - MaxAge .. Second(now) + MaxSkew

(* JavaScript compares numbers, fraction and all, with whole seconds. *)
IsRecentNumber(kb, now) ==
  kb.iat \in Second(now) - MaxAge ..
             Second(now) + MaxSkew - (IF kb.fraction THEN 1 ELSE 0)

(* ParseUnverified wants a JWS.  jwt.ClaimStrings takes a string or a list,  *)
(* and the first entry is compared; jwt.NumericDate drops a fraction.        *)
ServerVerifyKbJWT(kb, credential, disclosures, request, now) ==
  /\ IsKbJwt(kb)
  /\ kb.jws
  /\ IsBound(kb, credential, disclosures, request)
  /\ IsRecentInstant(kb, now)

(* Two segments will do.  A list of audiences is not a string and a fraction *)
(* not an int64: the payload does not parse.                                 *)
GoVerifyKbJWT(kb, credential, disclosures, request, now) ==
  /\ IsKbJwt(kb)
  /\ IsBound(kb, credential, disclosures, request)
  /\ ~kb.list
  /\ ~kb.fraction
  /\ IsRecentSecond(kb, now)

TsVerifyKbJwt(kb, credential, disclosures, request, now) ==
  /\ IsKbJwt(kb)
  /\ IsBound(kb, credential, disclosures, request)
  /\ ~kb.list
  /\ IsRecentNumber(kb, now)

(* as_i64 finds no integer in a fraction, and 0 is put in its place, which   *)
(* is long past.                                                             *)
RustVerifyKbJwt(kb, credential, disclosures, request, now) ==
  /\ IsKbJwt(kb)
  /\ IsBound(kb, credential, disclosures, request)
  /\ ~kb.list
  /\ ~kb.fraction
  /\ IsRecentSecond(kb, now)

(* extractJsonString takes the first quoted text after the key, and          *)
(* extractJsonLong drops a fraction.                                         *)
JavaVerifyKbJwt(kb, credential, disclosures, request, now) ==
  /\ IsKbJwt(kb)
  /\ IsBound(kb, credential, disclosures, request)
  /\ IsRecentInstant(kb, now)

-----------------------------------------------------------------------------
(* The issuer JWT and the disclosures *)

(* Mutant: a token that discloses nothing is refused. *)
ListedAndAny(disclosures, credential) ==
  /\ disclosures # << >>
  /\ \A i \in DOMAIN disclosures : disclosures[i] \in credential.sd

(* Mutant: only the first disclosure is looked up. *)
ListedFirst(disclosures, credential) ==
  disclosures # << >> => disclosures[1] \in credential.sd

(* Every disclosure has its digest in _sd. *)
Listed(disclosures, credential) ==
  \A i \in DOMAIN disclosures : disclosures[i] \in credential.sd

(* Every disclosure is a JSON array of such a size. *)
HaveSize(disclosures, sizes) ==
  \A i \in DOMAIN disclosures :
    IsDisclosure(disclosures[i]) /\ disclosures[i].size \in sizes

ServerVerifyIssuerJWT(credential, now) ==
  /\ credential.signature = "current"
  /\ credential.vct
  /\ credential.exp = 0 \/ Second(now) < credential.exp

GoVerifyIssuerJWT(credential, now) ==
  /\ credential.signature # "missing"
  /\ Second(now) < credential.exp

(* Mutant: the credential is still good in the second in which it expires. *)
TsParseIssuerJwtExpiring(credential, now) ==
  /\ credential.signature # "missing"
  /\ Second(now) <= credential.exp

TsParseIssuerJwt(credential, now) ==
  /\ credential.signature # "missing"
  /\ Second(now) < credential.exp

(* exp is read and not compared. *)
RustParseIssuerJwtClaims(credential) ==
  credential.signature # "missing" /\ credential.complete

(* Two segments are enough. *)
JavaParseIssuerJwt(credential, now) == Second(now) < credential.exp

(* An array of two is a claim without a value, a shorter one is passed over; *)
(* what is no disclosure is no base64url.                                    *)
JavaParseDisclosures(disclosures) ==
  \A i \in DOMAIN disclosures : IsDisclosure(disclosures[i])

-----------------------------------------------------------------------------
(* VerifyVpToken *)

ServerVerifyVpToken(token, request, now) ==
  LET c == token.credential
      split == ServerSplit(token.parts)
  IN  /\ ServerVerifyIssuerJWT(c, now)
      /\ Listed(split.disclosures, c)
      /\ HaveSize(split.disclosures, {3})
      /\ split.kb # None =>
           ServerVerifyKbJWT(split.kb, c, split.disclosures, request, now)

GoVerifyVpToken(token, request, now) ==
  LET c == token.credential
      split == SplitByPosition(token.parts)
  IN  /\ GoVerifyIssuerJWT(c, now)
      /\ Listed(split.disclosures, c)
      /\ HaveSize(split.disclosures, {3, 4})
      /\ split.kb # None =>
           GoVerifyKbJWT(split.kb, c, split.disclosures, request, now)

TsVerifyVpToken(token, request, now) ==
  LET c == token.credential
      split == SplitByPosition(token.parts)
  IN  /\ TsParseIssuerJwt(c, now)
      /\ Listed(split.disclosures, c)
      /\ HaveSize(split.disclosures, {3, 4})
      /\ split.kb # None =>
           TsVerifyKbJwt(split.kb, c, split.disclosures, request, now)

RustVerifySdJwtVp(token, request, now) ==
  LET c == token.credential
      split == SplitByPosition(token.parts)
  IN  /\ RustParseIssuerJwtClaims(c)
      /\ Listed(split.disclosures, c)
      /\ HaveSize(split.disclosures, {3, 4})
      /\ split.kb # None =>
           RustVerifyKbJwt(split.kb, c, split.disclosures, request, now)

JavaVerifyVpToken(token, request, now) ==
  LET c == token.credential
      split == SplitByPosition(token.parts)
  IN  /\ JavaParseIssuerJwt(c, now)
      /\ Listed(split.disclosures, c)
      /\ JavaParseDisclosures(split.disclosures)
      /\ split.kb # None =>
           JavaVerifyKbJwt(split.kb, c, split.disclosures, request, now)

VerifyVpToken(v, token, request, now) ==
  CASE v = "server" -> ServerVerifyVpToken(token, request, now)
    [] v = "go" -> GoVerifyVpToken(token, request, now)
    [] v = "ts" -> TsVerifyVpToken(token, request, now)
    [] v = "rust" -> RustVerifySdJwtVp(token, request, now)
    [] v = "java" -> JavaVerifyVpToken(token, request, now)
=============================================================================
