----------------------------- MODULE TokenCheck -----------------------------
(***************************************************************************)
(* The OIDC access tokens of the API: ValidateToken of the four SDKs, and  *)
(* what the server's two middlewares ask of the same token.                *)
(*                                                                         *)
(* A token is a record: parts, the number of dot-separated segments;       *)
(* signed, whether the key the server trusts made its signature; sub and   *)
(* iss, "" when empty; scope, the sequence of scopes its claim lists; exp  *)
(* and nbf, 0 when absent.  sub, iss and scope are Absent when the claim   *)
(* is.  The SDKs leave the signature to the integrator, and none of them   *)
(* reads nbf.                                                              *)
(***************************************************************************)
EXTENDS Integers, Sequences, Functions

CONSTANTS
  Issuer,  \* the issuer the validator was made for
  Absent   \* a claim that is not in the token

SdkNames == {"go", "ts", "rust", "java"}

Clock(now) == now \div 2

Scopes(scope) == IF scope = Absent THEN {} ELSE Range(scope)

GoCheckScopes(required, present) == required \subseteq present

(* SplitN makes one segment of the third and whatever follows it. *)
GoValidateToken(token, required, now) ==
  /\ token.parts >= 3
  /\ token.sub \notin {"", Absent}
  /\ token.exp # 0
  /\ token.iss = Issuer
  /\ Clock(now) <= token.exp
  /\ GoCheckScopes(required, Scopes(token.scope))

(* Mutant: the token is refused in the second in which it expires. *)
TsValidateTokenEarly(token, required, now) ==
  /\ token.parts = 3
  /\ token.sub \notin {"", Absent}
  /\ token.exp # 0
  /\ token.iss = Issuer
  /\ Clock(now) < token.exp
  /\ required \subseteq Scopes(token.scope)

TsValidateToken(token, required, now) ==
  /\ token.parts = 3
  /\ token.sub \notin {"", Absent}
  /\ token.exp # 0
  /\ token.iss = Issuer
  /\ Clock(now) <= token.exp
  /\ required \subseteq Scopes(token.scope)

(* Mutant: without a scope claim the scopes are not checked. *)
RustValidateTokenUnscoped(token, required, now) ==
  /\ token.parts >= 3
  /\ token.sub # Absent
  /\ token.exp # 0
  /\ token.iss = Issuer
  /\ Clock(now) <= token.exp
  /\ token.scope = Absent \/ required \subseteq Scopes(token.scope)

RustValidateToken(token, required, now) ==
  /\ token.parts >= 3
  /\ token.sub # Absent
  /\ token.scope # Absent
  /\ token.exp # 0
  /\ token.iss = Issuer
  /\ Clock(now) <= token.exp
  /\ required \subseteq Scopes(token.scope)

(* extractClaim stops at white space: of the scopes it sees the first. *)
JavaExtractScope(scope) == {scope[1]}

JavaValidateToken(token, required, now) ==
  /\ token.parts = 3
  /\ token.sub \notin {"", Absent}
  /\ token.scope \notin {<< >>, Absent}
  /\ token.exp # 0
  /\ token.iss = Issuer
  /\ Clock(now) <= token.exp
  /\ required \subseteq JavaExtractScope(token.scope)

ValidateToken(sdk, token, required, now) ==
  CASE sdk = "go" -> GoValidateToken(token, required, now)
    [] sdk = "ts" -> TsValidateToken(token, required, now)
    [] sdk = "rust" -> RustValidateToken(token, required, now)
    [] sdk = "java" -> JavaValidateToken(token, required, now)

(* jwt.Parse with the secret: signature, exp and nbf; the issuer is not      *)
(* compared.                                                                 *)
JWTMiddleware(token, now) ==
  /\ token.parts = 3
  /\ token.signed
  /\ token.exp = 0 \/ Clock(now) < token.exp
  /\ token.nbf = 0 \/ token.nbf <= Clock(now)

(* jwt.Parse with the key keyFunc finds, see JwksCache. *)
JWKSMiddleware(token, now) ==
  /\ token.parts = 3
  /\ token.signed
  /\ token.exp = 0 \/ Clock(now) < token.exp
  /\ token.nbf = 0 \/ token.nbf <= Clock(now)
  /\ token.iss = Issuer
=============================================================================
