----------------------------- MODULE MCSdkChecks -----------------------------
(* Constants for model checking SdkChecks. *)
EXTENDS SdkChecks

Amount(salt, size) == Disclosure("deposit_amount", salt, size)

Until(salt, size) == Disclosure("pledged_until", salt, size)

(* As BuildSDJWT makes it, with two of its six disclosures. *)
MCIssued(exp) ==
  [signature |-> "current", vct |-> TRUE, exp |-> exp, complete |-> TRUE,
   sd |-> {Amount("s1", 3), Until("s2", 3)}]

(* One that lasts, one that expires while it is looked at, one made with the *)
(* key of an earlier run of the server, and one for each check a verifier    *)
(* makes of what another issuer may have written.                            *)
MCCredentials ==
  {MCIssued(9), MCIssued(2),
   [MCIssued(9) EXCEPT !.signature = "other"],
   [MCIssued(9) EXCEPT !.signature = "missing"],
   [MCIssued(9) EXCEPT !.vct = FALSE],
   [MCIssued(0) EXCEPT !.signature = "current"],
   [MCIssued(9) EXCEPT !.signature = "other", !.complete = FALSE],
   [MCIssued(9) EXCEPT !.sd = {Amount("s3", 1), Until("s4", 4)}]}

MCStray == Amount("s9", 3)

MCSkews == {-1, 0, 2}

MCAccessTokens ==
  [parts : {2, 3, 4}, signed : BOOLEAN, sub : {Absent, "", "tenant"},
   iss : {Issuer, "elsewhere"}, exp : {0, 2},
   nbf : {0, 1},
   scope : {Absent, << >>, <<"read">>, <<"read", "write">>,
            <<"write", "read">>}]
=============================================================================
