----------------------------- MODULE CheckProofs -----------------------------
(***************************************************************************)
(* The checks that decide on one input, and what holds of their decisions  *)
(* for every input: the reports of the validator, and the tokens that the  *)
(* verifiers and the SDKs accept.                                          *)
(*                                                                         *)
(* Of the reports: Validator's properties hold for every set of drafts,    *)
(* values and rents, and for any number of changes.  The checks are the    *)
(* argument: ErrorCodes says of each error code when a report has it.  The *)
(* rest needs only that documents keep their types, and what the server    *)
(* has written into the deposit it stored.                                 *)
(*                                                                         *)
(* Of the tokens: those of SdkChecks hold for every set of credentials,    *)
(* disclosures, clock skews, access tokens and scopes.  FramingsApart says *)
(* what the server's loop and the SDKs' find in a token of any length,     *)
(* Decisions what each verifier then asks of it, and SdkInv that a         *)
(* decision is still the one the verifier would make.                      *)
(***************************************************************************)
EXTENDS Validator, SdkChecks, SequenceTheorems, FiniteSetTheorems,
        WellFoundedInduction, TLAPS

-----------------------------------------------------------------------------
(* The reports *)

(* What the table says of every country. *)
Usual(rule) ==
  /\ rule.MaxMonths \in {100, 115, 200, 300, 600}
  /\ rule.Currency # ""
  /\ \A t \in rule.AllowedTypes : t \in KnownTypes

(* The table of rules.go: every country has a cap, a currency and types. *)
LEMMA RuleFacts ==
  /\ \A c \in Country : Usual(jurisdictionRules[c])
  /\ "BGB 551" \in jurisdictionRules["DE"].StatutoryBases
<1>1. Usual(jurisdictionRules["DE"])
  BY DEF jurisdictionRules, Rule, KnownTypes, Usual
<1>2. Usual(jurisdictionRules["CH"])
  BY DEF jurisdictionRules, Rule, KnownTypes, Usual
<1>3. Usual(jurisdictionRules["AT"])
  BY DEF jurisdictionRules, Rule, KnownTypes, Usual
<1>4. Usual(jurisdictionRules["BE"])
  BY DEF jurisdictionRules, Rule, KnownTypes, Usual
<1>5. Usual(jurisdictionRules["NL"])
  BY DEF jurisdictionRules, Rule, KnownTypes, Usual
<1>6. Usual(jurisdictionRules["NO"])
  BY DEF jurisdictionRules, Rule, KnownTypes, Usual
<1>7. Usual(jurisdictionRules["GB"])
  BY DEF jurisdictionRules, Rule, KnownTypes, Usual
<1>8. Usual(jurisdictionRules["FR"])
  BY DEF jurisdictionRules, Rule, KnownTypes, Usual
<1>9. Usual(jurisdictionRules["ES"])
  BY DEF jurisdictionRules, Rule, KnownTypes, Usual
<1>10. \A c \in Country : Usual(jurisdictionRules[c])
  BY <1>1, <1>2, <1>3, <1>4, <1>5, <1>6, <1>7, <1>8, <1>9, Zenon DEF Country
<1>11. "BGB 551" \in jurisdictionRules["DE"].StatutoryBases
  BY DEF jurisdictionRules, Rule
<1> QED
  BY <1>10, <1>11

(* The checks of the statutory rules apply. *)
Ruled(d) == d.country \in Country

RuleOf(d) == jurisdictionRules[d.country]

ErrorSet ==
  {"MISSING_TENANT_FIELDS", "MISSING_LANDLORD_NAME", "INVALID_AMOUNT",
   "MISSING_CURRENCY", "MISSING_TYPE", "UNKNOWN_TYPE", "WRONG_CURRENCY",
   "DISALLOWED_TYPE", "CAP_EXCEEDED"}

TypeForbidden(d) ==
  /\ RuleOf(d).AllowedTypes # {} /\ d.type # ""
  /\ d.type \notin RuleOf(d).AllowedTypes

RequiredCode(d, e) ==
  \/ e = "MISSING_TENANT_FIELDS" /\ ~d.tenant
  \/ e = "MISSING_LANDLORD_NAME" /\ ~d.landlord
  \/ e = "INVALID_AMOUNT" /\ d.amount <= 0
  \/ e = "MISSING_CURRENCY" /\ d.currency = ""
  \/ e = "MISSING_TYPE" /\ d.type = ""
  \/ e = "MISSING_VERSION" /\ ~d.version
  \/ e = "MISSING_COUNTRY" /\ d.country = ""

RuleCode(rule, d, rent, e) ==
  \/ e = "WRONG_CURRENCY" /\ WrongCurrency(rule, d)
  \/ /\ e = "DISALLOWED_TYPE"
     /\ rule.AllowedTypes # {} /\ d.type # ""
     /\ d.type \notin rule.AllowedTypes
  \/ e = "CAP_EXCEEDED" /\ OverCap(rule, d.amount, rent)
  \/ /\ e = "UNEXPECTED_STATUTORY_BASIS"
     /\ d.pledge # {} /\ d.pledge \cap rule.StatutoryBases = {}

(* The codes of checkRequired, one by one. *)
LEMMA RequiredCodes ==
  ASSUME NEW d, NEW e
  PROVE  e \in checkRequired(d) <=> RequiredCode(d, e)
BY DEF checkRequired, Finding, RequiredCode

(* The codes of the four checks of a rule, one by one. *)
LEMMA RuleCodes ==
  ASSUME NEW rule, NEW d, NEW rent, NEW e
  PROVE  e \in checkRule(rule, d, rent) <=> RuleCode(rule, d, rent, e)
BY DEF checkRule, Finding, RuleCode

(* When a report has which error. *)
LEMMA ErrorCodes ==
  ASSUME NEW d \in Document, NEW rent \in Int
  PROVE  /\ Errors(d, rent) \subseteq ErrorSet
         /\ "MISSING_TENANT_FIELDS" \in Errors(d, rent) <=> ~d.tenant
         /\ "MISSING_LANDLORD_NAME" \in Errors(d, rent) <=> ~d.landlord
         /\ "INVALID_AMOUNT" \in Errors(d, rent) <=> d.amount <= 0
         /\ "MISSING_CURRENCY" \in Errors(d, rent) <=> d.currency = ""
         /\ "MISSING_TYPE" \in Errors(d, rent) <=> d.type = ""
         /\ "UNKNOWN_TYPE" \in Errors(d, rent)
              <=> d.type # "" /\ d.type \notin KnownTypes
         /\ "WRONG_CURRENCY" \in Errors(d, rent)
              <=> Ruled(d) /\ WrongCurrency(RuleOf(d), d)
         /\ "DISALLOWED_TYPE" \in Errors(d, rent)
              <=> Ruled(d) /\ TypeForbidden(d)
         /\ "CAP_EXCEEDED" \in Errors(d, rent)
              <=> Ruled(d) /\ OverCap(RuleOf(d), d.amount, rent)
<1> DEFINE codes == DOMAIN ErrorField
<1>1. codes = ErrorSet
  BY DEF ErrorField, ErrorSet
<1>2. \A e : e \in checkRequired(d) <=> RequiredCode(d, e)
  BY RequiredCodes
<1>3. \A e : e \in checkDepositType(d) <=>
         e = "UNKNOWN_TYPE" /\ d.type # "" /\ d.type \notin KnownTypes
  BY DEF checkDepositType, Finding
<1>4. \A rule, e : e \in checkRule(rule, d, rent)
        <=> RuleCode(rule, d, rent, e)
  BY RuleCodes
<1>5. \A rule, e : e \in checkTrusteeship(rule, d) => e \notin codes
  BY <1>1 DEF checkTrusteeship, Finding, ErrorSet
<1>6. \A e : e \in codes =>
         (e \in checkJurisdiction(d, rent) <=>
            Ruled(d) /\ e \in checkRule(RuleOf(d), d, rent))
  <2>1. CASE d.country = ""
    BY <2>1 DEF checkJurisdiction, Ruled, Country
  <2>2. CASE d.country # "" /\ d.country \in Country
    BY <1>5, <2>2 DEF checkJurisdiction, Ruled, RuleOf
  <2>3. CASE d.country # "" /\ d.country \notin Country
    BY <1>1, <2>3 DEF checkJurisdiction, Ruled, ErrorSet
  <2> QED
    BY <2>1, <2>2, <2>3
<1>7. \A e : e \in Errors(d, rent) <=>
         /\ e \in codes
         /\ \/ e \in checkRequired(d)
            \/ e \in checkDepositType(d)
            \/ Ruled(d) /\ e \in checkRule(RuleOf(d), d, rent)
  BY <1>6 DEF Errors, Findings
<1>8. \A e \in ErrorSet : e \in Errors(d, rent) <=>
         \/ e = "MISSING_TENANT_FIELDS" /\ ~d.tenant
         \/ e = "MISSING_LANDLORD_NAME" /\ ~d.landlord
         \/ e = "INVALID_AMOUNT" /\ d.amount <= 0
         \/ e = "MISSING_CURRENCY" /\ d.currency = ""
         \/ e = "MISSING_TYPE" /\ d.type = ""
         \/ e = "UNKNOWN_TYPE" /\ d.type # "" /\ d.type \notin KnownTypes
         \/ e = "WRONG_CURRENCY" /\ Ruled(d) /\ WrongCurrency(RuleOf(d), d)
         \/ e = "DISALLOWED_TYPE" /\ Ruled(d) /\ TypeForbidden(d)
         \/ /\ e = "CAP_EXCEEDED" /\ Ruled(d)
            /\ OverCap(RuleOf(d), d.amount, rent)
  BY <1>1, <1>2, <1>3, <1>4, <1>7
     DEF TypeForbidden, ErrorSet, RequiredCode, RuleCode
<1>9. Errors(d, rent) \subseteq ErrorSet
  BY <1>1, <1>7
<1> HIDE DEF codes
<1>10. "MISSING_TENANT_FIELDS" \in Errors(d, rent)
         <=> ~d.tenant
  BY <1>8 DEF ErrorSet
<1>11. "MISSING_LANDLORD_NAME" \in Errors(d, rent)
         <=> ~d.landlord
  BY <1>8 DEF ErrorSet
<1>12. "INVALID_AMOUNT" \in Errors(d, rent)
         <=> d.amount <= 0
  BY <1>8 DEF ErrorSet
<1>13. "MISSING_CURRENCY" \in Errors(d, rent)
         <=> d.currency = ""
  BY <1>8 DEF ErrorSet
<1>14. "MISSING_TYPE" \in Errors(d, rent)
         <=> d.type = ""
  BY <1>8 DEF ErrorSet
<1>15. "UNKNOWN_TYPE" \in Errors(d, rent)
         <=> d.type # "" /\ d.type \notin KnownTypes
  BY <1>8 DEF ErrorSet
<1>16. "WRONG_CURRENCY" \in Errors(d, rent)
         <=> Ruled(d) /\ WrongCurrency(RuleOf(d), d)
  BY <1>8 DEF ErrorSet
<1>17. "DISALLOWED_TYPE" \in Errors(d, rent)
         <=> Ruled(d) /\ TypeForbidden(d)
  BY <1>8 DEF ErrorSet
<1>18. "CAP_EXCEEDED" \in Errors(d, rent)
         <=> Ruled(d) /\ OverCap(RuleOf(d), d.amount, rent)
  BY <1>8 DEF ErrorSet
<1> QED
  BY <1>9, <1>10, <1>11, <1>12, <1>13, <1>14, <1>15, <1>16, <1>17, <1>18

(* The cap in the code's form and as the largest amount that is allowed. *)
LEMMA CapFacts ==
  ASSUME NEW m \in {100, 115, 200, 300, 600}, NEW rent \in Int,
         NEW amount \in Int
  PROVE  /\ (m * rent * 201) \div 20000 \in Int
         /\ amount * 20000 > m * rent * 201
              <=> ~(amount <= (m * rent * 201) \div 20000)
<1>1. CASE m = 100
  BY <1>1
<1>2. CASE m = 115
  BY <1>2
<1>3. CASE m = 200
  BY <1>3
<1>4. CASE m = 300
  BY <1>4
<1>5. CASE m = 600
  BY <1>5
<1> QED
  BY <1>1, <1>2, <1>3, <1>4, <1>5

(* A document without errors is a lawful one, and a lawful one has no errors *)
(* unless its amount is on the edge.                                         *)
LEMMA ValidIsLawful ==
  ASSUME NEW d \in Document, NEW rent \in Int
  PROVE  /\ Valid(d, rent) => Lawful(d, rent)
         /\ Lawful(d, rent) /\ ~OnTheEdge(d, rent) => Valid(d, rent)
<1>1. Valid(d, rent) <=>
        /\ d.tenant /\ d.landlord
        /\ ~(d.amount <= 0)
        /\ d.currency # "" /\ ~(Ruled(d) /\ WrongCurrency(RuleOf(d), d))
        /\ d.type # "" /\ d.type \in KnownTypes /\ ~(Ruled(d) /\ TypeForbidden(d))
        /\ ~(Ruled(d) /\ OverCap(RuleOf(d), d.amount, rent))
  BY ErrorCodes DEF Valid, ErrorSet
<1>2. /\ d.currency \in Text /\ d.amount \in Int
      /\ d.tenant \in BOOLEAN /\ d.landlord \in BOOLEAN
  BY DEF Document
<1>3. d.currency # "" /\ ~(Ruled(d) /\ WrongCurrency(RuleOf(d), d))
        <=> d.currency \in LegalCurrency(d)
  <2>1. CASE Ruled(d)
    <3>1. RuleOf(d).Currency # ""
      BY <2>1, RuleFacts DEF Ruled, RuleOf, Usual
    <3>2. LegalCurrency(d) = {RuleOf(d).Currency}
      BY <2>1 DEF LegalCurrency, Ruled, RuleOf
    <3> QED
      BY <2>1, <3>1, <3>2 DEF WrongCurrency
  <2>2. CASE ~Ruled(d)
    BY <1>2, <2>2 DEF LegalCurrency, Ruled
  <2> QED
    BY <2>1, <2>2
<1>4. d.type # "" /\ d.type \in KnownTypes /\ ~(Ruled(d) /\ TypeForbidden(d))
        <=> d.type \in LegalTypes(d)
  <2>1. \A x \in KnownTypes : x # ""
    BY DEF KnownTypes
  <2>2. CASE Ruled(d)
    <3>1. \A t \in RuleOf(d).AllowedTypes : t \in KnownTypes
      <4>1. Usual(RuleOf(d))
        BY <2>2, RuleFacts, Zenon DEF Ruled, RuleOf
      <4> QED
        BY <4>1 DEF Usual
    <3>2. LegalTypes(d) = IF RuleOf(d).AllowedTypes # {}
                          THEN RuleOf(d).AllowedTypes ELSE KnownTypes
      BY <2>2 DEF LegalTypes, Ruled, RuleOf
    <3> QED
      BY <2>1, <2>2, <3>1, <3>2 DEF TypeForbidden
  <2>3. CASE ~Ruled(d)
    BY <2>1, <2>3 DEF Ruled, LegalTypes
  <2> QED
    BY <2>2, <2>3
<1>5. /\ ~(d.amount <= 0) /\ ~(Ruled(d) /\ OverCap(RuleOf(d), d.amount, rent))
           => d.amount \in 1 .. HighestAmount(d, rent)
      /\ d.amount \in 1 .. HighestAmount(d, rent) /\ ~OnTheEdge(d, rent)
           => ~(d.amount <= 0) /\ ~(Ruled(d) /\ OverCap(RuleOf(d), d.amount, rent))
  <2>1. CASE Ruled(d) /\ rent > 0
    <3>1. RuleOf(d).MaxMonths \in {100, 115, 200, 300, 600}
      <4>1. Usual(RuleOf(d))
        BY <2>1, RuleFacts DEF Ruled, RuleOf
      <4> QED
        BY <4>1 DEF Usual
    <3>2. PICK m \in {100, 115, 200, 300, 600} : m = RuleOf(d).MaxMonths
      BY <3>1
    <3>3. HighestAmount(d, rent) = (m * rent * 201) \div 20000
      BY <2>1, <3>2 DEF HighestAmount, Ruled, RuleOf
    <3>4. OverCap(RuleOf(d), d.amount, rent)
            <=> /\ d.amount > 0
                /\ \/ d.amount * 20000 > m * rent * 201
                   \/ /\ d.amount * 20000 = m * rent * 201
                      /\ FallsShort(m, rent, d.amount)
      BY <2>1, <3>2 DEF OverCap
    <3>5. OnTheEdge(d, rent) <=> d.amount * 20000 = m * rent * 201
      BY <2>1, <3>2 DEF OnTheEdge, Ruled, RuleOf
    <3>6. /\ (m * rent * 201) \div 20000 \in Int
          /\ d.amount * 20000 > m * rent * 201
               <=> ~(d.amount <= (m * rent * 201) \div 20000)
      BY <1>2, CapFacts
    <3> QED
      BY <1>2, <2>1, <3>3, <3>4, <3>5, <3>6
  <2>2. CASE ~(Ruled(d) /\ rent > 0)
    BY <1>2, <2>2 DEF HighestAmount, OverCap, Ruled
  <2> QED
    BY <2>1, <2>2
<1> QED
  BY <1>1, <1>3, <1>4, <1>5 DEF Lawful

(* An error that one of two documents of a country has and the other has not *)
(* is about a field in which they differ.                                    *)
LEMMA ErrorsAreLocal ==
  ASSUME NEW c \in Document, NEW d \in Document, NEW rent \in Int,
         c.country = d.country,
         NEW e \in Errors(d, rent), e \notin Errors(c, rent)
  PROVE  d[ErrorField[e]] # c[ErrorField[e]]
<1>1. CASE e = "MISSING_TENANT_FIELDS" \/ e = "MISSING_LANDLORD_NAME"
  <2>1. ErrorField[e] = IF e = "MISSING_TENANT_FIELDS" THEN "tenant"
                                                       ELSE "landlord"
    BY <1>1 DEF ErrorField
  <2> QED
    BY <1>1, <2>1, ErrorCodes
<1>2. CASE e = "INVALID_AMOUNT" \/ e = "CAP_EXCEEDED"
  <2>1. ErrorField[e] = "amount"
    BY <1>2 DEF ErrorField
  <2> QED
    BY <1>2, <2>1, ErrorCodes DEF Ruled, RuleOf
<1>3. CASE e = "MISSING_CURRENCY" \/ e = "WRONG_CURRENCY"
  <2>1. ErrorField[e] = "currency"
    BY <1>3 DEF ErrorField
  <2> QED
    BY <1>3, <2>1, ErrorCodes DEF Ruled, RuleOf, WrongCurrency
<1>4. CASE e = "MISSING_TYPE" \/ e = "UNKNOWN_TYPE" \/ e = "DISALLOWED_TYPE"
  <2>1. ErrorField[e] = "type"
    BY <1>4 DEF ErrorField
  <2> QED
    BY <1>4, <2>1, ErrorCodes DEF Ruled, RuleOf, TypeForbidden
<1>5. e \in ErrorSet
  BY ErrorCodes
<1> QED
  BY <1>1, <1>2, <1>3, <1>4, <1>5 DEF ErrorSet

(* What Create stores of a valid document: the version is filled in. *)
LEMMA ValidUnderDefaults ==
  ASSUME NEW d \in Document, NEW rent \in Int, Valid(d, rent)
  PROVE  WithDefaults(d) = [d EXCEPT !.version = TRUE]
<1>1. d.currency # ""
  BY ErrorCodes DEF Valid
<1> QED
  BY <1>1 DEF WithDefaults, Document

(* A version and a pledge the server writes into a document. *)
LEMMA ServerWrites ==
  ASSUME NEW d \in Document, NEW rent \in Int,
         NEW p \in SUBSET Text,
         NEW w \in Document, w = [d EXCEPT !.version = TRUE, !.pledge = p]
  PROVE  LET added == Findings(w, rent) \ Findings(d, rent)
         IN /\ added \subseteq {"UNEXPECTED_STATUTORY_BASIS"}
            /\ p = d.pledge => added = {}
            /\ p = {"BGB 551"} /\ d.country = "DE" => added = {}
<1>1. /\ w.tenant = d.tenant /\ w.landlord = d.landlord
      /\ w.amount = d.amount /\ w.currency = d.currency
      /\ w.type = d.type /\ w.country = d.country
      /\ w.trusteeship = d.trusteeship /\ w.version = TRUE /\ w.pledge = p
  BY DEF Document
<1>2. checkRequired(w) \subseteq checkRequired(d)
  <2>1. \A e : RequiredCode(w, e) => RequiredCode(d, e)
    BY <1>1 DEF RequiredCode
  <2> QED
    BY <2>1, RequiredCodes
<1>3. checkDepositType(w) = checkDepositType(d)
  BY <1>1 DEF checkDepositType
<1>4. \A rule : checkTrusteeship(rule, w) = checkTrusteeship(rule, d)
  BY <1>1 DEF checkTrusteeship
<1> DEFINE Basis(x, rule) ==
      Finding(x.pledge # {} /\ x.pledge \cap rule.StatutoryBases = {},
              "UNEXPECTED_STATUTORY_BASIS")
<1>5. \A rule :
        checkRule(rule, w, rent) \subseteq
          checkRule(rule, d, rent) \cup Basis(w, rule)
  <2>1. \A rule, e : RuleCode(rule, w, rent, e) =>
          \/ RuleCode(rule, d, rent, e)
          \/ e \in Basis(w, rule)
    BY <1>1 DEF RuleCode, WrongCurrency, Finding
  <2> QED
    BY <2>1, RuleCodes
<1>6. \A rule : Basis(w, rule) \subseteq {"UNEXPECTED_STATUTORY_BASIS"}
  BY DEF Finding
<1>7. \A rule : Basis(d, rule) \subseteq checkRule(rule, d, rent)
  BY DEF checkRule
<1>8. ASSUME d.country \in Country,
             \/ p = d.pledge
             \/ p = {"BGB 551"} /\ d.country = "DE"
      PROVE  Basis(w, RuleOf(d)) \subseteq Basis(d, RuleOf(d))
  <2>1. CASE p = d.pledge
    BY <1>1, <2>1
  <2>2. CASE p = {"BGB 551"} /\ d.country = "DE"
    <3>1. "BGB 551" \in RuleOf(d).StatutoryBases
      BY <1>8, <2>2, RuleFacts DEF RuleOf
    <3> QED
      BY <1>1, <2>2, <3>1 DEF Finding
  <2> QED
    BY <1>8, <2>1, <2>2
<1> HIDE DEF Basis
<1>9. /\ checkJurisdiction(w, rent) \subseteq
             checkJurisdiction(d, rent) \cup {"UNEXPECTED_STATUTORY_BASIS"}
      /\ (\/ p = d.pledge
          \/ p = {"BGB 551"} /\ d.country = "DE") =>
             checkJurisdiction(w, rent) \subseteq checkJurisdiction(d, rent)
  <2>1. CASE d.country = ""
    <3>1. checkJurisdiction(d, rent) = {} /\ checkJurisdiction(w, rent) = {}
      BY <1>1, <2>1 DEF checkJurisdiction, Country
    <3> QED
      BY <3>1
  <2>2. CASE d.country # "" /\ d.country \in Country
    <3>1. checkJurisdiction(d, rent) =
            checkRule(RuleOf(d), d, rent) \cup checkTrusteeship(RuleOf(d), d)
      BY <2>2 DEF checkJurisdiction, RuleOf
    <3>2. checkJurisdiction(w, rent) =
            checkRule(RuleOf(d), w, rent) \cup checkTrusteeship(RuleOf(d), d)
      BY <1>1, <1>4, <2>2 DEF checkJurisdiction, RuleOf
    <3> QED
      BY <1>5, <1>6, <1>7, <1>8, <2>2, <3>1, <3>2
  <2>3. CASE d.country # "" /\ d.country \notin Country
    <3>1. checkJurisdiction(d, rent) = {"UNKNOWN_JURISDICTION"}
      BY <2>3 DEF checkJurisdiction
    <3>2. checkJurisdiction(w, rent) = {"UNKNOWN_JURISDICTION"}
      BY <1>1, <2>3 DEF checkJurisdiction
    <3> QED
      BY <3>1, <3>2
  <2> QED
    BY <2>1, <2>2, <2>3
<1> QED
  BY <1>2, <1>3, <1>9 DEF Findings

-----------------------------------------------------------------------------
(* The inductive invariant: documents are documents, a report is what the    *)
(* checks say of its document, and a stored deposit is what was sent with    *)
(* the defaults and, once it is pledged, the German statute.                 *)
Stored ==
  [sent : Document, document : Document,
   state : {"REQUESTED", "IDENTIFIED", "PLEDGED"}]

StoredInv ==
  /\ stored \in Stored
  /\ \/ stored.document = WithDefaults(stored.sent)
     \/ stored.document =
          [WithDefaults(stored.sent) EXCEPT !.pledge = {"BGB 551"}]

ReportInv ==
  /\ report.document \in Document
  /\ report.rent \in Int
  /\ report.valid <=> Valid(report.document, report.rent)

ValidatorInv ==
  /\ draft \in Document
  /\ report # Nil => ReportInv
  /\ stored # Nil => StoredInv

(* The defaults CreateDeposit fills in leave a document well typed. *)
LEMMA DefaultsType ==
  ASSUME NEW d \in Document
  PROVE  WithDefaults(d) \in Document
<1>1. "EUR" \in Text
  BY ValidatorAssumption
<1> QED
  BY <1>1 DEF WithDefaults, Document

(* A client that changes one field still has a document. *)
LEMMA EditType ==
  ASSUME draft \in Document, Edit
  PROVE  draft' \in Document
<1>1. PICK f \in Fields : \E v \in Choices[f] : draft' = [draft EXCEPT ![f] = v]
  BY DEF Edit
<1>2. PICK v \in Choices[f] : draft' = [draft EXCEPT ![f] = v]
  BY <1>1
<1>3. CASE f \in {"tenant", "landlord", "version"}
  BY <1>2, <1>3, ValidatorAssumption DEF Document
<1>4. CASE f \in {"currency", "type", "country"}
  BY <1>2, <1>4, ValidatorAssumption DEF Document
<1>5. CASE f = "amount"
  BY <1>2, <1>5, ValidatorAssumption DEF Document
<1>6. CASE f = "pledge"
  BY <1>2, <1>6, ValidatorAssumption DEF Document
<1>7. CASE f = "trusteeship"
  BY <1>2, <1>7, ValidatorAssumption DEF Document
<1> QED
  BY <1>3, <1>4, <1>5, <1>6, <1>7 DEF Fields

(* Drafts, reports and stored deposits are what the handlers made them. *)
LEMMA ValidatorInvariance == ValidatorSpec => []ValidatorInv
<1>1. ValidatorInit => ValidatorInv
  BY ValidatorAssumption DEF ValidatorInit, ValidatorInv
<1>2. ValidatorInv /\ [ValidatorNext]_validatorVars => ValidatorInv'
  <2> SUFFICES ASSUME ValidatorInv, [ValidatorNext]_validatorVars
               PROVE  ValidatorInv'
    OBVIOUS
  <2>1. CASE Edit
    <3>1. draft' \in Document
      BY <2>1, EditType DEF ValidatorInv
    <3>2. report' = report /\ stored' = stored
      BY <2>1 DEF Edit
    <3> QED
      BY <3>1, <3>2 DEF ValidatorInv, ReportInv, StoredInv
  <2>2. CASE Validate
    <3>1. PICK rent \in Rents :
            report' = [document |-> draft, rent |-> rent,
                       valid |-> Valid(draft, rent)]
      BY <2>2 DEF Validate
    <3>2. ReportInv'
      BY <3>1, ValidatorAssumption DEF ValidatorInv, ReportInv, Valid
    <3> QED
      BY <2>2, <3>2 DEF Validate, ValidatorInv, StoredInv
  <2>3. CASE CreateDeposit
    <3>1. StoredInv'
      BY <2>3, DefaultsType DEF CreateDeposit, ValidatorInv, StoredInv, Stored
    <3> QED
      BY <2>3, <3>1 DEF CreateDeposit, ValidatorInv, ReportInv
  <2>4. CASE UpdateIdentity
    <3>1. StoredInv'
      BY <2>4 DEF UpdateIdentity, ValidatorInv, StoredInv, Stored
    <3> QED
      BY <2>4, <3>1 DEF UpdateIdentity, ValidatorInv, ReportInv
  <2>5. CASE Pledge
    <3>1. StoredInv
      BY <2>5 DEF Pledge, ValidatorInv
    <3>2. /\ stored'.sent = stored.sent
          /\ stored'.document = [stored.document EXCEPT !.pledge = {"BGB 551"}]
          /\ stored' \in Stored
      <4>1. "BGB 551" \in Text
        BY ValidatorAssumption
      <4> QED
        BY <2>5, <3>1, <4>1 DEF Pledge, StoredInv, Stored, Document
    <3>3. StoredInv'
      <4>1. WithDefaults(stored.sent) \in Document
        BY <3>1, DefaultsType DEF StoredInv, Stored
      <4>2. [stored.document EXCEPT !.pledge = {"BGB 551"}] =
              [WithDefaults(stored.sent) EXCEPT !.pledge = {"BGB 551"}]
        BY <3>1, <4>1 DEF StoredInv, Document
      <4> QED
        BY <3>2, <4>2 DEF StoredInv
    <3> QED
      BY <2>5, <3>3 DEF Pledge, ValidatorInv, ReportInv
  <2>6. CASE UNCHANGED validatorVars
    BY <2>6 DEF validatorVars, ValidatorInv, ReportInv, StoredInv
  <2> QED
    BY <2>1, <2>2, <2>3, <2>4, <2>5, <2>6 DEF ValidatorNext
<1> QED
  BY <1>1, <1>2, PTL DEF ValidatorSpec

(* Every report of /validate says "valid" for lawful documents only, and for *)
(* all of them but those on the very edge of the tolerance.                  *)
THEOREM ReportsMatchRules == ValidatorSpec => []ReportMatchesRules
<1>1. ValidatorInv => ReportMatchesRules
  BY ValidIsLawful DEF ValidatorInv, ReportInv, ReportMatchesRules
<1> QED
  BY <1>1, ValidatorInvariance, PTL

(* Correcting one field never brings up an error about another.              *)
THEOREM EditsAreLocal == ValidatorSpec => EditsStayLocal
<1>1. ValidatorInv /\ ValidatorInv' /\ [ValidatorNext]_validatorVars =>
        [\A rent \in Rents :
           draft'.country = draft.country =>
             \A e \in Errors(draft, rent)' \ Errors(draft, rent) :
               draft'[ErrorField[e]] # draft[ErrorField[e]]]_validatorVars
  <2> SUFFICES ASSUME ValidatorInv, ValidatorInv', NEW rent \in Rents,
                      draft'.country = draft.country,
                      NEW e \in Errors(draft', rent) \ Errors(draft, rent)
               PROVE  draft'[ErrorField[e]] # draft[ErrorField[e]]
    BY DEF Errors, Findings
  <2> QED
    BY ErrorsAreLocal, ValidatorAssumption DEF ValidatorInv
<1> QED
  BY <1>1, ValidatorInvariance, PTL DEF ValidatorSpec, EditsStayLocal

(* A document found valid is accepted, and its deposit stays valid.          *)
THEOREM ValidAlwaysStaysValid == ValidatorSpec => []ValidStaysValid
<1>1. ValidatorInv => ValidStaysValid
  <2> SUFFICES ASSUME ValidatorInv PROVE ValidStaysValid
    OBVIOUS
  <2>1. report # Nil /\ report.valid => Accepts(report.document)
    <3> SUFFICES ASSUME report # Nil, report.valid
                 PROVE  Accepts(report.document)
      OBVIOUS
    <3> DEFINE d == report.document
    <3>1. d \in Document /\ report.rent \in Int /\ Valid(d, report.rent)
      BY DEF ValidatorInv, ReportInv
    <3>2. d.tenant /\ d.landlord /\ ~(d.amount <= 0) /\ d.type # ""
      BY <3>1, ErrorCodes DEF Valid
    <3> HIDE DEF d
    <3>3. d.amount > 0
      <4>1. d.amount \in Int
        BY <3>1 DEF Document
      <4>2. ~(d.amount <= 0)
        BY <3>2, Zenon
      <4> QED
        BY <4>1, <4>2
    <3> QED
      BY <3>2, <3>3, Zenon DEF Accepts, d
  <2>2. ASSUME stored # Nil, NEW rent \in Rents, Valid(stored.sent, rent)
        PROVE  LET added == Findings(stored.document, rent)
                              \ Findings(stored.sent, rent)
               IN /\ added \subseteq {"UNEXPECTED_STATUTORY_BASIS"}
                  /\ stored.sent.country = "DE" => added = {}
    <3> DEFINE d == stored.sent
               w == stored.document
    <3>1. d \in Document /\ w \in Document /\ rent \in Int
      BY <2>2, ValidatorAssumption DEF ValidatorInv, StoredInv, Stored
    <3>2. WithDefaults(d) = [d EXCEPT !.version = TRUE]
      BY <2>2, <3>1, ValidUnderDefaults
    <3>3. \/ w = [d EXCEPT !.version = TRUE, !.pledge = d.pledge]
          \/ w = [d EXCEPT !.version = TRUE, !.pledge = {"BGB 551"}]
      BY <2>2, <3>1, <3>2 DEF ValidatorInv, StoredInv, Document
    <3>4. d.pledge \in SUBSET Text /\ {"BGB 551"} \in SUBSET Text
      <4>1. "BGB 551" \in Text
        BY ValidatorAssumption
      <4> QED
        BY <3>1, <4>1 DEF Document
    <3> HIDE DEF d, w
    <3>5. LET added == Findings(w, rent) \ Findings(d, rent)
          IN /\ added \subseteq {"UNEXPECTED_STATUTORY_BASIS"}
             /\ d.country = "DE" => added = {}
      BY <3>1, <3>3, <3>4, ServerWrites
    <3> QED
      BY <3>5 DEF d, w
  <2> QED
    BY <2>1, <2>2 DEF ValidStaysValid
<1> QED
  BY <1>1, ValidatorInvariance, PTL

-----------------------------------------------------------------------------
(* Taking a token apart *)

(* The provers have no induction over data; that a set of numbers has a      *)
(* least member does for the loop below.                                     *)
LEMMA LeastNumber ==
  ASSUME NEW T, T \subseteq Nat, T # {}
  PROVE  \E x \in T : \A y \in T : x <= y
<1> DEFINE R == OpToRel(<, Nat)
<1>1. IsWellFoundedOn(R, Nat)
  BY NatLessThanWellFounded
<1>2. \A x, y \in Nat : y < x => <<y, x>> \in R
  BY DEF OpToRel
<1> HIDE DEF R
<1>3. \E x \in T : \A y \in T : ~ (<<y, x>> \in R)
  BY <1>1, WFMin
<1>4. PICK x \in T : \A y \in T : ~ (<<y, x>> \in R)
  BY <1>3
<1>5. ASSUME NEW y \in T PROVE x <= y
  <2>1. x \in Nat /\ y \in Nat
    OBVIOUS
  <2>2. ~ (y < x)
    BY <1>2, <1>4, <2>1
  <2> QED
    BY <2>1, <2>2
<1> QED
  BY <1>5

(* The stretch of s from a to b. *)
Stretch(s, a, b) == [i \in 1 .. (b - a + 1) |-> s[a + i - 1]]

(* The next part, appended, makes a stretch longer by one. *)
LEMMA StretchGrows ==
  ASSUME NEW S, NEW s \in Seq(S), NEW a \in Nat \ {0}, NEW b \in Nat,
         a <= b, b <= Len(s)
  PROVE  Append(Stretch(s, a, b - 1), s[b]) = Stretch(s, a, b)
<1>1. \A i \in 1 .. Len(s) : s[i] \in S
  OBVIOUS
<1>2. Stretch(s, a, b - 1) \in Seq(S) /\ Len(Stretch(s, a, b - 1)) = b - a
  BY <1>1 DEF Stretch
<1>3. Stretch(s, a, b) \in Seq(S) /\ Len(Stretch(s, a, b)) = b - a + 1
  BY <1>1 DEF Stretch
<1> DEFINE t == Append(Stretch(s, a, b - 1), s[b])
<1>4. t \in Seq(S) /\ Len(t) = b - a + 1
  BY <1>1, <1>2
<1>5. ASSUME NEW i \in 1 .. (b - a + 1) PROVE t[i] = Stretch(s, a, b)[i]
  BY <1>1, <1>2 DEF Stretch
<1>6. t = Stretch(s, a, b)
  <2> HIDE DEF t
  <2> QED
    BY <1>3, <1>4, <1>5, SeqEqual
<1> QED
  BY <1>6

(* The loop in which a verifier collects the parts of some kinds: when they  *)
(* are those from a to b, it returns the stretch from a to b.                *)
LEMMA OfKindsStretch ==
  ASSUME NEW S, NEW s \in Seq(S), NEW kinds, NEW a \in Nat \ {0}, NEW b \in Nat,
         a <= b + 1, b <= Len(s),
         \A i \in 1 .. Len(s) : s[i].kind \in kinds <=> i \in a .. b
  PROVE  OfKinds(s, kinds) = Stretch(s, a, b)
<1> DEFINE n == Len(s)
           found == CHOOSE f :
             f = [i \in 0 .. n |->
                    IF i = 0 THEN << >>
                    ELSE IF s[i].kind \in kinds THEN Append(f[i - 1], s[i])
                    ELSE f[i - 1]]
           end(i) == IF i < a THEN a - 1 ELSE IF i <= b THEN i ELSE b
           g == [i \in 0 .. n |-> Stretch(s, a, end(i))]
<1>1. OfKinds(s, kinds) = found[n]
  BY DEF OfKinds
<1>2. n \in Nat
  BY LenProperties
<1>3. Stretch(s, a, a - 1) = << >>
  <2>1. Stretch(s, a, a - 1) \in Seq(S) /\ Len(Stretch(s, a, a - 1)) = 0
    BY DEF Stretch
  <2> QED
    BY <2>1
<1>4. ASSUME NEW i \in 1 .. n
      PROVE  /\ s[i].kind \in kinds => Append(g[i - 1], s[i]) = g[i]
             /\ s[i].kind \notin kinds => g[i - 1] = g[i]
  <2>1. g[i] = Stretch(s, a, end(i)) /\ g[i - 1] = Stretch(s, a, end(i - 1))
    BY <1>2
  <2>2. CASE s[i].kind \in kinds
    <3>1. i \in a .. b
      BY <2>2
    <3>2. end(i) = i /\ end(i - 1) = i - 1
      BY <3>1
    <3>3. i \in Nat /\ a <= i /\ i <= Len(s)
      BY <1>2, <3>1
    <3>4. Append(Stretch(s, a, i - 1), s[i]) = Stretch(s, a, i)
      BY <3>3, StretchGrows
    <3> QED
      BY <2>1, <2>2, <3>2, <3>4
  <2>3. CASE s[i].kind \notin kinds
    <3>1. i \notin a .. b
      BY <2>3
    <3>2. end(i) = end(i - 1)
      BY <1>2, <3>1
    <3> QED
      BY <2>1, <2>3, <3>2
  <2> QED
    BY <2>2, <2>3
<1>5. g[0] = << >>
  BY <1>2, <1>3
<1>6. DOMAIN g = 0 .. n /\ g = [i \in 0 .. n |-> g[i]]
  OBVIOUS
<1> HIDE DEF g, end
<1>7. g = [i \in 0 .. n |->
             IF i = 0 THEN << >>
             ELSE IF s[i].kind \in kinds THEN Append(g[i - 1], s[i])
             ELSE g[i - 1]]
  <2>1. ASSUME NEW i \in 0 .. n
        PROVE  g[i] = IF i = 0 THEN << >>
                      ELSE IF s[i].kind \in kinds THEN Append(g[i - 1], s[i])
                      ELSE g[i - 1]
    <3>1. i = 0 \/ i \in 1 .. n
      BY <1>2
    <3> HIDE DEF n
    <3> QED
      BY <1>4, <1>5, <3>1
  <2> HIDE DEF n
  <2> QED
    BY <1>6, <2>1
<1>8. found = [i \in 0 .. n |->
                 IF i = 0 THEN << >>
                 ELSE IF s[i].kind \in kinds THEN Append(found[i - 1], s[i])
                 ELSE found[i - 1]]
  BY <1>7
<1> HIDE DEF found
<1>a. \A i \in 0 .. n :
        found[i] = IF i = 0 THEN << >>
                   ELSE IF s[i].kind \in kinds THEN Append(found[i - 1], s[i])
                   ELSE found[i - 1]
  <2> HIDE DEF n
  <2> QED
    BY <1>8
<1>9. found[0] = << >>
  BY <1>2, <1>a
<1>10. ASSUME NEW i \in 1 .. n
       PROVE  /\ s[i].kind \in kinds => found[i] = Append(found[i - 1], s[i])
              /\ s[i].kind \notin kinds => found[i] = found[i - 1]
  <2>1. i \in 0 .. n /\ i # 0
    BY <1>2
  <2> HIDE DEF n
  <2> QED
    BY <1>a, <2>1
<1> DEFINE T == {i \in 0 .. n : found[i] # g[i]}
<1>11. T = {}
  <2> SUFFICES ASSUME T # {} PROVE FALSE
    OBVIOUS
  <2>1. PICK x \in T : \A y \in T : x <= y
    <3>1. T \subseteq Nat
      BY <1>2
    <3> HIDE DEF T
    <3> QED
      BY <3>1, LeastNumber
  <2>2. x \in 1 .. n /\ x - 1 \in 0 .. n
    BY <1>2, <1>5, <1>9, <2>1
  <2>3. found[x - 1] = g[x - 1]
    BY <1>2, <2>1, <2>2
  <2> QED
    BY <1>4, <1>10, <2>1, <2>2, <2>3
<1>12. found[n] = g[n]
  BY <1>2, <1>11
<1>13. g[n] = Stretch(s, a, b)
  BY <1>2, <1>3 DEF g, end
<1> QED
  BY <1>1, <1>12, <1>13

(* What may stand between two tildes. *)
Part == Disclosures \cup KbJwt \cup {Empty}

(* Of the parts s those of these kinds are t, and stand together after the   *)
(* first off.                                                                *)
Stands(s, t, kinds, off) ==
  /\ s \in Seq(Part) /\ t \in Seq(Part) /\ off \in Nat
  /\ off + Len(t) <= Len(s)
  /\ \A i \in 1 .. Len(t) : s[off + i] = t[i]
  /\ \A i \in 1 .. Len(s) :
       s[i].kind \in kinds <=> i \in (off + 1) .. (off + Len(t))

(* Then the loop finds t. *)
LEMMA Found ==
  ASSUME NEW s, NEW t, NEW kinds, NEW off, Stands(s, t, kinds, off)
  PROVE  OfKinds(s, kinds) = t
<1>1. /\ Len(s) \in Nat /\ Len(t) \in Nat /\ s \in Seq(Part) /\ t \in Seq(Part)
      /\ off \in Nat /\ \A i \in 1 .. Len(s) : s[i] \in Part
  BY LenProperties DEF Stands
<1> DEFINE a == off + 1
           b == off + Len(t)
<1>2. /\ a \in Nat \ {0} /\ b \in Nat /\ a <= b + 1 /\ b <= Len(s)
      /\ b - a + 1 = Len(t) /\ \A i \in Nat : a + i - 1 = off + i
  BY <1>1 DEF Stands
<1>3. /\ \A i \in 1 .. Len(s) : s[i].kind \in kinds <=> i \in a .. b
      /\ \A i \in 1 .. Len(t) : s[a + i - 1] = t[i]
  BY <1>1 DEF Stands
<1> HIDE DEF a, b
<1>4. OfKinds(s, kinds) = Stretch(s, a, b)
  BY <1>1, <1>2, <1>3, OfKindsStretch
<1>5. Stretch(s, a, b) = [i \in 1 .. Len(t) |-> s[a + i - 1]]
  BY <1>2 DEF Stretch
<1>6. \A i \in 1 .. Len(t) : s[a + i - 1] = t[i] /\ t[i] \in Part
  BY <1>1, <1>3
<1>7. Stretch(s, a, b) \in Seq(Part) /\ Len(Stretch(s, a, b)) = Len(t)
  BY <1>1, <1>5, <1>6
<1>8. ASSUME NEW i \in 1 .. Len(t) PROVE Stretch(s, a, b)[i] = t[i]
  BY <1>5, <1>6
<1>9. Stretch(s, a, b) = t
  BY <1>1, <1>7, <1>8, SeqEqual
<1> QED
  BY <1>4, <1>9

(* What none of the SDKs takes for a token: something among the disclosures  *)
(* that is none, or at the end something else than a key-binding JWT.        *)
Unreadable(split) ==
  \/ \E i \in DOMAIN split.disclosures : ~IsDisclosure(split.disclosures[i])
  \/ split.kb # None /\ ~IsDotted(split.kb)

(* The SDKs find in the token what the server finds, and no more. *)
Reads(t, ds, k) ==
  /\ SplitByPosition(t.parts) = [kb |-> k, disclosures |-> ds]
  /\ Len(KbJwts(t)) <= 1

(* How the verifiers take a token apart that shows ds and whose last         *)
(* key-binding JWT is k.                                                     *)
Apart(t, ds, k) ==
  /\ Shown(t) = ds
  /\ k = None => KbJwts(t) = << >>
  /\ k # None => KbJwts(t) = <<k>> \/ \E o \in KbJwt : KbJwts(t) = <<o, k>>
  /\ ServerSplit(t.parts) = [kb |-> k, disclosures |-> ds]
  /\ \/ Reads(t, ds, k)
     \/ ~WellFormed(t) /\ Unreadable(SplitByPosition(t.parts))

(* Every framing is taken apart in one of these ways. *)
LEMMA FramingsApart ==
  ASSUME NEW ds \in Seq(Disclosures), NEW kb \in KbJwt, NEW other \in KbJwt,
         NEW t, t.parts \in Framings(ds, kb, other)
  PROVE  \E k \in {None, kb} : Apart(t, ds, k)
<1> DEFINE s == t.parts
           n == Len(ds)
<1>1. /\ n \in Nat /\ ds \in Seq(Part)
      /\ \A i \in 1 .. n : ds[i] \in Disclosures /\ ds[i].kind = "disclosure"
  <2>1. n \in Nat /\ \A i \in 1 .. n : ds[i] \in Disclosures
    BY LenProperties, ElementOfSeq
  <2>2. \A d \in Disclosures : d.kind = "disclosure" /\ d \in Part
    BY DEF Disclosures, Part
  <2>3. ds \in Seq(Part)
    BY <2>2
  <2> QED
    BY <2>1, <2>2, <2>3
<1>2. /\ kb \in Part /\ kb.kind = "kb" /\ <<kb>> \in Seq(Part)
      /\ Empty \in Part /\ Empty.kind = "empty" /\ << >> \in Seq(Part)
  BY DEF Part, KbJwt, Empty
<1>o. other \in Part /\ other.kind = "kb" /\ <<other, kb>> \in Seq(Part)
  BY <1>2 DEF Part, KbJwt
<1>3. kb # None /\ None \notin Disclosures
  BY SdkAssumption
<1>c. /\ <<kb>> # << >> /\ <<kb>>[Len(<<kb>>)] = kb
      /\ <<other, kb>> # << >> /\ <<other, kb>>[Len(<<other, kb>>)] = kb
      /\ Len(<< >>) <= 1 /\ Len(<<kb>>) <= 1
  OBVIOUS
<1>4. OfKinds(ds, {"disclosure", "kb"}) = ds
  <2>1. Stands(ds, ds, {"disclosure", "kb"}, 0)
    BY <1>1 DEF Stands
  <2> QED
    BY <2>1, Found
<1>5. CASE s = ds \o <<kb>>
  <2>1. /\ s \in Seq(Part) /\ Len(s) = n + 1 /\ s[n + 1] = kb
        /\ \A i \in 1 .. n : s[i] = ds[i]
    BY <1>1, <1>2, <1>5
  <2>2. OfKinds(s, {"kb"}) = <<kb>>
    <3>1. Stands(s, <<kb>>, {"kb"}, n)
      BY <1>1, <1>2, <2>1 DEF Stands
    <3> QED
      BY <3>1, Found
  <2>3. OfKinds(s, {"disclosure"}) = ds
    <3>1. Stands(s, ds, {"disclosure"}, 0)
      BY <1>1, <1>2, <2>1 DEF Stands
    <3> QED
      BY <3>1, Found
  <2>4. SubSeq(s, 1, Len(s) - 1) = ds
    BY <1>1, <2>1
  <2>5. SplitByPosition(s) = [kb |-> kb, disclosures |-> ds]
    <3>1. Len(s) > 0 /\ IsNonEmpty(s[Len(s)]) /\ s[Len(s)] = kb
      BY <1>1, <1>2, <2>1 DEF IsNonEmpty
    <3> HIDE DEF s
    <3> QED
      BY <1>4, <2>4, <3>1 DEF SplitByPosition
  <2>6. ServerSplit(s) = [kb |-> kb, disclosures |-> ds]
    BY <1>c, <2>2, <2>3 DEF ServerSplit
  <2> QED
    BY <1>3, <1>c, <2>2, <2>3, <2>5, <2>6 DEF Apart, Reads, Shown, KbJwts
<1>6. CASE s = ds \o <<Empty>>
  <2>1. /\ s \in Seq(Part) /\ Len(s) = n + 1 /\ s[n + 1] = Empty
        /\ \A i \in 1 .. n : s[i] = ds[i]
    BY <1>1, <1>2, <1>6
  <2>2. OfKinds(s, {"kb"}) = << >>
    <3>1. Stands(s, << >>, {"kb"}, 0)
      BY <1>1, <1>2, <2>1 DEF Stands
    <3> QED
      BY <3>1, Found
  <2>3. OfKinds(s, {"disclosure"}) = ds /\ OfKinds(s, {"disclosure", "kb"}) = ds
    <3>1. Stands(s, ds, {"disclosure"}, 0)
      BY <1>1, <1>2, <2>1 DEF Stands
    <3>2. Stands(s, ds, {"disclosure", "kb"}, 0)
      BY <1>1, <1>2, <2>1 DEF Stands
    <3> QED
      BY <3>1, <3>2, Found
  <2>4. ~IsNonEmpty(s[Len(s)])
    BY <1>2, <2>1 DEF IsNonEmpty
  <2> HIDE DEF s
  <2>5. SplitByPosition(s) = [kb |-> None, disclosures |-> ds]
    BY <2>3, <2>4 DEF SplitByPosition
  <2>6. ServerSplit(s) = [kb |-> None, disclosures |-> ds]
    BY <2>2, <2>3 DEF ServerSplit
  <2> QED
    BY <1>c, <2>2, <2>3, <2>5, <2>6 DEF Apart, Reads, Shown, KbJwts, s
<1>w. ASSUME Shown(t) = ds, KbJwts(t) \in Seq(Part), Len(s) # n + 1
      PROVE  ~WellFormed(t)
  <2> SUFFICES ASSUME NEW tail \in {<<Empty>>, KbJwts(t)}, Len(tail) = 1,
                      s = ds \o tail
               PROVE  FALSE
    BY <1>w DEF WellFormed
  <2>1. tail \in Seq(Part) /\ Len(tail) = 1
    <3>1. CASE tail = <<Empty>>
      BY <1>2, <3>1
    <3>2. CASE tail = KbJwts(t)
      BY <1>w, <3>2
    <3> QED
      BY <3>1, <3>2
  <2>2. Len(ds \o tail) = n + 1
    <3>1. ds \in Seq(Part)
      BY <1>1
    <3>2. Len(ds \o tail) = Len(ds) + Len(tail)
      BY <2>1, <3>1, ConcatProperties, Zenon
    <3> QED
      BY <2>1, <3>2
  <2> QED
    BY <1>w, <2>2
<1>7. CASE s = ds
  <2>1. OfKinds(s, {"kb"}) = << >>
    <3>1. Stands(ds, << >>, {"kb"}, 0)
      BY <1>1, <1>2 DEF Stands
    <3> QED
      BY <1>7, <3>1, Found
  <2>2. OfKinds(s, {"disclosure"}) = ds
    <3>1. Stands(ds, ds, {"disclosure"}, 0)
      BY <1>1 DEF Stands
    <3> QED
      BY <1>7, <3>1, Found
  <2>3. ServerSplit(s) = [kb |-> None, disclosures |-> ds]
    BY <2>1, <2>2 DEF ServerSplit
  <2>4. CASE n = 0
    <3>1. SplitByPosition(s) = [kb |-> None, disclosures |-> ds]
      BY <1>4, <1>7, <2>4 DEF SplitByPosition
    <3> QED
      BY <1>c, <2>1, <2>2, <2>3, <3>1 DEF Apart, Reads, Shown, KbJwts
  <2>5. CASE n # 0
    <3>1. n > 0 /\ ds[n] \in Disclosures /\ ds[n].kind = "disclosure"
      BY <1>1, <2>5
    <3>2. SplitByPosition(s).kb = ds[n]
      BY <1>7, <3>1 DEF SplitByPosition, IsNonEmpty
    <3>3. Unreadable(SplitByPosition(s))
      BY <1>3, <3>1, <3>2 DEF Unreadable, IsDotted
    <3>4. ~WellFormed(t)
      BY <1>1, <1>2, <1>7, <1>w, <2>1, <2>2 DEF Shown, KbJwts
    <3> QED
      BY <2>1, <2>2, <2>3, <3>3, <3>4 DEF Apart, Shown, KbJwts
  <2> QED
    BY <2>4, <2>5
<1>8. ASSUME NEW u \in Seq(Part), NEW i \in 1 .. Len(u), u[i] = kb,
             OfKinds(s, {"disclosure", "kb"}) = u, OfKinds(s, {"disclosure"}) = ds,
             OfKinds(s, {"kb"}) = <<kb>>, ~IsNonEmpty(s[Len(s)]), Len(s) # n + 1
      PROVE  Apart(t, ds, kb)
  <2>1. ServerSplit(s) = [kb |-> kb, disclosures |-> ds]
    <3>1. OfKinds(s, {"kb"}) = <<kb>> /\ OfKinds(s, {"disclosure"}) = ds
      BY <1>8
    <3> QED
      BY <1>c, <3>1 DEF ServerSplit
  <2> HIDE DEF s
  <2>2. SplitByPosition(s).disclosures = u
    BY <1>8 DEF SplitByPosition
  <2>3. ~IsDisclosure(kb)
    BY <1>2 DEF IsDisclosure
  <2>4. Unreadable(SplitByPosition(s))
    BY <1>8, <2>2, <2>3 DEF Unreadable
  <2>5. ~WellFormed(t)
    BY <1>2, <1>8, <1>w DEF Shown, KbJwts, s
  <2> QED
    BY <1>3, <1>8, <2>1, <2>4, <2>5 DEF Apart, Shown, KbJwts, s
<1>9. CASE s = ds \o <<kb, Empty>>
  <2>1. /\ s \in Seq(Part) /\ Len(s) = n + 2 /\ s[n + 1] = kb /\ s[n + 2] = Empty
        /\ \A i \in 1 .. n : s[i] = ds[i]
    BY <1>1, <1>2, <1>9
  <2> DEFINE u == ds \o <<kb>>
  <2>2. /\ u \in Seq(Part) /\ Len(u) = n + 1 /\ u[n + 1] = kb
        /\ \A i \in 1 .. n : u[i] = ds[i]
    BY <1>1, <1>2
  <2> HIDE DEF s, u
  <2>3. Stands(s, <<kb>>, {"kb"}, n)
    BY <1>1, <1>2, <2>1 DEF Stands
  <2>4. Stands(s, ds, {"disclosure"}, 0)
    BY <1>1, <1>2, <2>1 DEF Stands
  <2>5. Stands(s, u, {"disclosure", "kb"}, 0)
    BY <1>1, <1>2, <2>1, <2>2 DEF Stands
  <2>6. ~IsNonEmpty(s[Len(s)])
    BY <1>2, <2>1 DEF IsNonEmpty
  <2>7. n + 1 \in 1 .. Len(u) /\ Len(s) # n + 1
    BY <1>1, <2>1, <2>2
  <2>8. /\ OfKinds(s, {"disclosure", "kb"}) = u /\ OfKinds(s, {"disclosure"}) = ds
        /\ OfKinds(s, {"kb"}) = <<kb>>
    BY <2>3, <2>4, <2>5, Found
  <2>9. Apart(t, ds, kb)
    BY <1>8, <2>2, <2>6, <2>7, <2>8
  <2> QED
    BY <2>9
<1>10. CASE s = <<kb>> \o ds \o <<Empty>>
  <2> DEFINE u == <<kb>> \o ds
  <2>1. /\ u \in Seq(Part) /\ Len(u) = n + 1 /\ u[1] = kb
        /\ \A i \in 1 .. n : u[1 + i] = ds[i]
    BY <1>1, <1>2
  <2>2. s = u \o <<Empty>>
    BY <1>10
  <2> HIDE DEF u
  <2>3. /\ s \in Seq(Part) /\ Len(s) = n + 2 /\ s[n + 2] = Empty
        /\ \A i \in 1 .. (n + 1) : s[i] = u[i]
    BY <1>1, <1>2, <2>1, <2>2
  <2> HIDE DEF s
  <2>4. s[1] = kb /\ \A i \in 1 .. n : s[1 + i] = ds[i]
    BY <1>1, <2>1, <2>3
  <2>a. \A i \in 2 .. (n + 1) : s[i].kind = "disclosure"
    <3> SUFFICES ASSUME NEW i \in 2 .. (n + 1) PROVE s[i].kind = "disclosure"
      OBVIOUS
    <3>1. i - 1 \in 1 .. n /\ i = 1 + (i - 1)
      BY <1>1
    <3>2. s[i] = ds[i - 1]
      BY <2>4, <3>1
    <3> QED
      BY <1>1, <3>1, <3>2
  <2>5. Stands(s, <<kb>>, {"kb"}, 0)
    BY <1>1, <1>2, <2>3, <2>4, <2>a DEF Stands
  <2>6. Stands(s, ds, {"disclosure"}, 1)
    BY <1>1, <1>2, <2>3, <2>4, <2>a DEF Stands
  <2>7. Stands(s, u, {"disclosure", "kb"}, 0)
    BY <1>1, <1>2, <2>1, <2>3, <2>4, <2>a DEF Stands
  <2>8. ~IsNonEmpty(s[Len(s)])
    BY <1>2, <2>3 DEF IsNonEmpty
  <2>9. 1 \in 1 .. Len(u) /\ Len(s) # n + 1
    BY <1>1, <2>1, <2>3
  <2>10. /\ OfKinds(s, {"disclosure", "kb"}) = u /\ OfKinds(s, {"disclosure"}) = ds
         /\ OfKinds(s, {"kb"}) = <<kb>>
    BY <2>5, <2>6, <2>7, Found
  <2>11. Apart(t, ds, kb)
    BY <1>8, <2>1, <2>8, <2>9, <2>10
  <2> QED
    BY <2>11
<1>11. CASE s = ds \o <<other, kb>>
  <2>1. /\ s \in Seq(Part) /\ Len(s) = n + 2 /\ s[n + 1] = other /\ s[n + 2] = kb
        /\ \A i \in 1 .. n : s[i] = ds[i]
    BY <1>1, <1>2, <1>o, <1>11
  <2> DEFINE u == ds \o <<other>>
  <2>2. /\ u \in Seq(Part) /\ Len(u) = n + 1 /\ u[n + 1] = other
        /\ \A i \in 1 .. n : u[i] = ds[i]
    BY <1>1, <1>o
  <2> HIDE DEF s, u
  <2>3. Stands(s, <<other, kb>>, {"kb"}, n)
    <3>1. /\ Len(<<other, kb>>) = 2 /\ <<other, kb>>[1] = other
          /\ <<other, kb>>[2] = kb
      OBVIOUS
    <3>2. \A i \in 1 .. 2 : s[n + i] = <<other, kb>>[i]
      BY <1>1, <2>1, <3>1
    <3>3. \A i \in 1 .. Len(s) : s[i].kind \in {"kb"} <=> i \in (n + 1) .. (n + 2)
      BY <1>1, <1>2, <1>o, <2>1
    <3> QED
      BY <1>1, <1>o, <2>1, <3>1, <3>2, <3>3 DEF Stands
  <2>4. Stands(s, ds, {"disclosure"}, 0)
    BY <1>1, <1>2, <1>o, <2>1 DEF Stands
  <2>5. Stands(u, u, {"disclosure", "kb"}, 0)
    BY <1>1, <1>o, <2>2 DEF Stands
  <2>6. SubSeq(s, 1, Len(s) - 1) = u
    <3>1. Len(s) - 1 = n + 1 /\ Len(s) - 1 \in Nat
      BY <1>1, <2>1
    <3>2. /\ SubSeq(s, 1, n + 1) \in Seq(Part) /\ Len(SubSeq(s, 1, n + 1)) = n + 1
          /\ \A i \in 1 .. (n + 1) : SubSeq(s, 1, n + 1)[i] = s[i]
      BY <1>1, <2>1
    <3>3. \A i \in 1 .. (n + 1) : s[i] = u[i]
      BY <1>1, <2>1, <2>2
    <3> QED
      BY <2>2, <3>1, <3>2, <3>3, SeqEqual
  <2>7. /\ OfKinds(u, {"disclosure", "kb"}) = u /\ OfKinds(s, {"disclosure"}) = ds
        /\ OfKinds(s, {"kb"}) = <<other, kb>>
    BY <2>3, <2>4, <2>5, Found
  <2>8. Len(s) > 0 /\ IsNonEmpty(s[Len(s)])
    BY <1>1, <1>2, <2>1 DEF IsNonEmpty
  <2>9. SplitByPosition(s).disclosures = u
    BY <2>6, <2>7, <2>8 DEF SplitByPosition
  <2>10. Unreadable(SplitByPosition(s))
    <3>1. n + 1 \in DOMAIN u /\ ~IsDisclosure(u[n + 1])
      BY <1>1, <1>o, <2>2 DEF IsDisclosure
    <3> QED
      BY <2>9, <3>1 DEF Unreadable
  <2>11. ServerSplit(s) = [kb |-> kb, disclosures |-> ds]
    BY <1>c, <2>7 DEF ServerSplit
  <2>12. Len(s) # n + 1
    BY <1>1, <2>1
  <2>13. ~WellFormed(t)
    BY <1>o, <1>w, <2>7, <2>12 DEF Shown, KbJwts, s
  <2>14. Apart(t, ds, kb)
    BY <1>3, <2>7, <2>10, <2>11, <2>13 DEF Apart, Shown, KbJwts, s
  <2> QED
    BY <2>14
<1> QED
  BY <1>5, <1>6, <1>7, <1>9, <1>10, <1>11 DEF Framings

(* Whose VerifyVpToken it is. *)
LEMMA Dispatch ==
  ASSUME NEW t, NEW q, NEW time
  PROVE  /\ VerifyVpToken("server", t, q, time) = ServerVerifyVpToken(t, q, time)
         /\ VerifyVpToken("go", t, q, time) = GoVerifyVpToken(t, q, time)
         /\ VerifyVpToken("ts", t, q, time) = TsVerifyVpToken(t, q, time)
         /\ VerifyVpToken("rust", t, q, time) = RustVerifySdJwtVp(t, q, time)
         /\ VerifyVpToken("java", t, q, time) = JavaVerifyVpToken(t, q, time)
BY DEF VerifyVpToken

(* What each verifier asks of a token that shows ds and is bound by k. *)
LEMMA Decisions ==
  ASSUME NEW t, NEW ds, NEW k, NEW q, NEW time, Apart(t, ds, k)
  PROVE  /\ ServerVerifyVpToken(t, q, time) <=>
              /\ ServerVerifyIssuerJWT(t.credential, time)
              /\ Listed(ds, t.credential) /\ HaveSize(ds, {3})
              /\ k # None => ServerVerifyKbJWT(k, t.credential, ds, q, time)
         /\ GoVerifyVpToken(t, q, time) <=>
              /\ Reads(t, ds, k)
              /\ GoVerifyIssuerJWT(t.credential, time)
              /\ Listed(ds, t.credential) /\ HaveSize(ds, {3, 4})
              /\ k # None => GoVerifyKbJWT(k, t.credential, ds, q, time)
         /\ TsVerifyVpToken(t, q, time) <=>
              /\ Reads(t, ds, k)
              /\ TsParseIssuerJwt(t.credential, time)
              /\ Listed(ds, t.credential) /\ HaveSize(ds, {3, 4})
              /\ k # None => TsVerifyKbJwt(k, t.credential, ds, q, time)
         /\ RustVerifySdJwtVp(t, q, time) <=>
              /\ Reads(t, ds, k)
              /\ RustParseIssuerJwtClaims(t.credential)
              /\ Listed(ds, t.credential) /\ HaveSize(ds, {3, 4})
              /\ k # None => RustVerifyKbJwt(k, t.credential, ds, q, time)
         /\ JavaVerifyVpToken(t, q, time) <=>
              /\ Reads(t, ds, k)
              /\ JavaParseIssuerJwt(t.credential, time)
              /\ Listed(ds, t.credential) /\ JavaParseDisclosures(ds)
              /\ k # None => JavaVerifyKbJwt(k, t.credential, ds, q, time)
         /\ WellFormed(t) => Reads(t, ds, k)
<1>1. /\ ServerSplit(t.parts).kb = k /\ ServerSplit(t.parts).disclosures = ds
      /\ WellFormed(t) => Reads(t, ds, k)
  BY DEF Apart, Reads
<1>2. ServerVerifyVpToken(t, q, time) <=>
        /\ ServerVerifyIssuerJWT(t.credential, time)
        /\ Listed(ds, t.credential) /\ HaveSize(ds, {3})
        /\ k # None => ServerVerifyKbJWT(k, t.credential, ds, q, time)
  BY <1>1 DEF ServerVerifyVpToken
<1>3. CASE Reads(t, ds, k)
  <2>1. SplitByPosition(t.parts).kb = k /\ SplitByPosition(t.parts).disclosures = ds
    BY <1>3 DEF Reads
  <2> QED
    BY <1>1, <1>2, <1>3, <2>1
    DEF GoVerifyVpToken, TsVerifyVpToken, RustVerifySdJwtVp, JavaVerifyVpToken
<1>4. CASE ~Reads(t, ds, k)
  <2> DEFINE split == SplitByPosition(t.parts)
  <2>1. Unreadable(split)
    BY <1>4 DEF Apart, Reads
  <2>2. CASE \E i \in DOMAIN split.disclosures : ~IsDisclosure(split.disclosures[i])
    <3>1. /\ \A sizes : ~HaveSize(split.disclosures, sizes)
          /\ ~JavaParseDisclosures(split.disclosures)
      BY <2>2 DEF HaveSize, JavaParseDisclosures
    <3> QED
      BY <1>2, <1>1, <1>4, <3>1
      DEF GoVerifyVpToken, TsVerifyVpToken, RustVerifySdJwtVp, JavaVerifyVpToken
  <2>3. CASE split.kb # None /\ ~IsDotted(split.kb)
    <3>1. ~IsKbJwt(split.kb)
      BY <2>3 DEF IsKbJwt
    <3> QED
      BY <1>2, <1>1, <1>4, <2>3, <3>1
      DEF GoVerifyVpToken, TsVerifyVpToken, RustVerifySdJwtVp, JavaVerifyVpToken,
          GoVerifyKbJWT, TsVerifyKbJwt, RustVerifyKbJwt, JavaVerifyKbJwt
  <2> QED
    BY <2>1, <2>2, <2>3 DEF Unreadable
<1> QED
  BY <1>3, <1>4

(* Half seconds and seconds: at the latest instant of its time a key-binding *)
(* JWT is not yet too old in seconds.                                        *)
LEMMA Ages ==
  ASSUME NEW time \in Nat, NEW k, k.iat \in Int
  PROVE  /\ Second(time) \in Nat
         /\ IsRecentInstant(k, time) => k.iat >= Second(time) - MaxAge
         /\ IsRecentSecond(k, time) <=>
              k.iat >= Second(time) - MaxAge /\ k.iat <= Second(time) + MaxSkew
         /\ IsRecentNumber(k, time) => k.iat >= Second(time) - MaxAge
         /\ ~k.fraction => (IsRecentNumber(k, time) <=> IsRecentSecond(k, time))
<1>1. /\ time \div 2 \in Nat
      /\ time = 2 * (time \div 2) \/ time = 2 * (time \div 2) + 1
  OBVIOUS
<1>2. MaxAge \in Nat /\ MaxSkew \in Nat
  BY SdkAssumption
<1> QED
  BY <1>1, <1>2 DEF Second, IsRecentInstant, IsRecentSecond, IsRecentNumber

-----------------------------------------------------------------------------
(* The invariant *)

(* A token as a wallet makes them. *)
Presented(t) ==
  /\ t.credential \in Credential
  /\ \E ds \in Seq(Disclosures), kb \in KbJwt, other \in KbJwt :
       t.parts \in Framings(ds, kb, other)

Requested(q) ==
  q.verifier \in Verifiers /\ q.nonce = "fresh" /\ q.uri = "ours"

(* What came to a verifier or an SDK keeps its form, and when it accepts the *)
(* time stands still: it would still accept.                                 *)
SdkInv ==
  /\ now \in Nat
  /\ request = None => token = None
  /\ access # None => request = None
  /\ token = None /\ access = None => result = None
  /\ request # None => Requested(request)
  /\ token # None => Presented(token)
  /\ access # None => access.token \in AccessToken /\ access.sdk \in SdkNames
  /\ token # None /\ Accepted =>
       VerifyVpToken(request.verifier, token, request, now)
  /\ access # None /\ Accepted =>
       ValidateToken(access.sdk, access.token, access.required, now)

(* The list is not empty and ends with k. *)
LastOf(kbs, k) == kbs # << >> /\ kbs[Len(kbs)] = k /\ k \in Range(kbs)

(* What the verifiers find in a token that was presented. *)
LEMMA TokenFacts ==
  ASSUME SdkInv, token # None
  PROVE  \E ds \in Seq(Disclosures), k \in KbJwt \cup {None} :
           /\ Apart(token, ds, k)
           /\ \A i \in DOMAIN ds : IsDisclosure(ds[i])
           /\ Range(Shown(token)) = {ds[i] : i \in DOMAIN ds}
           /\ k # None => k \in KbJwt /\ LastOf(KbJwts(token), k)
           /\ k = None => KbJwts(token) = << >>
<1>1. PICK ds \in Seq(Disclosures), kb \in KbJwt, other \in KbJwt :
        token.parts \in Framings(ds, kb, other)
  BY DEF SdkInv, Presented
<1>2. PICK k \in {None, kb} : Apart(token, ds, k)
  BY <1>1, FramingsApart
<1>3. \A i \in DOMAIN ds : IsDisclosure(ds[i])
  <2>1. \A i \in DOMAIN ds : ds[i] \in Disclosures
    OBVIOUS
  <2> QED
    BY <2>1 DEF Disclosures, IsDisclosure
<1>4. Range(Shown(token)) = {ds[i] : i \in DOMAIN ds}
  BY <1>2 DEF Apart, Range
<1>5. ASSUME k # None
      PROVE  k \in KbJwt /\ LastOf(KbJwts(token), k)
  <2>1. k \in KbJwt
    BY <1>5
  <2>2. KbJwts(token) = <<k>> \/ \E o \in KbJwt : KbJwts(token) = <<o, k>>
    BY <1>2, <1>5 DEF Apart
  <2>3. LastOf(<<k>>, k)
    BY DEF LastOf, Range
  <2>4. ASSUME NEW o \in KbJwt PROVE LastOf(<<o, k>>, k)
    <3>1. <<o, k>> # << >> /\ Len(<<o, k>>) = 2 /\ <<o, k>>[2] = k
      OBVIOUS
    <3>2. 2 \in DOMAIN <<o, k>>
      OBVIOUS
    <3> QED
      BY <3>1, <3>2 DEF LastOf, Range
  <2> QED
    BY <2>1, <2>2, <2>3, <2>4
<1>6. ASSUME k = None PROVE KbJwts(token) = << >>
  BY <1>2, <1>6 DEF Apart
<1> QED
  BY <1>2, <1>3, <1>4, <1>5, <1>6

(* In every such state a conforming answer is accepted. *)
LEMMA ConformingAccepted ==
  ASSUME SdkInv
  PROVE  ConformingIsAccepted
<1> SUFFICES ASSUME token # None, Conforming(token)
             PROVE  \A v \in Verifiers : VerifyVpToken(v, token, request, now)
  BY DEF ConformingIsAccepted
<1>1. PICK ds \in Seq(Disclosures), k \in KbJwt \cup {None} :
        /\ Apart(token, ds, k)
        /\ \A i \in DOMAIN ds : IsDisclosure(ds[i])
        /\ Range(Shown(token)) = {ds[i] : i \in DOMAIN ds}
        /\ k # None => k \in KbJwt /\ LastOf(KbJwts(token), k)
        /\ k = None => KbJwts(token) = << >>
  BY TokenFacts
<1> DEFINE c == token.credential
<1>2. /\ c.signature = "current" /\ c.vct /\ c.complete /\ Second(now) < c.exp
      /\ \A d \in c.sd : d.size = 3
  BY DEF Conforming, Issued
<1>3. \A i \in DOMAIN ds : ds[i] \in c.sd
  BY <1>1 DEF Conforming
<1>4. /\ Listed(ds, c) /\ HaveSize(ds, {3}) /\ HaveSize(ds, {3, 4})
      /\ JavaParseDisclosures(ds)
  BY <1>1, <1>2, <1>3 DEF Listed, HaveSize, JavaParseDisclosures
<1>5. k # None => /\ IsKbJwt(k) /\ k.jws /\ ~k.list /\ ~k.fraction
                  /\ IsBound(k, c, ds, request) /\ InTime(k)
  BY <1>1 DEF Conforming, Apart, LastOf
<1>6. now \in Nat
  BY DEF SdkInv
<1>7. k # None => /\ IsRecentInstant(k, now) /\ IsRecentSecond(k, now)
                  /\ IsRecentNumber(k, now)
  <2>1. k # None => k.iat \in Int
    BY <1>1 DEF KbJwt
  <2> QED
    BY <1>5, <1>6, <2>1, Ages DEF InTime
<1>8. WellFormed(token)
  BY DEF Conforming
<1>9. Reads(token, ds, k)
  BY <1>1, <1>8, Decisions
<1>10. /\ ServerVerifyIssuerJWT(c, now) /\ GoVerifyIssuerJWT(c, now)
       /\ TsParseIssuerJwt(c, now) /\ RustParseIssuerJwtClaims(c)
       /\ JavaParseIssuerJwt(c, now)
  BY <1>2 DEF ServerVerifyIssuerJWT, GoVerifyIssuerJWT, TsParseIssuerJwt,
              RustParseIssuerJwtClaims, JavaParseIssuerJwt
<1>11. k # None => /\ ServerVerifyKbJWT(k, c, ds, request, now)
                   /\ GoVerifyKbJWT(k, c, ds, request, now)
                   /\ TsVerifyKbJwt(k, c, ds, request, now)
                   /\ RustVerifyKbJwt(k, c, ds, request, now)
                   /\ JavaVerifyKbJwt(k, c, ds, request, now)
  BY <1>5, <1>7 DEF ServerVerifyKbJWT, GoVerifyKbJWT, TsVerifyKbJwt, RustVerifyKbJwt,
                    JavaVerifyKbJwt
<1>12. /\ ServerVerifyVpToken(token, request, now) /\ GoVerifyVpToken(token, request, now)
       /\ TsVerifyVpToken(token, request, now) /\ RustVerifySdJwtVp(token, request, now)
       /\ JavaVerifyVpToken(token, request, now)
  BY <1>1, <1>4, <1>9, <1>10, <1>11, Decisions
<1> QED
  BY <1>12, Dispatch DEF Verifiers

(* In every such state what is accepted is bound to the request. *)
LEMMA AcceptedBound ==
  ASSUME SdkInv
  PROVE  AcceptedIsBound
<1> DEFINE c == token.credential
           kbs == KbJwts(token)
           last == kbs[Len(kbs)]
<1> SUFFICES ASSUME token # None, Accepted
             PROVE  /\ Range(Shown(token)) \subseteq c.sd
                    /\ kbs # << >> =>
                         /\ IsBound(last, c, Shown(token), request)
                         /\ last.iat >= Second(now) - MaxAge
                    /\ request.verifier = "server" \/ Len(kbs) <= 1
                    /\ \/ request.verifier = "rust"
                       \/ Second(now) < c.exp
                       \/ request.verifier = "server" /\ c.exp = 0
  BY DEF AcceptedIsBound
<1>1. PICK ds \in Seq(Disclosures), k \in KbJwt \cup {None} :
        /\ Apart(token, ds, k)
        /\ \A i \in DOMAIN ds : IsDisclosure(ds[i])
        /\ Range(Shown(token)) = {ds[i] : i \in DOMAIN ds}
        /\ k # None => k \in KbJwt /\ LastOf(KbJwts(token), k)
        /\ k = None => KbJwts(token) = << >>
  BY TokenFacts
<1>2. /\ now \in Nat /\ request.verifier \in Verifiers
      /\ VerifyVpToken(request.verifier, token, request, now)
  BY DEF SdkInv, Requested
<1>3. /\ request.verifier = "server" => ServerVerifyVpToken(token, request, now)
      /\ request.verifier = "go" => GoVerifyVpToken(token, request, now)
      /\ request.verifier = "ts" => TsVerifyVpToken(token, request, now)
      /\ request.verifier = "rust" => RustVerifySdJwtVp(token, request, now)
      /\ request.verifier = "java" => JavaVerifyVpToken(token, request, now)
  BY <1>2, Dispatch
<1>4. Listed(ds, c)
  BY <1>1, <1>2, <1>3, Decisions DEF Verifiers
<1>5. k # None => IsBound(k, c, ds, request)
                  /\ \/ IsRecentInstant(k, now)
                     \/ IsRecentSecond(k, now)
                     \/ IsRecentNumber(k, now)
  BY <1>1, <1>2, <1>3, Decisions
  DEF Verifiers, ServerVerifyKbJWT, GoVerifyKbJWT, TsVerifyKbJwt, RustVerifyKbJwt,
      JavaVerifyKbJwt
<1>6. k # None => k.iat >= Second(now) - MaxAge
  <2>1. k # None => k.iat \in Int
    BY <1>1 DEF KbJwt
  <2> QED
    BY <1>2, <1>5, <2>1, Ages
<1>7. \/ request.verifier = "rust"
      \/ Second(now) < c.exp
      \/ request.verifier = "server" /\ c.exp = 0
  BY <1>1, <1>2, <1>3, Decisions
  DEF Verifiers, ServerVerifyIssuerJWT, GoVerifyIssuerJWT, TsParseIssuerJwt,
      JavaParseIssuerJwt
<1>8. Range(Shown(token)) \subseteq c.sd
  BY <1>1, <1>4 DEF Listed
<1>9. kbs # << >> => IsBound(last, c, Shown(token), request)
                     /\ last.iat >= Second(now) - MaxAge
  <2>1. kbs # << >> => k # None /\ last = k
    BY <1>1 DEF LastOf
  <2>2. Shown(token) = ds
    BY <1>1 DEF Apart
  <2> QED
    BY <1>5, <1>6, <2>1, <2>2
<1>10. request.verifier = "server" \/ Len(kbs) <= 1
  <2>1. request.verifier # "server" => Reads(token, ds, k)
    BY <1>1, <1>2, <1>3, Decisions DEF Verifiers
  <2> QED
    BY <2>1 DEF Reads
<1> QED
  BY <1>7, <1>8, <1>9, <1>10

(* In every such state the verifiers agree as far as VerifiersAgree says. *)
LEMMA AgreementOfVerifiers ==
  ASSUME SdkInv
  PROVE  VerifiersAgree
<1> SUFFICES ASSUME token # None PROVE VerifiersAgree
  BY DEF VerifiersAgree
<1>1. PICK ds \in Seq(Disclosures), k \in KbJwt \cup {None} :
        /\ Apart(token, ds, k)
        /\ \A i \in DOMAIN ds : IsDisclosure(ds[i])
        /\ Range(Shown(token)) = {ds[i] : i \in DOMAIN ds}
        /\ k # None => k \in KbJwt /\ LastOf(KbJwts(token), k)
        /\ k = None => KbJwts(token) = << >>
  BY TokenFacts
<1> DEFINE c == token.credential
           kbs == Range(KbJwts(token))
           fresh == \A kb \in kbs : IsRecentInstant(kb, now)
           whole == \A kb \in kbs : ~kb.fraction
           proper == \A kb \in kbs : kb.jws
           server == ServerVerifyVpToken(token, request, now)
           go == GoVerifyVpToken(token, request, now)
           ts == TsVerifyVpToken(token, request, now)
           rust == RustVerifySdJwtVp(token, request, now)
           java == JavaVerifyVpToken(token, request, now)
<1>2. now \in Nat /\ c \in Credential
  BY DEF SdkInv, Presented
<1>3. (go => ts) /\ (ts /\ whole => go)
  <2>1. GoVerifyIssuerJWT(c, now) <=> TsParseIssuerJwt(c, now)
    BY DEF GoVerifyIssuerJWT, TsParseIssuerJwt
  <2>2. k # None => k.iat \in Int
    BY <1>1 DEF KbJwt
  <2>3. k # None /\ whole => ~k.fraction
    BY <1>1 DEF LastOf
  <2>4. k # None /\ ~k.fraction =>
          (IsRecentNumber(k, now) <=> IsRecentSecond(k, now))
    BY <1>2, <2>2, Ages
  <2>5. k # None /\ GoVerifyKbJWT(k, c, ds, request, now) =>
          TsVerifyKbJwt(k, c, ds, request, now)
    BY <2>4 DEF GoVerifyKbJWT, TsVerifyKbJwt
  <2>6. k # None /\ whole /\ TsVerifyKbJwt(k, c, ds, request, now) =>
          GoVerifyKbJWT(k, c, ds, request, now)
    BY <2>3, <2>4 DEF GoVerifyKbJWT, TsVerifyKbJwt
  <2> HIDE DEF whole
  <2> QED
    BY <1>1, <2>1, <2>5, <2>6, Decisions
<1>4. /\ k # None /\ fresh => IsRecentInstant(k, now)
      /\ k # None /\ proper => k.jws
  BY <1>1 DEF LastOf
<1>5. HaveSize(ds, {3, 4}) => JavaParseDisclosures(ds)
  BY DEF HaveSize, JavaParseDisclosures
<1>6. go /\ fresh => java
  <2>1. GoVerifyIssuerJWT(c, now) => JavaParseIssuerJwt(c, now)
    BY DEF GoVerifyIssuerJWT, JavaParseIssuerJwt
  <2>2. k # None /\ fresh /\ GoVerifyKbJWT(k, c, ds, request, now) =>
          JavaVerifyKbJwt(k, c, ds, request, now)
    BY <1>4 DEF GoVerifyKbJWT, JavaVerifyKbJwt
  <2> HIDE DEF fresh
  <2> QED
    BY <1>1, <1>5, <2>1, <2>2, Decisions
<1>7. go /\ c.complete => rust
  <2>1. GoVerifyIssuerJWT(c, now) /\ c.complete => RustParseIssuerJwtClaims(c)
    BY DEF GoVerifyIssuerJWT, RustParseIssuerJwtClaims
  <2>2. GoVerifyKbJWT(k, c, ds, request, now) => RustVerifyKbJwt(k, c, ds, request, now)
    BY DEF GoVerifyKbJWT, RustVerifyKbJwt
  <2> QED
    BY <1>1, <2>1, <2>2, Decisions
<1>8. Issued(c) /\ Listed(ds, c) => HaveSize(ds, {3}) /\ HaveSize(ds, {3, 4})
  BY <1>1 DEF Issued, Listed, HaveSize
<1>9. go /\ fresh /\ Issued(c) /\ proper => server
  <2>1. GoVerifyIssuerJWT(c, now) /\ Issued(c) => ServerVerifyIssuerJWT(c, now)
    BY DEF GoVerifyIssuerJWT, Issued, ServerVerifyIssuerJWT
  <2>2. k # None /\ fresh /\ proper /\ GoVerifyKbJWT(k, c, ds, request, now) =>
          ServerVerifyKbJWT(k, c, ds, request, now)
    BY <1>4 DEF GoVerifyKbJWT, ServerVerifyKbJWT
  <2> HIDE DEF fresh, proper
  <2> QED
    BY <1>1, <1>8, <2>1, <2>2, Decisions
<1>10. server /\ Issued(c) /\ WellFormed(token) /\ whole
         /\ (\A kb \in kbs : ~kb.list /\ InTime(kb)) => go
  <2> SUFFICES ASSUME server, Issued(c), WellFormed(token), whole,
                      \A kb \in kbs : ~kb.list /\ InTime(kb)
               PROVE  go
    OBVIOUS
  <2>1. ServerVerifyIssuerJWT(c, now) => GoVerifyIssuerJWT(c, now)
    BY DEF GoVerifyIssuerJWT, Issued, ServerVerifyIssuerJWT
  <2>2. k # None => ~k.list /\ ~k.fraction /\ InTime(k) /\ k.iat \in Int
    BY <1>1 DEF LastOf, KbJwt
  <2>3. k # None => IsRecentSecond(k, now)
    BY <1>2, <2>2, Ages DEF InTime
  <2>4. k # None /\ ServerVerifyKbJWT(k, c, ds, request, now) =>
          GoVerifyKbJWT(k, c, ds, request, now)
    BY <2>2, <2>3 DEF GoVerifyKbJWT, ServerVerifyKbJWT
  <2> QED
    BY <1>1, <1>8, <2>1, <2>4, Decisions
<1> HIDE DEF server, go, ts, rust, java
<1>11. /\ VerifyVpToken("server", token, request, now) = server
       /\ VerifyVpToken("go", token, request, now) = go
       /\ VerifyVpToken("ts", token, request, now) = ts
       /\ VerifyVpToken("rust", token, request, now) = rust
       /\ VerifyVpToken("java", token, request, now) = java
  BY Dispatch DEF server, go, ts, rust, java
<1> QED
  BY <1>3, <1>6, <1>7, <1>9, <1>10, <1>11 DEF VerifiersAgree

(* Whose ValidateToken it is. *)
LEMMA SdkDispatch ==
  ASSUME NEW t, NEW required, NEW time
  PROVE  /\ ValidateToken("go", t, required, time) = GoValidateToken(t, required, time)
         /\ ValidateToken("ts", t, required, time) = TsValidateToken(t, required, time)
         /\ ValidateToken("rust", t, required, time) = RustValidateToken(t, required, time)
         /\ ValidateToken("java", t, required, time) = JavaValidateToken(t, required, time)
BY DEF ValidateToken

(* The first scope, the only one Java sees, is one of the token's. *)
LEMMA FirstScope ==
  ASSUME NEW t \in AccessToken, t.scope \notin {Absent, << >>}
  PROVE  JavaExtractScope(t.scope) \subseteq Scopes(t.scope)
<1>1. t.scope \in Seq(STRING) /\ t.scope # << >>
  BY DEF AccessToken
<1>2. 1 \in DOMAIN t.scope
  BY <1>1
<1> QED
  BY <1>2 DEF JavaExtractScope, Scopes, Range

(* In every such state a grant is covered by the token. *)
LEMMA GrantCovered ==
  ASSUME SdkInv
  PROVE  GrantIsCovered
<1> SUFFICES ASSUME access # None, Accepted
             PROVE  /\ access.token.iss = Issuer
                    /\ Clock(now) <= access.token.exp
                    /\ access.required \subseteq Scopes(access.token.scope)
  BY DEF GrantIsCovered
<1>1. /\ access.sdk \in SdkNames /\ access.token \in AccessToken
      /\ ValidateToken(access.sdk, access.token, access.required, now)
  BY DEF SdkInv
<1>2. \/ GoValidateToken(access.token, access.required, now)
      \/ TsValidateToken(access.token, access.required, now)
      \/ RustValidateToken(access.token, access.required, now)
      \/ JavaValidateToken(access.token, access.required, now)
  BY <1>1, SdkDispatch DEF SdkNames
<1>3. CASE JavaValidateToken(access.token, access.required, now)
  BY <1>1, <1>3, FirstScope DEF JavaValidateToken
<1> QED
  BY <1>2, <1>3 DEF GoValidateToken, GoCheckScopes, TsValidateToken, RustValidateToken

(* In every such state the SDKs agree as far as SdksAgree says. *)
LEMMA AgreementOfSdks ==
  ASSUME SdkInv
  PROVE  SdksAgree
<1> SUFFICES ASSUME access # None PROVE SdksAgree
  BY DEF SdksAgree
<1> DEFINE t == access.token
           required == access.required
           regular == /\ t.parts = 3
                      /\ t.sub \notin {"", Absent}
                      /\ t.scope \notin {Absent, << >>}
           go == GoValidateToken(t, required, now)
           ts == TsValidateToken(t, required, now)
           rust == RustValidateToken(t, required, now)
           java == JavaValidateToken(t, required, now)
<1>1. t \in AccessToken /\ now \in Nat
  BY DEF SdkInv
<1>2. t.parts \in Nat /\ t.exp \in Int /\ t.nbf \in Int /\ Clock(now) \in Nat
  <2>1. now \div 2 \in Nat
    BY <1>1
  <2> QED
    BY <1>1, <2>1 DEF AccessToken, Clock
<1>3. /\ t.parts = 3 => t.parts >= 3
      /\ Clock(now) <= t.exp => Clock(now) < t.exp \/ Clock(now) = t.exp
      /\ t.nbf <= Clock(now) \/ Clock(now) < t.nbf
  BY <1>2
<1>4. regular => go = ts /\ ts = rust
  BY <1>3 DEF GoValidateToken, GoCheckScopes, TsValidateToken, RustValidateToken
<1>5. java => go
  <2>1. java => JavaExtractScope(t.scope) \subseteq Scopes(t.scope)
    BY <1>1, FirstScope DEF JavaValidateToken
  <2> QED
    BY <1>3, <2>1 DEF JavaValidateToken, GoValidateToken, GoCheckScopes
<1>6. regular /\ go /\ required \subseteq {t.scope[1]} => java
  BY DEF JavaValidateToken, GoValidateToken, JavaExtractScope
<1>7. regular /\ t.signed /\ go =>
        \/ JWTMiddleware(t, now) /\ JWKSMiddleware(t, now)
        \/ Clock(now) = t.exp
        \/ Clock(now) < t.nbf
  BY <1>3 DEF GoValidateToken, JWTMiddleware, JWKSMiddleware
<1> HIDE DEF go, ts, rust, java
<1>8. /\ ValidateToken("go", t, required, now) = go
      /\ ValidateToken("ts", t, required, now) = ts
      /\ ValidateToken("rust", t, required, now) = rust
      /\ ValidateToken("java", t, required, now) = java
  BY SdkDispatch DEF go, ts, rust, java
<1> QED
  BY <1>4, <1>5, <1>6, <1>7, <1>8 DEF SdksAgree

(* A list of the disclosures of a set is a sequence of them. *)
LEMMA Lists ==
  ASSUME NEW S, NEW shown \in SUBSET S, IsFiniteSet(shown),
         NEW ds \in Bijection(1 .. Cardinality(shown), shown)
  PROVE  ds \in Seq(S)
<1>1. Cardinality(shown) \in Nat
  BY FS_CardinalityType
<1>2. ds \in [1 .. Cardinality(shown) -> shown]
  BY DEF Bijection, Injection, Surjection, IsInjective
<1>3. ds \in [1 .. Cardinality(shown) -> S]
  BY <1>2
<1> QED
  BY <1>1, <1>3

(* What a wallet answers is a token as Presented has them. *)
LEMMA Answers ==
  ASSUME SdkInv, Present
  PROVE  Presented(token')
<1>1. PICK c \in Credentials, skew \in Skews :
        \E shown \in SUBSET (c.sd \cup {Stray}) :
          \E ds \in Bijection(1 .. Cardinality(shown), shown) :
            \E kb, other \in Bindings(c, ds, skew) :
              \E parts \in Framings(ds, kb, other) :
                token' = [credential |-> c, parts |-> parts]
  BY DEF Present
<1>2. PICK shown \in SUBSET (c.sd \cup {Stray}) :
        \E ds \in Bijection(1 .. Cardinality(shown), shown) :
          \E kb, other \in Bindings(c, ds, skew) :
            \E parts \in Framings(ds, kb, other) :
              token' = [credential |-> c, parts |-> parts]
  BY <1>1
<1>3. PICK ds \in Bijection(1 .. Cardinality(shown), shown) :
        \E kb, other \in Bindings(c, ds, skew) :
          \E parts \in Framings(ds, kb, other) :
            token' = [credential |-> c, parts |-> parts]
  BY <1>2
<1>4. PICK kb \in Bindings(c, ds, skew), other \in Bindings(c, ds, skew) :
        \E parts \in Framings(ds, kb, other) :
          token' = [credential |-> c, parts |-> parts]
  BY <1>3
<1>5. c \in Credential /\ c.sd \subseteq Disclosures /\ IsFiniteSet(c.sd)
  BY SdkAssumption DEF Credential
<1>6. shown \in SUBSET Disclosures /\ IsFiniteSet(shown)
  <2>1. IsFiniteSet(c.sd \cup {Stray})
    BY <1>5, FS_AddElement
  <2> QED
    BY <1>5, <2>1, SdkAssumption, FS_Subset
<1>7. ds \in Seq(Disclosures)
  BY <1>6, Lists
<1>8. Bindings(c, ds, skew) \subseteq KbJwt
  <2>0. now \in Nat
    BY DEF SdkInv
  <2>1. now \div 2 \in Nat
    BY <2>0
  <2>2. Second(now) + skew \in Int
    BY <2>1, SdkAssumption DEF Second
  <2>3. request.nonce = "fresh" /\ request.uri = "ours"
    BY DEF SdkInv, Requested, Present
  <2> DEFINE Hashes == Credential \X Seq(Disclosures)
             b == Binding(c, ds, skew)
             h == computeSDHash(c, ds)
             e == computeSDHash(c, << >>)
  <2>4. h \in Hashes /\ e \in Hashes
    <3>1. << >> \in Seq(Disclosures)
      BY EmptySeq, Zenon
    <3>2. \A D, H : \A x \in D, y \in H : <<x, y>> \in D \X H
      OBVIOUS
    <3> QED
      BY <1>5, <1>7, <3>1, <3>2 DEF computeSDHash
  <2>5. /\ KbJwt = [kind : {"kb"}, typ : {"kb+jwt", "jwt"},
                    nonce : {"fresh", "earlier"}, aud : {"ours", "theirs"},
                    list : BOOLEAN, jws : BOOLEAN, hash : Hashes, iat : Int,
                    fraction : BOOLEAN]
        /\ b = [kind |-> "kb", typ |-> "kb+jwt", nonce |-> request.nonce,
                aud |-> request.uri, list |-> FALSE, jws |-> TRUE, hash |-> h,
                iat |-> Second(now) + skew, fraction |-> FALSE]
        /\ Bindings(c, ds, skew) =
             {b, [b EXCEPT !.typ = "jwt"], [b EXCEPT !.nonce = "earlier"],
              [b EXCEPT !.aud = "theirs"], [b EXCEPT !.list = TRUE],
              [b EXCEPT !.jws = FALSE], [b EXCEPT !.fraction = TRUE],
              [b EXCEPT !.hash = e]}
    BY DEF KbJwt, Binding, Bindings
  <2> HIDE DEF Hashes, b, h, e
  <2>6. b \in KbJwt
    BY <2>2, <2>3, <2>4, <2>5
  <2>a. KbJwt = [kind : {"kb"}, typ : {"kb+jwt", "jwt"},
                 nonce : {"fresh", "earlier"}, aud : {"ours", "theirs"},
                 list : BOOLEAN, jws : BOOLEAN, hash : Hashes, iat : Int,
                 fraction : BOOLEAN]
    BY <2>5
  <2>7. [b EXCEPT !.typ = "jwt"] \in KbJwt
    BY <2>6, <2>a
  <2>8. [b EXCEPT !.nonce = "earlier"] \in KbJwt
    BY <2>6, <2>a
  <2>9. [b EXCEPT !.aud = "theirs"] \in KbJwt
    BY <2>6, <2>a
  <2>10. [b EXCEPT !.list = TRUE] \in KbJwt
    BY <2>6, <2>a
  <2>11. [b EXCEPT !.jws = FALSE] \in KbJwt
    BY <2>6, <2>a
  <2>12. [b EXCEPT !.fraction = TRUE] \in KbJwt
    BY <2>6, <2>a
  <2>13. [b EXCEPT !.hash = e] \in KbJwt
    BY <2>4, <2>6, <2>a
  <2> QED
    BY <2>5, <2>6, <2>7, <2>8, <2>9, <2>10, <2>11, <2>12, <2>13
<1>9. token'.credential = c /\ token'.parts \in Framings(ds, kb, other)
  BY <1>4
<1> QED
  BY <1>5, <1>7, <1>8, <1>9 DEF Presented

(* No step of a wallet, a client, a verifier or the clock disturbs it. *)
LEMMA SdkStep ==
  ASSUME SdkInv, [Next]_vars
  PROVE  SdkInv'
<1>1. None \notin BOOLEAN
  BY SdkAssumption
<1>2. ASSUME NEW v \in Verifiers, SendRequest(v) PROVE SdkInv'
  <2>1. Requested(request')
    <3>1. PICK asked : request' = [verifier |-> v, nonce |-> "fresh",
                                   uri |-> "ours", asked |-> asked]
      BY <1>2 DEF SendRequest
    <3> QED
      BY <3>1 DEF Requested
  <2>2. token = None /\ access = None /\ result = None
    BY <1>2 DEF SendRequest, SdkInv
  <2> QED
    BY <1>1, <1>2, <2>1, <2>2 DEF SendRequest, SdkInv, Accepted
<1>3. ASSUME Present PROVE SdkInv'
  <2>1. Presented(token')
    BY <1>3, Answers
  <2>2. access = None /\ result = None
    BY <1>3 DEF Present, SdkInv
  <2> QED
    BY <1>1, <1>3, <2>1, <2>2 DEF Present, SdkInv, Accepted
<1>4. ASSUME Verify PROVE SdkInv'
  <2>1. access = None
    BY <1>4 DEF Verify, SdkInv
  <2> QED
    BY <1>4, <2>1 DEF Verify, SdkInv, Accepted
<1>5. ASSUME Authorize PROVE SdkInv'
  <2>1. token = None /\ result = None
    BY <1>5 DEF Authorize, SdkInv
  <2>2. access'.token \in AccessToken /\ access'.sdk \in SdkNames
    BY <1>5, SdkAssumption DEF Authorize
  <2> QED
    BY <1>1, <1>5, <2>1, <2>2 DEF Authorize, SdkInv, Accepted
<1>6. ASSUME ValidateAccess PROVE SdkInv'
  <2>1. token = None
    BY <1>6 DEF ValidateAccess, SdkInv
  <2> QED
    BY <1>6, <2>1 DEF ValidateAccess, SdkInv, Accepted
<1>7. ASSUME Tick PROVE SdkInv'
  <2>1. now' \in Nat
    BY <1>7 DEF Tick, SdkInv
  <2>2. ~Accepted'
    BY <1>1, <1>7 DEF Tick, Accepted
  <2> QED
    BY <1>7, <2>1, <2>2 DEF Tick, SdkInv
<1>8. ASSUME UNCHANGED vars PROVE SdkInv'
  BY <1>8 DEF vars, SdkInv, Accepted
<1> QED
  BY <1>2, <1>3, <1>4, <1>5, <1>6, <1>7, <1>8 DEF Next

(* It holds throughout. *)
LEMMA SdkInvariance == Spec => []SdkInv
<1>1. Init => SdkInv
  BY SdkAssumption DEF Init, SdkInv, Accepted
<1> QED
  BY <1>1, SdkStep, PTL DEF Spec

(* A wallet that answers as the request asks and in time is accepted by the  *)
(* server and by every SDK, for any credentials, disclosures and clock skews *)
(* and any length of the list of disclosures.                                *)
THEOREM ConformingAlwaysAccepted == Spec => []ConformingIsAccepted
BY SdkInvariance, ConformingAccepted, PTL

(* Whatever VerifyVpToken accepts shows only what the issuer wrote, and the  *)
(* key-binding JWT it carries, the last one if the server accepts several,   *)
(* answers the request, covers what is shown and is recent.                  *)
THEOREM AcceptedAlwaysBound == Spec => []AcceptedIsBound
BY SdkInvariance, AcceptedBound, PTL

(* The five verifiers agree on every token but for the differences that      *)
(* VerifiersAgree names.                                                     *)
THEOREM VerifiersAlwaysAgree == Spec => []VerifiersAgree
BY SdkInvariance, AgreementOfVerifiers, PTL

(* ValidateToken of every SDK grants a call only on a token that covers it,  *)
(* whatever tokens clients hold and scopes endpoints require.                *)
THEOREM GrantsAlwaysCovered == Spec => []GrantIsCovered
BY SdkInvariance, GrantCovered, PTL

(* The four SDKs and the server's middlewares agree on every access token    *)
(* but for the differences that SdksAgree names.                             *)
THEOREM SdksAlwaysAgree == Spec => []SdksAgree
BY SdkInvariance, AgreementOfSdks, PTL
=============================================================================
