------------------------------ MODULE Validator ------------------------------
(***************************************************************************)
(* Package validator behind POST /validate, in the loop it is made for: a  *)
(* client drafts a deposit document, changes one field after another, has  *)
(* the draft checked whenever it likes, and POSTs it to /deposits, where   *)
(* the server fills in defaults and, at the pledge, the statutory basis.   *)
(*                                                                         *)
(* Money is in whole units and months of rent in hundredths.  The code     *)
(* computes the cap and its 0.5 % tolerance in float64; FallsShort says    *)
(* where that makes a difference.  A statutory basis is the set of the     *)
(* statutes that its text names: the code looks for each as a substring.   *)
(* Messages, rule references and the time of the report are left out.      *)
(***************************************************************************)
EXTENDS Integers

CONSTANTS
  Text,      \* the strings documents are made of
  Drafts,    \* documents a client may start from
  Choices,   \* for each field, the values a client may put there
  Rents,     \* monthly_rent of a request; 0 when it is left out
  MaxEdits,  \* bound on the changes a client makes to its draft
  Nil        \* Go's nil

Country == {"DE", "CH", "AT", "BE", "NL", "NO", "GB", "FR", "ES"}

KnownTypes == {"CASH_EQUIVALENT", "BANK_GUARANTEE", "INSURANCE", "SURETY"}

(* Bound on amounts: 2^30, the largest power of two FallsShort looks for. *)
MaxAmount == 1073741824

(***************************************************************************)
(* What the checks read of models.Deposit.  tenant, landlord and version   *)
(* say whether the fields of that name are given; pledge is {} when there  *)
(* is none or when it names no statute at all; "" is a missing string.     *)
(***************************************************************************)
Trusteeship == [interest : BOOLEAN, insolvencyProtection : BOOLEAN]

Document ==
  [tenant : BOOLEAN, landlord : BOOLEAN, amount : Int, currency : Text,
   type : Text, version : BOOLEAN, country : Text,
   pledge : SUBSET Text, trusteeship : Trusteeship \cup {Nil}]

Fields ==
  {"tenant", "landlord", "amount", "currency", "type", "version", "country",
   "pledge", "trusteeship"}

ASSUME ValidatorAssumption ==
  /\ {"EUR", "BGB 551"} \subseteq Text
  /\ Drafts \subseteq Document
  /\ Choices \in
       [tenant : SUBSET BOOLEAN, landlord : SUBSET BOOLEAN,
        amount : SUBSET Int, currency : SUBSET Text, type : SUBSET Text,
        version : SUBSET BOOLEAN, country : SUBSET Text,
        pledge : SUBSET (SUBSET Text),
        trusteeship : SUBSET (Trusteeship \cup {Nil})]
  /\ \A d \in Drafts : d.amount <= MaxAmount
  /\ \A a \in Choices.amount : a <= MaxAmount
  /\ Rents \subseteq Int
  /\ MaxEdits \in Nat
  /\ Nil \notin Trusteeship

VARIABLES
  draft,   \* the client's document
  edits,   \* how often it was changed
  report,  \* the last answer of /validate and what it was about, or Nil
  stored   \* the deposit made from a draft: as sent, as it is now, its state

validatorVars == <<draft, edits, report, stored>>

-----------------------------------------------------------------------------
(* rules.go *)

Rule(bases, currency, maxMonths, allowedTypes, interestRequired) ==
  [StatutoryBases |-> bases, Currency |-> currency, MaxMonths |-> maxMonths,
   AllowedTypes |-> allowedTypes, InterestRequired |-> interestRequired]

(* An empty set of allowed types allows all. *)
jurisdictionRules ==
  [DE |-> Rule({"BGB 551"}, "EUR", 300,
               {"CASH_EQUIVALENT", "BANK_GUARANTEE", "SURETY"}, FALSE),
   CH |-> Rule({"OR 257e"}, "CHF", 300, {}, TRUE),
   AT |-> Rule({"MRG 16b", "ABGB 1346"}, "EUR", 300, {}, FALSE),
   BE |-> Rule({"Woninghuurwet", "Code civil belge"}, "EUR", 200, {}, FALSE),
   NL |-> Rule({"BW 7:261"}, "EUR", 200, {"CASH_EQUIVALENT"}, FALSE),
   NO |-> Rule({"Husleieloven 3-5"}, "NOK", 600, {}, TRUE),
   GB |-> Rule({"Housing Act 2004", "Tenant Fees Act 2019"}, "GBP", 115, {},
               FALSE),
   FR |-> Rule({"Loi ALUR", "Loi 89-462"}, "EUR", 100,
               {"CASH_EQUIVALENT", "SURETY"}, FALSE),
   ES |-> Rule({"LAU 36"}, "EUR", 100, {}, FALSE)]

-----------------------------------------------------------------------------
(* validator.go: the codes each check adds *)

(* r.add under a condition. *)
Finding(condition, code) == IF condition THEN {code} ELSE {}

checkRequired(d) ==
  UNION {Finding(~d.tenant, "MISSING_TENANT_FIELDS"),
         Finding(~d.landlord, "MISSING_LANDLORD_NAME"),
         Finding(d.amount <= 0, "INVALID_AMOUNT"),
         Finding(d.currency = "", "MISSING_CURRENCY"),
         Finding(d.type = "", "MISSING_TYPE"),
         Finding(~d.version, "MISSING_VERSION"),
         Finding(d.country = "", "MISSING_COUNTRY")}

checkDepositType(d) ==
  Finding(d.type # "" /\ d.type \notin KnownTypes, "UNKNOWN_TYPE")

(* Mutant: the cap without its tolerance, in whole months. *)
OverWholeMonths(rule, amount, rent) ==
  /\ rule.MaxMonths > 0 /\ rent > 0 /\ amount > 0
  /\ amount > (rule.MaxMonths \div 100) * rent

PowerOfTwoIn(low, high) == \E e \in 0 .. 30 : low <= 2^e /\ 2^e <= high

(***************************************************************************)
(* Whether float64 makes MaxMonths * rent * 1.005 less than amount when    *)
(* the two are equal; when they differ, whole amounts are too far apart    *)
(* for the rounding to matter.  The float64 next to 1.005 is 0.48 of a     *)
(* unit in the last place too small, the one next to 1.15 is 0.4 of a unit *)
(* too small, and the whole numbers are exact.  A product comes out right  *)
(* when its error is less than half a unit in its own last place, that is, *)
(* when 0.96 of it (0.8 of the rent) is less than the power of two below.  *)
(***************************************************************************)
FallsShort(months, rent, amount) ==
  \/ ~PowerOfTwoIn(192 * (amount \div 201), amount)
  \/ months = 115 /\ ~PowerOfTwoIn((4 * rent) \div 5, (115 * rent) \div 100)

(* amount > MaxMonths * rent * 1.005 *)
OverCap(rule, amount, rent) ==
  /\ rule.MaxMonths > 0 /\ rent > 0 /\ amount > 0
  /\ \/ amount * 20000 > rule.MaxMonths * rent * 201
     \/ /\ amount * 20000 = rule.MaxMonths * rent * 201
        /\ FallsShort(rule.MaxMonths, rent, amount)

checkTrusteeship(rule, d) ==
  UNION {Finding(/\ rule.InterestRequired
                 /\ d.trusteeship = Nil \/ ~d.trusteeship.interest,
                 "INTEREST_REQUIRED"),
         Finding(d.type = "CASH_EQUIVALENT" /\ d.trusteeship = Nil,
                 "MISSING_TRUSTEESHIP"),
         Finding(d.trusteeship # Nil /\ ~d.trusteeship.insolvencyProtection,
                 "INSOLVENCY_PROTECTION_UNCONFIRMED")}

WrongCurrency(rule, d) == d.currency # "" /\ d.currency # rule.Currency

(* Mutant: a document in the wrong currency is not compared with the cap. *)
CapInRightCurrencyOnly(rule, d, rent) ==
  UNION {Finding(WrongCurrency(rule, d), "WRONG_CURRENCY"),
         Finding(/\ rule.AllowedTypes # {} /\ d.type # ""
                 /\ d.type \notin rule.AllowedTypes, "DISALLOWED_TYPE"),
         Finding(~WrongCurrency(rule, d) /\ OverCap(rule, d.amount, rent),
                 "CAP_EXCEEDED"),
         Finding(d.pledge # {} /\ d.pledge \cap rule.StatutoryBases = {},
                 "UNEXPECTED_STATUTORY_BASIS")}

checkRule(rule, d, rent) ==
  UNION {Finding(WrongCurrency(rule, d), "WRONG_CURRENCY"),
         Finding(/\ rule.AllowedTypes # {} /\ d.type # ""
                 /\ d.type \notin rule.AllowedTypes, "DISALLOWED_TYPE"),
         Finding(OverCap(rule, d.amount, rent), "CAP_EXCEEDED"),
         Finding(d.pledge # {} /\ d.pledge \cap rule.StatutoryBases = {},
                 "UNEXPECTED_STATUTORY_BASIS")}

checkJurisdiction(d, rent) ==
  CASE d.country = "" -> {}
    [] d.country \in Country ->
         LET rule == jurisdictionRules[d.country]
         IN checkRule(rule, d, rent) \cup checkTrusteeship(rule, d)
    [] OTHER -> {"UNKNOWN_JURISDICTION"}

(* The codes added with SeverityError, and the field each one names. *)
ErrorField ==
  [MISSING_TENANT_FIELDS |-> "tenant", MISSING_LANDLORD_NAME |-> "landlord",
   INVALID_AMOUNT |-> "amount", MISSING_CURRENCY |-> "currency",
   MISSING_TYPE |-> "type", UNKNOWN_TYPE |-> "type",
   WRONG_CURRENCY |-> "currency", DISALLOWED_TYPE |-> "type",
   CAP_EXCEEDED |-> "amount"]

Findings(d, rent) ==
  checkRequired(d) \cup checkDepositType(d) \cup checkJurisdiction(d, rent)

Errors(d, rent) == Findings(d, rent) \cap DOMAIN ErrorField

(* r.Valid *)
Valid(d, rent) == Errors(d, rent) = {}

-----------------------------------------------------------------------------
(* The API *)

(* POST /validate: the report, and the request it answers. *)
Validate ==
  \E rent \in Rents :
    /\ report' = [document |-> draft, rent |-> rent,
                  valid |-> Valid(draft, rent)]
    /\ UNCHANGED <<draft, edits, stored>>

(* CreateDeposit's own checks *)
Accepts(d) == d.tenant /\ d.landlord /\ d.amount > 0 /\ d.type # ""

(* Mutant: the default currency replaces the one that was sent. *)
AlwaysEuro(d) == [d EXCEPT !.version = TRUE, !.currency = "EUR"]

WithDefaults(d) ==
  [d EXCEPT !.version = TRUE, !.currency = IF @ = "" THEN "EUR" ELSE @]

CreateDeposit ==
  /\ stored = Nil
  /\ Accepts(draft)
  /\ stored' = [sent |-> draft, document |-> WithDefaults(draft),
                state |-> "REQUESTED"]
  /\ UNCHANGED <<draft, edits, report>>

(* PATCH /identity with VERIFIED touches no field a check reads. *)
UpdateIdentity ==
  /\ stored # Nil /\ stored.state = "REQUESTED"
  /\ stored' = [stored EXCEPT !.state = "IDENTIFIED"]
  /\ UNCHANGED <<draft, edits, report>>

(* The pledge names the German statute wherever the property is. *)
Pledge ==
  /\ stored # Nil /\ stored.state = "IDENTIFIED"
  /\ stored' = [stored EXCEPT !.state = "PLEDGED",
                              !.document.pledge = {"BGB 551"}]
  /\ UNCHANGED <<draft, edits, report>>

-----------------------------------------------------------------------------
(* The client changes one field of its draft. *)
Edit ==
  \E f \in Fields : \E v \in Choices[f] :
    /\ edits < MaxEdits
    /\ v # draft[f]
    /\ draft' = [draft EXCEPT ![f] = v]
    /\ edits' = edits + 1
    /\ UNCHANGED <<report, stored>>

ValidatorInit ==
  /\ draft \in Drafts
  /\ edits = 0
  /\ report = Nil
  /\ stored = Nil

ValidatorNext == Edit \/ Validate \/ CreateDeposit \/ UpdateIdentity \/ Pledge

ValidatorSpec == ValidatorInit /\ [][ValidatorNext]_validatorVars

-----------------------------------------------------------------------------
(* Properties *)

(* What the law of a country allows, said positively; where no rule is       *)
(* known, or no rent is given, there is no limit but that of the schema.     *)
LegalCurrency(d) ==
  IF d.country \in Country
  THEN {jurisdictionRules[d.country].Currency} ELSE Text \ {""}

LegalTypes(d) ==
  LET allowed == jurisdictionRules[d.country].AllowedTypes
  IN IF d.country \in Country /\ allowed # {} THEN allowed ELSE KnownTypes

(* The largest whole amount within half a percent of the statutory maximum.  *)
HighestAmount(d, rent) ==
  IF d.country \in Country /\ rent > 0
  THEN (jurisdictionRules[d.country].MaxMonths * rent * 201) \div 20000
  ELSE d.amount

(* The amount is the statutory maximum and half a percent, to the unit.      *)
OnTheEdge(d, rent) ==
  /\ d.country \in Country /\ rent > 0
  /\ d.amount * 20000 = jurisdictionRules[d.country].MaxMonths * rent * 201

Lawful(d, rent) ==
  /\ d.tenant /\ d.landlord
  /\ d.currency \in LegalCurrency(d)
  /\ d.type \in LegalTypes(d)
  /\ d.amount \in 1 .. HighestAmount(d, rent)

(* A report says "valid" only for documents the rules allow: every required  *)
(* field is there, currency and type are among those of the country, and the *)
(* amount is positive and at most half a percent beyond the cap.  And it     *)
(* says so for each of them but those at the very edge of the tolerance,     *)
(* some of which float64 turns away.  The checks of validator.go skip        *)
(* whatever depends on a missing field, return early without a country or a  *)
(* rule, and count findings by severity; none of that lets a document        *)
(* through or turns another lawful one away.                                 *)
ReportMatchesRules ==
  report # Nil =>
    LET d == report.document
        rent == report.rent
    IN  /\ report.valid => Lawful(d, rent)
        /\ Lawful(d, rent) /\ ~OnTheEdge(d, rent) => report.valid

(* Correcting a field brings up no new error about another field, as long as *)
(* the country stays: checks that are skipped for a missing value            *)
(* (validator.go:114, 120 and 136) hide errors about that value only, so a   *)
(* client that mends one reported field after the other comes to an end.     *)
EditsStayLocal ==
  [][\A rent \in Rents :
       draft'.country = draft.country =>
         \A e \in Errors(draft, rent)' \ Errors(draft, rent) :
           draft'[ErrorField[e]] # draft[ErrorField[e]]]_validatorVars

(* A document that /validate finds valid is accepted by CreateDeposit, and   *)
(* the deposit made from it stays valid under the defaults and the pledge    *)
(* the server writes: the one finding the server's own writing can add is    *)
(* the warning about the statutory basis, and that not in Germany.           *)
ValidStaysValid ==
  /\ report # Nil /\ report.valid => Accepts(report.document)
  /\ stored # Nil =>
       \A rent \in Rents :
         LET added == Findings(stored.document, rent) \ Findings(stored.sent, rent)
         IN Valid(stored.sent, rent) =>
              /\ added \subseteq {"UNEXPECTED_STATUTORY_BASIS"}
              /\ stored.sent.country = "DE" => added = {}
=============================================================================
