---------------------------- MODULE MCValidator ----------------------------
(* Instances of Validator for TLC. *)
EXTENDS Validator

(* A complete document, as the tests of the package build them. *)
minDeposit(country, type, currency, amount) ==
  [tenant |-> TRUE, landlord |-> TRUE, amount |-> amount,
   currency |-> currency, type |-> type, version |-> TRUE,
   country |-> country, pledge |-> {}, trusteeship |-> Nil]

(* &models.Deposit{} *)
EmptyDeposit ==
  [tenant |-> FALSE, landlord |-> FALSE, amount |-> 0, currency |-> "",
   type |-> "", version |-> FALSE, country |-> "", pledge |-> {},
   trusteeship |-> Nil]

(* Six countries that differ in currency, cap, types and interest, one       *)
(* without rules, and the empty document.                                    *)
MCDrafts ==
  {EmptyDeposit,
   minDeposit("DE", "CASH_EQUIVALENT", "EUR", 3000),
   minDeposit("CH", "CASH_EQUIVALENT", "CHF", 3015),
   minDeposit("NL", "CASH_EQUIVALENT", "EUR", 1000),
   minDeposit("GB", "BANK_GUARANTEE", "GBP", 1155),
   minDeposit("FR", "SURETY", "EUR", 1005),
   minDeposit("NO", "INSURANCE", "NOK", 3016),
   minDeposit("JP", "CASH_EQUIVALENT", "JPY", 3000)}

Currencies == {"", "EUR", "CHF", "GBP", "NOK", "JPY"}
Types == KnownTypes \cup {"", "WARP_BOND"}
Countries == Country \cup {"", "JP"}
MCText ==
  Currencies \cup Types \cup Countries \cup {"BGB 551", "OR 257e", "LAU 36"}

(* Amounts on both sides of each cap for a rent of 1000, tolerance included, *)
(* and of three months of 1400: float64 refuses the edges 1005 and 3015, and *)
(* accepts 4221.                                                             *)
MCChoices ==
  [tenant |-> BOOLEAN, landlord |-> BOOLEAN, version |-> BOOLEAN,
   amount |-> {0, 1000, 1005, 1006, 1155, 1156, 3000, 3015, 3016,
              4221, 4222},
   currency |-> Currencies, type |-> Types, country |-> Countries,
   pledge |-> {{}, {"BGB 551"}, {"OR 257e", "BGB 551"}, {"LAU 36"}},
   trusteeship |-> Trusteeship \cup {Nil}]

MCRents == {0, 1000, 1400}
=============================================================================
