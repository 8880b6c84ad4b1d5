SPECIFICATION ValidatorSpec
CONSTANTS
  Nil = Nil
  MaxEdits = 2
  Text <- MCText
  Drafts <- MCDrafts
  Choices <- MCChoices
  Rents <- MCRents
INVARIANTS
  ReportMatchesRules
  ValidStaysValid
PROPERTY
  EditsStayLocal
