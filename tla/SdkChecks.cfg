SPECIFICATION Spec
CONSTANTS
  MaxAge = 2
  MaxSkew = 1
  MaxTime = 8
  None = None
  Issuer = Issuer
  Absent = Absent
  Credentials <- MCCredentials
  Stray <- MCStray
  Skews <- MCSkews
  AccessTokens <- MCAccessTokens
  ApiScopes = {"read", "write"}
INVARIANTS ConformingIsAccepted AcceptedIsBound VerifiersAgree GrantIsCovered SdksAgree
CHECK_DEADLOCK FALSE
