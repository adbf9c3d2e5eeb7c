SPECIFICATION ServersSpec
CONSTANTS
  Node = {n1, n2, n3}
  Browser = browser
  Threshold = 2
  MaxBody = 2
  MaxDrain = 3
  Varied = {"clientId", "nonce", "scope", "iat"}
  WrongKind = {"absent", "null", "empty"}
INVARIANTS ServersTypeOK AnsweredAfterUpload SignedPayloadParses Understood
PROPERTIES CallsAreNodeCalls RequestsEnd
CHECK_DEADLOCK FALSE
