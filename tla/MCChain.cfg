\* A sign-on, its code exchanged, the refresh token rotated: three requests, one after the
\* other or at once, on two nodes that do not fail, with two DPoP keys.
\* Requests are bounded, so the system stops when all are answered.
SPECIFICATION Spec
CONSTANTS
  MAX_ASSERTION_LIFETIME_SECONDS = 1
  MAX_ACCESS_TOKEN_LIFETIME_SECONDS = 1
  DEFAULT_REFRESH_LIFETIME_SECONDS = 2
  MAX_REFRESH_LIFETIME_SECONDS = 2
  CLOCK_SKEW_SECONDS = 1
  ACCESS_TOKEN_LIFETIME_SECONDS = 1
  REFRESH_TOKEN_LIFETIME_SECONDS = 2
  Issuer = issuer
  User = {alice}
  Client = {rp}
  Jkt = {key, other}
  KeyId = {kid}
  Jti = {q1, q2, q3}
  NoJti = NoJti
  Unpinned = Unpinned
  Node = {n1, n2}
  n1 = n1
  n2 = n2
  unknown = unknown
  NamedNode = {n1, n2, unknown}
  Threshold = 2
  Request = {q1, q2, q3}
  RoundId <- MCRoundId
  NodeKeyId = kid
  GatewayKeyId = kid
  SdkKeyId = kid
  MaxNonces = 6
  MaxTime = 0
  SignOnBody <- PlainBodies
  Proofs = {key, other}
  Unspecified = Unspecified
  NoAsk = NoAsk
  Unreliable = {}
INVARIANTS WalletGoesBackToPassword
PROPERTIES ImplementsIssuer
CHECK_DEADLOCK FALSE
