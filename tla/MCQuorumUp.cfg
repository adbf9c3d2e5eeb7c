\* Two requests on three nodes, threshold two, of which one fails: two are always up.
\* Requests are bounded, so the system stops when both are answered.
SPECIFICATION Spec
CONSTANTS
  MAX_ASSERTION_LIFETIME_SECONDS = 1
  MAX_ACCESS_TOKEN_LIFETIME_SECONDS = 1
  DEFAULT_REFRESH_LIFETIME_SECONDS = 2
  MAX_REFRESH_LIFETIME_SECONDS = 2
  CLOCK_SKEW_SECONDS = 1
  ACCESS_TOKEN_LIFETIME_SECONDS = 1
  REFRESH_TOKEN_LIFETIME_SECONDS = 2
  Issuer = issuer
  User = {alice}
  Client = {rp}
  Jkt = {key}
  KeyId = {kid}
  Jti = {q1, q2}
  NoJti = NoJti
  Unpinned = Unpinned
  Node = {n1, n2, n3}
  n1 = n1
  n2 = n2
  unknown = unknown
  NamedNode = {n1, n2, unknown}
  Threshold = 2
  Request = {q1, q2}
  RoundId <- MCRoundId
  NodeKeyId = kid
  GatewayKeyId = kid
  SdkKeyId = kid
  MaxNonces = 6
  MaxTime = 0
  SignOnBody <- OneBody
  Proofs = {key}
  Unspecified = Unspecified
  NoAsk = NoAsk
  Unreliable = {n3}
INVARIANTS QuorumUpMeansServed
CHECK_DEADLOCK FALSE
