\* A sign-on and a token request, or two sign-ons, on two nodes that both fail and restart
\* at will, under fairness.  With threshold one, either may be left out of a round, and
\* the quorum is lost with both.  Requests are bounded, so the system stops in the end.
SPECIFICATION FairSpec
CONSTANTS
  MAX_ASSERTION_LIFETIME_SECONDS = 1
  MAX_ACCESS_TOKEN_LIFETIME_SECONDS = 1
  DEFAULT_REFRESH_LIFETIME_SECONDS = 2
  MAX_REFRESH_LIFETIME_SECONDS = 2
  CLOCK_SKEW_SECONDS = 1
  ACCESS_TOKEN_LIFETIME_SECONDS = 1
  REFRESH_TOKEN_LIFETIME_SECONDS = 2
  Issuer = issuer
  User = {alice}
  Client = {rp}
  Jkt = {key}
  KeyId = {kid}
  Jti = {q1, q2}
  NoJti = NoJti
  Unpinned = Unpinned
  Node = {n1, n2}
  n1 = n1
  n2 = n2
  unknown = unknown
  NamedNode = {n1, n2, unknown}
  Threshold = 1
  Request = {q1, q2}
  RoundId <- MCRoundId
  NodeKeyId = kid
  GatewayKeyId = kid
  SdkKeyId = kid
  MaxNonces = 4
  MaxTime = 0
  SignOnBody <- OneBody
  Proofs = {key}
  Unspecified = Unspecified
  NoAsk = NoAsk
  Unreliable = {n1, n2}
INVARIANTS CompletedVerify DoneClosesRounds
PROPERTIES RequestAnswered
CHECK_DEADLOCK FALSE
