\* Two nodes, two round ids, three nonce pairs each, one instant.
SPECIFICATION Spec
CONSTANTS
  MAX_ASSERTION_LIFETIME_SECONDS = 1
  MAX_ACCESS_TOKEN_LIFETIME_SECONDS = 1
  DEFAULT_REFRESH_LIFETIME_SECONDS = 1
  MAX_REFRESH_LIFETIME_SECONDS = 2
  CLOCK_SKEW_SECONDS = 0
  Issuer = issuer
  User = {alice, bob}
  Client = {rp}
  Jkt = {key}
  KeyId = {kid}
  Jti = {jti}
  NoJti = NoJti
  Unpinned = Unpinned
  Node = {n1, n2}
  Threshold = 2
  RoundId = {r1, r2}
  NodeKeyId = kid
  MaxNonces = 3
  MaxTime = 0
  SignOnCalls <- RoundsSignOn
  SignCalls <- RoundsSign
  WithRestarts = TRUE
INVARIANTS NodeTypeOK NonceSingleUse OpenNoncesUnused TokensDescendFromSignOn
