\* One node on a clock of four seconds: assertion lifetime 1, refresh lifetime 1 or 2,
\* skew 1, three nonce pairs (an assertion and a code exchange).
SPECIFICATION Spec
CONSTANTS
  MAX_ASSERTION_LIFETIME_SECONDS = 1
  MAX_ACCESS_TOKEN_LIFETIME_SECONDS = 1
  DEFAULT_REFRESH_LIFETIME_SECONDS = 1
  MAX_REFRESH_LIFETIME_SECONDS = 2
  CLOCK_SKEW_SECONDS = 1
  Issuer = issuer
  User = {alice}
  Client = {rp}
  Jkt = {key}
  KeyId = {kid}
  Jti = {jti}
  NoJti = NoJti
  Unpinned = Unpinned
  Node = {n1}
  Threshold = 1
  RoundId = {r1, r2}
  NodeKeyId = kid
  MaxNonces = 3
  MaxTime = 4
  SignOnCalls <- ClockSignOn
  SignCalls <- ClockSign
  WithRestarts = FALSE
INVARIANTS SpendWindow
