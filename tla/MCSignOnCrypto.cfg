\* Every key and every TOPRF key of two of three nodes modulo five.  One sign-on, which
\* ends when it is assembled or does not open.
SPECIFICATION Spec
CONSTANTS
  Order = 5
  Threshold = 2
  Total = 3
  Password = {right, wrong}
  Registered = right
  Message = {asked, other}
  Signed = asked
  Nonces <- MCNonces
  Blinding = {2, 3}
  HashToGroup <- MCHashToGroup
  BindingHash <- MCBindingHash
  ChallengeHash <- MCChallengeHash
INVARIANTS KeyIsThresholdShared OpensForThePassword AssertionVerifies BlindedHidesPassword
CHECK_DEADLOCK FALSE
