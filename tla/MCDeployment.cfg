\* Two ceremonies, runs for one or for two nodes, and two attempts
\* at discovery.  Ceremonies are bounded: one used up in a run that wrote nothing ends it.
SPECIFICATION Spec
CONSTANTS
  Total = {1, 2}
  Threshold = 1
  MaxCeremony = 2
  u1 = u1
  u2 = u2
  Url = {u1, u2}
  UrlLists <- MCUrlLists
  QuorumSize = 1
  DISCOVERY_ATTEMPTS = 2
  Mounts <- MCMounts
INVARIANTS KeptSetIsOneCeremony UpWithEveryNode OneCeremonyUnlessForced
PROPERTY DiscoveryEnds
CHECK_DEADLOCK FALSE
