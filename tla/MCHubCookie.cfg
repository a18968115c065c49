SPECIFICATION Spec
CONSTANTS
  c1 = c1
  ip1 = ip1
  ip2 = ip2
  Clients <- OneClient
  IPs <- TwoIPs
  Sizes <- GateSizes
  ChallengeBytes = 342
  MaxWindow = 3
  MaxKey = 2
  MaxRequests = 2
  MaxRepeats = 1
  Environments <- NoisyOrCalm
INVARIANTS AuthorityOnce NoAmplification
PROPERTIES AuthorityAfterRoundTrip HandshakeCompletes
CHECK_DEADLOCK FALSE
