SPECIFICATION FairSpec
CONSTANTS
  a1 = a1
  a2 = a2
  k1 = k1
  n1 = n1
  n2 = n2
  None = None
  Agents <- TwoAgents
  Creds <- OneCred
  Nonces <- TwoNonces
  Lifetime = 2
  Horizon = 1
  MaxTime = 0
  MaxFence = 1
  MaxGeneration = 1
  MaxSends = 3
  Faults <- Calm
INVARIANT OneGrantPerNonce
PROPERTY SealedIsInstalled
CHECK_DEADLOCK FALSE
