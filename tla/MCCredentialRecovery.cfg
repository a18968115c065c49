SPECIFICATION Spec
CONSTANTS
  a1 = a1
  a2 = a2
  k1 = k1
  n1 = n1
  n2 = n2
  None = None
  Agents <- OneAgent
  Creds <- OneCred
  Nonces <- TwoNonces
  Lifetime = 2
  Horizon = 1
  MaxTime = 3
  MaxFence = 2
  MaxGeneration = 2
  MaxSends = 4
  Faults <- Stormy
SYMMETRY NonceSymmetry
INVARIANTS TypeOK CandidateNotLost HorizonHolds
PROPERTY RefinesReplacement
CHECK_DEADLOCK FALSE
