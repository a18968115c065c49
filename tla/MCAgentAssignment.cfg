SPECIFICATION FairSpec
CONSTANTS
  Keys <- TwoKeys
  Environments <- CalmOrFaulty
  MaxLifetime = 3
  MinRemaining = 2
  MaxTime = 3
  MaxOperations = 2
  MaxPackets = 7
  MaxFaulty = 6
INVARIANTS RegisteredOnce OneTicketPerOperation AgentInStep DeviceKeyIsOurs
PROPERTY EnrollmentCompletes
\* The bounds run out, and an agent that is done stops.
CHECK_DEADLOCK FALSE
