SPECIFICATION FairSpec
CONSTANTS
  id1 = id1
  Ids <- OneId
  MaxAttempts = 2
  MaxCounter = 4
  MaxSessions = 2
  MaxCookies = 1
  Environments <- AllFaultsOrRetriesOnly
INVARIANTS TypeOK ReceiptAnswersKnock ReknockUsesItsChallenge
PROPERTIES RefinesLease SessionIsRetired
\* The bounds run out.
CHECK_DEADLOCK FALSE
