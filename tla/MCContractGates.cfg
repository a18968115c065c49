SPECIFICATION GatesSpec
CONSTANTS
  AgentIds <- MCAgentIds
  ConnectorIds <- MCConnectorIds
  Nonces <- MCNonces
  ResourceKeys <- MCResourceKeys
  RoutingIds <- MCRoutingIds
  CRIDs <- MCCRIDs
  BadKnockIds <- MCBadKnockIds
  CridOf <- MCCridOf
  AgentId = "agent"
  Integers <- MCIntegers
  RunIds <- MCRunIds
  KnockId <- MCKnockId
  SessionIds <- MCSessionIds
  OpenTimes <- MCOpenTimes
  Spellings <- MCSpellings
  KeyIds <- MCKeyIds
  TicketAgents <- MCAgentIds
  TicketKeyIds <- MCKeyIds
  UserAgentMaxBytes = 4
  LongTexts <- MCLongTexts
  HeldCrids <- MCHeldCrids
  LinkKeys <- MCLinkKeys
  Seeds <- AllSeeds
  Lexicon <- AllLexicon
  MaxEdits <- AllMaxEdits
  TextPieces <- MCTextPieces
  Records <- MCRecords
  Parts <- MCParts
  Fences <- MCFences
  OtherFences <- MCOtherFences
  Uploads <- MCUploads
  MaxBytes = 7
  Allowed <- MCAllowed
  ForbiddenInPath <- MCForbiddenInPath
  Hex <- MCHex
  EnvironmentIds <- MCEnvironmentIds
  Kids <- MCKids
  Jtis <- MCJtis
  PublicKeys <- MCPublicKeys
  Digests <- MCDigests
  NotBefore = 1
  MaxLifetime = 3
  HashBytes = 2
  Order = 7
  Method <- MCMethod
  Domain <- MCDomain
  StableDomain <- MCStableDomain
  Path <- MCPath
  Authorities <- MCAuthorities
  UploadNonces <- MCUploadNonces
  Audiences <- MCAudiences
  Digest <- MCDigest
  Length <- MCLength
  Content <- MCContent
  DecodedEscape <- MCDecodedEscape
INVARIANTS OneWireForm FirstDefectIsReported LinkIsEarned ReadersAgree AcceptedIsUsable
INVARIANTS TargetIsExact SignedOnce DigestIsTheRecord LongestBeginningIsSent
\* Each gate has its bound on edits.
CHECK_DEADLOCK FALSE
