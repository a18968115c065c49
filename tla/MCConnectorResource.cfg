SPECIFICATION Spec
CONSTANTS
  n1 = n1
  n2 = n2
  n3 = n3
  AgentIds <- OneAgent
  ConnectorIds <- TwoConnectors
  Nonces <- ThreeNonces
  ResourceKeys <- MCResourceKeys
  RoutingIds <- MCRoutingIds
  CRIDs <- MCCRIDs
  BadKnockIds <- MCBadKnockIds
  CridOf <- MCCridOf
  KeyOf <- MCKeyOf
  RoutingOf <- MCRoutingOf
  KnockOf <- MCKnockOf
  MaxRequests = 4
  MaxRefusals = 1
  Faults <- AllFaults
SYMMETRY NonceSymmetry
INVARIANTS ReplayIsIdentical CreationToldOnce OneActiveResource BindingIsReal
PROPERTY PinnedBindingStays
\* The bounds run out.
CHECK_DEADLOCK FALSE
