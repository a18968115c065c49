------------------------ MODULE MCConnectorResource ------------------------
\* ConnectorResource with one agent that has two connectors.
EXTENDS ConnectorResource, TLC

CONSTANTS n1, n2, n3

OneAgent == {"agent"}
TwoConnectors == {"conn-a", "conn-b"}
ThreeNonces == {n1, n2, n3}
MCKeyOf == <<"key1", "key2">>
MCRoutingOf == <<"c-1", "c-2">>
MCKnockOf == <<"knock1", "knock2">>
MCResourceKeys == {"key1", "key2"}
MCRoutingIds == {"c-1", "c-2"}
MCCridOf == [key1 |-> "crid1", key2 |-> "crid2"]
MCCRIDs == {"crid1", "crid2"}
MCBadKnockIds == {""}
NonceSymmetry == Permutations(ThreeNonces)
AllFaults == {"reuse", "miswire"}
=============================================================================
