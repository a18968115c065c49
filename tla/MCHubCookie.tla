---------------------------- MODULE MCHubCookie ----------------------------
\* HubCookie with the packet lengths of the size_cases table around the gate:
\* a sealed challenge has 342 bytes, a request of 342 is dropped, of 343 not.
EXTENDS HubCookie, TLC

CONSTANTS c1, ip1, ip2

OneClient == {c1}
TwoIPs == {ip1, ip2}
GateSizes == {342, 343}
\* All faults but removed keys, removed keys beside repeats, and none.
NoisyOrCalm == {AllFaults \ {"retire"}, {"repeat", "retire"}, {}}
=============================================================================
