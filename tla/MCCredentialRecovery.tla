------------------------ MODULE MCCredentialRecovery ------------------------
\* CredentialRecovery with time scaled down: a grant lasts 2, an episode 1 more.
EXTENDS CredentialRecovery, TLC

CONSTANTS a1, a2, k1, n1, n2

OneAgent == {a1}
TwoAgents == {a1, a2}
OneCred == {k1}
TwoNonces == {n1, n2}
Stormy == {"stop", "time", "move", "withdraw"}
Calm == {}

\* The agent draws any unused nonce; which one it is does not matter.
NonceSymmetry == Permutations(TwoNonces)
=============================================================================
