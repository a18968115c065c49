------------------------- MODULE MCAgentAssignment -------------------------
\* AgentAssignment for an installation that changes its key at most once.
EXTENDS AgentAssignment

TwoKeys == 1..2
\* No fault at all, or two kinds of them.
CalmOrFaulty == {{}, {"retry", "rekey"}, {"restart", "oldcode"}, {"rekey", "oldcode"}}
=============================================================================
