--------------------------- MODULE MCBasicNetwork ---------------------------
EXTENDS BasicNetwork, TLC

CONSTANTS p1, p2, p3

MCPeers == {p1, p2, p3}
MCDelays == {0, 1}
Symmetry == Permutations(MCPeers)
=============================================================================
