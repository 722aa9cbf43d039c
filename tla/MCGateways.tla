----------------------------- MODULE MCGateways -----------------------------
\* The instance of Gateways for TLC: callers are alike, and so are chats.
EXTENDS Gateways, TLC

Symmetry == Permutations(Callers) \cup Permutations(Chats)
=============================================================================
