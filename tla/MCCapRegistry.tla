--------------------------- MODULE MCCapRegistry ---------------------------
\* Instances of CapRegistry for TLC.
EXTENDS CapRegistry, TLC

CONSTANTS g1, g2, c1, c2, c3

TwoGroups == {g1, g2}
ThreeCaps == {c1, c2, c3}
\* A group of two members, one of which may be called while the other starts.
PairAndOne == (g1 :> <<c1, c2>>) @@ (g2 :> <<c3>>)
=============================================================================
