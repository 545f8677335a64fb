------------------------- MODULE MCStreamForwarding ------------------------
EXTENDS StreamForwarding, TLC

CONSTANTS d1, d2, v1, v2
Symmetric == Permutations(Data) \cup Permutations(Visitors)
=============================================================================
