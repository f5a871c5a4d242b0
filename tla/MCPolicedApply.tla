--------------------------- MODULE MCPolicedApply ----------------------------
EXTENDS PolicedApply

CONSTANTS b1, x1, x2, w1, w2

\* Addresses that nothing tells apart, and checkouts.
Symmetry == Permutations({x1, x2}) \cup Permutations(Checkouts)

==============================================================================
