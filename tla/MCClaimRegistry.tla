--------------------------- MODULE MCClaimRegistry ---------------------------
EXTENDS ClaimRegistry, TLC

CONSTANTS o1, o2, a1, a2, r1, r2, i1, x1, e1

MCOverlays == {o1, o2}
MCAddresses == {a1, a2}
MCRuns == {r1, r2}

Symmetry == Permutations(Overlays) \cup Permutations(Addresses) \cup Permutations(Runs)

==============================================================================
