----------------------------- MODULE MCCheckout ------------------------------
EXTENDS Checkout, TLC

CONSTANTS k1, k2, o1, o2, p1, p2, p3

TwoBases == (o1 :> k1) @@ (o2 :> k2)

Symmetry == Permutations(Procs)

==============================================================================
